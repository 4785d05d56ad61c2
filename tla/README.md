# A formal model of SEMV

SEMV verifies multimedia claims: it collects evidence for the claims of a case,
argues for and against them in a quantitative bipolar argumentation framework
(QBAF), lets a human contest the result, reflects on the finished case and
keeps what it learned in a memory that guides later cases.  This directory
holds TLA+ models of it, the TLC runs that check them and proofs that TLAPS
checks.

## 1. Inventory

| part | source | state it keeps | operations | what is hard |
|---|---|---|---|---|
| Case pipeline | `src/main.py` | the case bundle and report of one run, intermediate files | run a case, process claims in parallel, resume from a step | order of the steps, merge of parallel results, resumption from stale files |
| Research and retrieval | `src/retrieval/` | caches, time of the last request, circuit breaker, visual index | search, fetch, retry, add assets | rate limit and breaker shared by threads, lost cache updates, ids that drift from metadata |
| Argumentation and QBAF | `src/argumentation/`, `src/qbaf/`, `src/aggregation/` | none | generate, verify, score, propagate, map to a decision | convergence, thresholds, aggregation of sections |
| Contestation | `src/contestation/` | the arguments with their human status | apply edits, route a revision, rerun a part and merge | sequences of edits, regenerated arguments, reruns that drop human work |
| Reflection | `src/reflection/` | none | reflect: generate candidates, verify, stage, consolidate | candidate ids on reruns |
| Memory verifier | `src/memory/memory_verifier.py` | none | verify a candidate against the active records | reads without the lock; fails closed |
| Memory store | `src/memory/memory_store.py` | short-term file, three long-term files, event log, usage log, archive, snapshots | stage, upsert, replace, append, archive, snapshot | lock, atomicity per file only, overflow |
| Memory consolidator | `src/memory/memory_consolidator.py` | none of its own: reads and rewrites the files | consolidate: expire, compare, merge, conflict, cluster, promote, generalize, re-check, write | crashes between files, reruns, order of rows, hysteresis of the lifecycle |
| Memory service, retriever | `src/memory/memory_service.py`, `memory_retriever.py` | cases since the last consolidation, frozen flag | stage, schedule, retrieve, log usage | frozen memory must not change |
| Protocols | `src/evaluation/protocol_runner.py` | output and memory directories of a phase | static, prequential, train-freeze-test, transfer, ablations | resume, leakage of test cases into memory |
| Similarity backend | `src/memory/memory_similarity.py` | a cache of relations | compare lessons in batches, by rule or by LLM | answers kept for both orders, failures kept as answers |
| Seed memory | `src/memory/seed_memory.py` | none | insert the delivered rules that are absent | several seeders, each rule under a lock of its own |
| Media processing | `src/processing/` | keyframes, tool output | metadata, keyframes, text, scene, forensics, speech, reverse search | every tool may be missing or fail; what a flag is taken for |
| Ingestion, evidence, reporting, metrics, utilities | `src/ingestion/`, ... | files | conversions, prompts, rendering | no control of their own; not modelled |

How the parts interact: the pipeline calls retrieval and argumentation for each
claim (in threads), then aggregation and reporting; a human review goes through
contestation and may rerun a part of the pipeline; at the end the reflex agent
verifies candidate lessons against the long-term memory, stages them through the
memory service, and every `every_n_cases` cases the service consolidates.
Processes share the memory directory, behind one lock file, the visual index and the cache
file of the GDELT client, both without a lock.

The memory is the program's own logic at its densest: what is learned from one
case decides the next ones, it survives crashes and reruns, and its README makes
strong promises about it.  It is the core, and most of the modules are about it.

What makes each part correct (section 4 says what is checked of it, and section 6 what the code does not hold):

- *memory*: support counts independent observations, once; only verified training
  observations count; a record's status follows from its evidence; deprecated
  records stay so; nothing is lost by a crash or deleted without an archive
  copy; every transition is logged; consolidation is idempotent; staged rows are
  processed.
- *protocols*: a frozen memory never changes; test cases never reach the memory;
  a resumed run ends like an uninterrupted one.
- *contestation*: one version of an argument counts; a rejected argument or
  rejected evidence stays out, also after a rerun; human arguments survive reruns.
- *QBAF*: strengths stay in [0, 1] and are monotonic in support and attack.
- *retrieval*: requests keep their distance; an open breaker stops requests; no
  cached answer is lost; an id names its own row.
- *pipeline*: parallel claims merge as sequential ones would; gold is not read before
  the prediction; a fallback that was taken is reported.
- *media*: a missing or failed tool is no sign of manipulation; no failure hides a cue.

## 2. Plan

| module | what it is about | state |
|---|---|---|
| `MemoryRecords`, `SoundRecords`, `GoldenMemory`, `MemoryConsolidation` | the memory lifecycle, what it promises, its refinement | checked, proved |
| `MemoryGeneralization` | rules synthesized from repeated observations, recovery, retry | checked, proved |
| `MemoryUsage` | citations, outcomes and their rollup, frozen runs | checked, proved |
| `SeedMemory` | several processes on one file, seeding | checked, proved |
| `FrozenProtocol` | protocols, snapshots, resumption | checked, proved |
| `MemoryRetrieval`, `SimilarityBackend` | what a case is given; what two lessons are to each other | checked, proved |
| `Reflection` | from a report to staged lessons | checked, proved |
| `Contestation` | edits, routing and merges after reruns | checked, proved |
| `ClaimDecision`, `FinalDecision` | from evidence to the decision on a claim; from claims to the verdict | checked, proved |
| `CasePipeline` | one case, with its pools of threads and its files | checked, proved |
| `GdeltResearch`, `VisualIndex`, `MediaProcessing` | research, the image index, the stages of a medium | checked, proved |

What composes what.  `MemoryConsolidation` composes verifier, store and consolidator on
one set of files and refines `GoldenMemory`.  `SimilarityBackend` composes the three users of one
backend; `MemoryUsage` a case, the event log and consolidations of other processes;
`MemoryRetrieval` retrieval with reflection, promotion and outcomes; `FrozenProtocol` training, consolidation,
snapshot and evaluation; `Contestation` reviews with the part of the pipeline that they rerun;
`CasePipeline` the stages of a case.

Left: the composition of generalization with the ordinary promotion in one state space (each alone has some ten
thousand states, their product is out of reach of a run of minutes).

## 3. The modules

**`MemoryRecords`** holds the data and pure functions.  An *observation* is a
reflection candidate: what it says (`statement`, the canonical key of its text),
its case and source, its confidence and the facts that verification asks about.
What the similarity backend says of two texts is the constant `RelationOf`; it is
any relation, since the hybrid backend compares scores with thresholds and may ask an LLM.
A long-term *record* is its status, the observations behind its parallel lists
of case ids and fingerprints (`backers`), those behind its conflict lists
(`opponents`), and the two counters, which the code keeps apart from the lists
and so does the model.  Confidences and ratios are integer percentages; `Alpha` and
`Beta` are exact sums where the code adds floats.  `LifecycleStatus` is
`_lifecycle_check`, `MergeSupport` is `_merge_support`, `ApplyConflict` is
`_apply_conflict`, `PromotionThresholdsMet` and `Promoted` are `_try_promote`.

**`MemoryConsolidation`** is the state machine.

| variable | in the code |
|---|---|
| `stm`, `order` | rows of `short_term_memory.jsonl` and their order in the file |
| `ltm` | records of the three long-term files (`FileOf` says which one) |
| `archived`, `log` | the archive files, the event ids of `consolidation_events.jsonl` |
| `cand` | candidates verified and not staged yet, with the verdict |
| `pc` | where the process that holds the lock is in `_consolidate_locked` |
| `wstm`, `wltm`, `todo`, `clustering`, `unassigned`, `events` | its local variables: `stm_updates` over `stm_all`, `changed_ltm` over `ltm_by_id`, `actionable`, `remaining`, the rows not clustered yet, `events` |
| `clock`, `crashes` | days, crashes so far |
| `settled`, `transitions` | history, read by properties only |

Actions: `Verify` (the verifier; no lock), `StageCandidate` and `StageCrash`
(`stage_candidate`, with overflow), `BeginConsolidation` (expiry and selection),
`CompareWithMemory` (merge, conflict or leave), `PromoteCluster`,
`RecheckLifecycle`, then the write phase in the code's order:
`ArchiveDeprecated`, `UpsertLongTerm` (one file each), `LongTermWritten`,
`ArchiveExpiredRows`, `WriteShortTerm`, `AppendEvents`; `FinishDryRun` leaves
before it; `Crash` and `Tick` are the environment.  Since a consolidation holds
the lock from end to end, the lock is the condition `pc = "idle"`.

Abstractions, each with its reason:

- Generalization is off (`generalize_repeated_episodes: false`, or observations
  of type `semantic_rule`), and usage counters are left out; both have modules
  of their own, `MemoryGeneralization` and `MemoryUsage`.
- A row carries the candidate it was staged from.  Lesson generation gives a
  failure candidate an id that does not depend on its text; reruns that change
  the text are in `Reflection`.
- `staged_at` counts days; of the rows of the oldest day any may overflow.
- The order in which events are appended does not matter to anything else, so
  one step appends them, and a crash leaves any part of them.
- The audit events of the verifier are left out.
- A candidate or row is compared with all active records; the code compares it with the `lexical_shortlist_k` (20) most similar
  ones (`memory_verifier.py:197-203`, `memory_consolidator.py:400-405`).  The runs have fewer records than that; in a larger memory
  a support or conflict outside the shortlist is not noticed.  The cut is in `SimilarityBackend`.
- `Closest` takes any record of the highest priority; the code breaks ties by
  lexical similarity.

**`SoundRecords`** says what a reader of the long-term files may rely on of each record:
its counters count pairwise independent, trustworthy observations, those against it
contradict it, and its status follows from them by the lifecycle rule (`Sound`).  A record
enters active, unopposed and with enough independent sources (`Admitted`), and later only
gains evidence that is related to its statement, while it is in service or under review
(`Reassessed`).

**`GoldenMemory`** is the abstract specification: records change one file at a time, each as
`Evolves` allows.  `MemoryConsolidation` implements it with `memory <- ltm`: short-term
rows, copies, dry runs, crashes and the log disappear.

**`MemoryGeneralization`** is the part of a consolidation that makes rules of rows which cannot be
promoted by themselves.  `stm` and `rules` are the two files, `wstm` and `wrules` the copies of the
run, `todo` the rows not clustered, `retry` the proposals to synthesize again; `batch` names the rows and answers
a store is given (`Batches`).  `StageRow` stages one, `BeginRun` expires and
selects rows, `Generalize` handles one cluster (`_try_generalize` and what it calls:
synthesis, verification, merge into an existing rule, activation or proposal), `Retry` is
`_reconsider_generalization`, `WriteRules` and `WriteRows` are the write phase, `Killed` may fall
between them.  `Review` stands for conflicts that send an active rule to review.  What
the LLM synthesizes and how it verifies is any choice; the order of rows is left open.

**`MemoryUsage`** follows a citation from the stage that makes it (`Predict`, `Review`, `Supervise`,
`Finish`), through the events it logs one by one (`LogOne`, `LogFails`) to the counters of the
record (`Consolidate`, `WriteFile`, `Note`, `Release`).  `log` and `external` are the two places
`log_usage` may write to.  A crash leaves some of the files written.

**`SeedMemory`** has one file, its lock, seeders and consolidators.  A seeder reads the rows once and
inserts each absent rule in a transaction of its own (`SeedRule`, `Inserted`); a consolidator
holds the lock from its read (`Revise`) to the replacement of the file (`WriteTemporary`, `Replace`);
`Die` ends any of them and frees its lock.

**`FrozenProtocol`** runs `run_protocol`: the check of the directory (`Start`), seeding, `Predict`,
`Stage` and `Register` for each training case, the forced consolidation (`Finish`), `CopySnapshot`
and `WriteManifest`, or `Open` for a configured snapshot, then `Evaluate` and `NextEntry` along
`PlanOf`, and `Conclude`.  Memory is abstracted to the set of cases it was learned from.
`Crash` restarts the process with the same configuration.  `Tamper` is somebody else who writes to the
memory files of the snapshot: a lesson more, nothing left, or again what was there when it was opened (`Foreseen`).  `undone`
keeps the answers that were given in the same opening before such a write was taken back.  The manifest itself is not written by others:
the code compares its hash in the same two places (`protocol_runner.py:112-122`, `:217-227`), with the same limit.

**`MemoryRetrieval`** scores rows exactly as the retriever does, in 1/10000, with every part of
the score, the two gates and the removal of rows that say the same.  `RetrieveForClaims`, `Reflect`,
`Promote`, `ChangeStatus` and `Outcome` move the rows between runs.  The
semantic similarity of a case and a row is a table.  The pass over the ranked rows is stated by what it
keeps: a set in which each row is kept exactly if fewer than `TopK` rows kept come before it and none of them
says the same (`Keeps`, `Retrieved`).  Of equal scores staged rows come first, then greater numbers, as the ids sort.

**`SimilarityBackend`** models `relations_batch` with its cache, as the verifier
(`BeginVerification`, `CompareWithRecord`, `Judge`), the consolidator (`Typed`, `Compared`, `Cluster`) and
the retriever (`Retrieve`) of one process ask it.  `Deterministic` is what fields and words decide; the rest is
asked of the LLM, which may answer anything or fail.

**`Reflection`** goes from a report over failure modes and one answer of the LLM to candidates, their
grounding, verification and staging; `Begin` may take a report of the same case again, after a
review or a crash; `Promote` is the consolidation in between.  Candidates are verified in any order, as nothing
depends on it before all are staged.

**`Contestation`** applies a batch action by action (`Contest`), routes it (`plan`) and reruns
decomposition, evidence, arguments or only the graph for the affected claims (`Rerun`); `ReviewAgain`
is a later review, from the trace.  An argument is its text, its evidence and its human status.

**`ClaimDecision`** is `_process_claim`: `Rank`, `Generate`, one of three ways to verify,
`ScoreArguments`, `ResolveClash` or `NoClash`, `Decide`.  Reals are integers (units of 1/10000, divisions
round down).  **`FinalDecision`** is the aggregator as a function, with `Redecide` for one claim that changes.

**`CasePipeline`** has a pool in which `task[i]` of a claim is queued, running, returned or collected
(`Take`, `Return`, `Raise`, `Collect`); the main thread goes through the stages, with the guards against gold
in the bundle, and `Save` writes the files one after the other.  `RunAgain` runs the case again over the
same directory, also when the run before was killed.

**`GdeltResearch`** gives each claim a thread; the threads share time stamp, breaker and cache file of the
client, reading, sleeping and writing them in separate steps; `threads` is the size of the pool.  Time is what is left of
each delay.

**`VisualIndex`** has the three files that belong together: rows, vectors, and the numbers that say whose
a vector is.  An asset is named after its path and content; `methods` is what the configuration searches by.  Of each file that is searched
for, `looked` says what could be computed: the digest, the hash, the embedding with its lookup, each of which may fail while the search goes on (`visual_index.py:101-104`, `:148-152`).
A file that is added may fail to be read, or to be embedded, and of equal files in one call the first that could be read gets the row.  Hashes and
embeddings are tables of distances.  `Steady` is when nothing can shift the numbers.

**`MediaProcessing`** is the fixed sequence of stages for one medium; `world` says what is in the file and
which tools are installed, `evidence` what a stage leaves.  Like the pass of the retriever, the removal of frames
that resemble each other is stated by the set it keeps (`Deduplicate`).  `Stance` is what the argument generator
makes of a piece of evidence.

Operators marked *mutant* are altered forms of the next definition.  No
specification uses them; they document which change of the code each property
would notice.

## 4. The runs

The memory has a run for each set of observations.  Each other run gathers modules that belong to one part
of the system, in a module (`MC...`) of its own, and `explored` says which of them moves.  The others
rest in a state their `Init` allows.  They share no state, so that nothing is lost by looking at them one
at a time.

What a run varies is chosen in the initial state.  `Contestation`, `MediaProcessing`, `CasePipeline`, `MemoryUsage`, `SeedMemory` and
`MemoryGeneralization` have a constant that maps names to instances (`Settings`, `Setups`, `Plans`, `Parties`, `Batches`: what
a case may be, threads, bounds) and a variable that names one of them from the first state to the last; `GdeltResearch` and
`VisualIndex` have sets of them (`ThreadCounts`, `MethodSets`).  Every run extends its modules and checks their own properties, the
definitions that the theorems of section 5 state; a property with several parts is a conjunction in the module of its parts.

| run | instances | properties |
|---|---|---|
| `lifecycle` | a seeded rule, two observations for it, two against it, all independent; no crash.  In every order of staging and consolidating, the rule leaves service at 33% conflicts, returns at 25%, is deprecated, and its statement is promoted anew | `StatusFollowsEvidence`, `BacksOneRecord`, `OppositionNeverBacks`, `ProcessedLogged` |
| `crash` | three observations, two of them from one source and one a contradiction; two crashes | `SupportIndependent`, `ProcessedAccounted`, `ImplementsGoldenMemory` |
| `files` | records in two files, a human-reviewed episode beside rival statements; a crash; with fairness | `DeprecatedArchived`, `StagedRowsAreProcessed` |
| `expiry` | room for two rows, rows expire after a day, two days; ungrounded and universal candidates; a crash | `OnlyTrustworthyEvidence`, `NeverSilentlyDeleted` |
| `idempotence` | a resembles b, b resembles c, a does not resemble c | **violates** `SettledAddsNothing` (section 6) |
| `lessons` | `Reflection`: two reflections on reports of three cases, one of them also after a review, with every answer of the LLM, crashes and promotions.  Batches `proposals`: three rows, two of them independent, retries, conflict reviews, a crash between the two files; `recovery`: four rows in two wordings that expire while a run recovers their proposal | `LessonsGrounded`, `PromotedStays`, `Justified`, `RulesEvolve` |
| `recall` | `SimilarityBackend`: five lessons that retriever, verifier and consolidator compare in any order, with a shortlist too short for the active ones, every answer and failure of the LLM, a restart.  `MemoryRetrieval`: runs of two cases, learning or not, over four rows that are staged, promoted, retired and used | `DecidedStays`, `ContradictionTyped`, `GivenIsRight` |
| `store` | plans `between`: two training cases, with consolidations that may be killed between them; `beside`, `again`: consolidations at any time, a case run twice; `evaluated`: test cases and frozen runs, one logging into its snapshot, one without a file.  Parties `one`: a seeder that is interrupted and repeated beside two consolidators; `two`: two at once beside one | `UsesAccounted`, `SeededOnce`, `NothingLost`, `NothingOverwritten`, `StoreGoesOn` |
| `runs` | `FrozenProtocol`: every protocol over three training and three evaluation cases, resumed or not, on every kind of configured snapshot, two crashes, two foreign writes, of which the second may take the first one back.  Setups `pool`: a case of three claims on two threads, an exception in any; `repeated`: killed anywhere and run again; `alone`: one worker, a language model that repeats types, up to three fallbacks | `NeverFromOwnGold`, `ResultsFromSnapshot`, `FrozenIsConsolidated`, `GoldGuarded`, `ParallelIsSequential`, `ReportComplete`, `RunsEnd` |
| `decisions` | `ClaimDecision`: a claim from two pieces of evidence to its decision, every combination of features, every answer and failure of the LLM.  `FinalDecision`: six claims and every change of one of them | `VerdictsAreOwn`, `SidesAreAlike`, `VerdictFollowsClaims` |
| `review` | settings `batch`: one review of two claims by up to two contestations; `again`: two reviews, the second from the saved trace, adaptive revision on or off, a new decomposition | `ReportReflectsReview`, `RerunKeeps`, `ReviewedIsVerified` |
| `evidence` | Settings `forensics`: an image or a video of two frames, tools missing, failing or answering anything; `frames`: three frames that resemble each other in every way.  `VisualIndex`: three cases index and search images by hash, and by hash and embedding, with and without FAISS, with up to two crashes and every combination of failures of digest, hash and embedding.  `GdeltResearch`: the research on two claims, on one thread and on two | `NothingHidden`, `IndexTrue`, `LimitsKept`, `EvidenceComes` |

What the conjunctions and the wider properties hold: `LessonsGrounded` that a staged row points to its own case, is not trusted when it
named what is not there, and comes from a training case and a detected mode; `Justified` that a
rule counts each case and source once and that a proposal has a reason; `RulesEvolve` that no
step of generalization activates a rule below its thresholds, loses its support, or recovers it without settling its rows (a rule under
review that the lifecycle check returns to service, `memory_consolidator.py:1411-1430`, is outside: it is judged by its conflict ratio and confidence, which
`StatusFollowsEvidence` and `ImplementsGoldenMemory` are about);
`UsesAccounted` that counts are the uses of training cases, each once and as one
outcome; `NothingLost` that no rewrite takes back a use, `NothingOverwritten` neither records nor revisions;
`VerdictsAreOwn` that what counts as valid was judged so, and that no argument is lost, doubled or turned, where
the arguments generated for the claim differ in their texts (two of one text have one id, a hash of claim and text, and the
parallel verifier keeps one verdict for both, main.py:892-934); `VerdictFollowsClaims` that a case with a refuted context claim is trusted only if no "what" or main claim is
supported, besides what its name says; `GivenIsRight` that a case is given rows that differ, promoted ones when frozen, the best that pass the gates, and that
outcomes move a row one way; `NothingHidden` that
failures, cues, editors, gaps and dropped frames of a medium are all told of; `IndexTrue` that
matches name the right image, not the query's own image of the own case if it has a digest, and that copies of a query that has a hash are found; `LimitsKept` spacing, breaker, retries, records and
cache of the client.  Each part has its own mutants in `PROJECT.json`.

Deadlock is checked in the runs of `MemoryConsolidation`, which can always go on.  In the others it is not: a
protocol, a case, the research of a case or a decision comes to an end, and runs, reviews, reflections or starts
are bounded.  Where ending matters it is a liveness property (`RunsEnd`, `EvidenceComes`, `StoreGoesOn`).

Bounds of the memory runs.  `MaxPending` bounds the candidates verified and not staged yet: one is
enough for a stale verdict, since it may stay pending while others are staged
and consolidated.  `MaxCrashes` is two where a crash during
the recovery from a crash matters.  Promotion thresholds are scaled down with the number of
observations; the ratios of the shipped configuration (20% and 30%) would need
eight supports for a recovery.  Three or four observations give every pairwise
relation a consolidation looks at (same case, same source, support, conflict) and every
order of the rows.  `BacksOneRecord`, `OppositionNeverBacks` and
`ProcessedLogged` are stated for a system that does not crash or drop rows, and are
checked and proved there only: a crash between the long-term and the short-term files can make an
observation support a second record, when the first one is deprecated by the
same run, and a crash before the log loses events.

Bounds of the others, each a CONSTANT:

- *Crashes and restarts* (`MaxCrashes`, `MaxRuns`, `MaxRestarts`, `MaxStarts`): one crash falls in every
  gap between two writes; two where a crash can fall into the recovery from a crash (`FrozenProtocol`, `VisualIndex`, party `one`).
- *Threads and processes*: two are enough for each of the races, which are between one that has
  read and one that writes; `alone` and `threads = 1` are the sequential cases they are compared with.
- *Cases and claims*: three training cases with a consolidation every two make one run that
  consolidates in between and one that leaves rows to the forced consolidation; three claims on two workers
  make one wait; six claims give `FinalDecision` two claims of one type and each type it tells apart.
- *Observations* of `MemoryGeneralization`: three or four rows give pairs of the same source, of the same text and
  independent ones, and two clusters.  Thresholds are two cases and two sources.
- *Reviews*: edits that follow one another need a batch of two, work lost from the trace a second review.
- *Media*: three frames are the fewest on which resemblance is not transitive.  Scores are failed, missing, and on both
  sides of the threshold.
- *Similarity*: five lessons give every relation by rule, pairs that are left to the LLM, and items that are
  not comparable.  `Shortlist` is 2 (20 in the configuration), so that three active lessons do not all find room and the record that is
  contradicted may be the one left out.
- *Time*: delays are one to three units, so that each is shorter than one and longer than another.
- *Foreign writes* (`MaxTampers`): two, one that makes the files differ from what was opened and one that takes it back before the
  hashes are compared.  The theorem holds for any number.

Fairness of `MemoryConsolidation` (`FairSpec`).  Weak fairness of `Consolidate`: a process in the middle of a
run goes on.  Weak fairness of `BeginConsolidation` and strong fairness of
`ArchiveDeprecated`: the training loop calls `register_case_processed` for every case,
which consolidates on schedule and never as a dry run, so that among repeated
runs some reach the write phase.  Crashes are bounded.  Nothing is assumed of
verification, staging or the clock.

Fairness of the others.  `CasePipeline` and `FrozenProtocol`: weak fairness of the step of a process
that runs, so that a process that is not killed goes on; crashes and runs are bounded.  `GdeltResearch`: time passes, and a thread that can go on does; sleeps
are bounded by the retries.  `SeedMemory`: a process that was started goes on, a lock is
released by its holder or by its death (`flock`); nobody has to start.  Weak fairness is enough although the
lock may be taken by others again and again, as starts are bounded.  `MemoryUsage`: a case that has begun goes on, and
consolidation is run again and again, as the training loop does; crashes are bounded.

## 5. The proofs

*The memory.*  The theorems hold for every set of observations, cases, sources and statements, any
similarity relation, all thresholds and limits, and any number of crashes and days
(`MaxCrashes` and `MaxClock` are arbitrary).  They assume `MemoryAssumption`,
`ConfigAssumption` and `StoreAssumption`: the constants have their types; the sets of
observations and of record ids are finite; the record promoted from a statement makes
that statement and is no seed (seeds have ids of their own in `seed_memory.py`);
`max_conflict_ratio <= under_review_conflict_ratio`, as in `configs/memory.yaml` (the code
does not check it, and without it a record could be sent to review and reinstated in turn by
each run).

| theorem | module |
|---|---|
| `TypeCorrect`, `GoldenInvariantHolds`, `SupportIsIndependent`, `EvidenceIsTrustworthy`, `StatusIsJustified`, `SupportIsEnough`, `Refinement`, `DeprecatedStays`, `EvidenceIsKept`, `ProcessedIsAccounted`, `DurableInvariantHolds`, `DeprecatedIsArchived`, `DeletedIsArchived`, `ProcessedIsLogged`, `BackingIsSingle`, `OppositionIsFinal` | `MemoryConsolidation_proofs` |
| `LessonsAreGrounded`, `PromotedIsKept`, `RulesAreJustified`, `RulesOnlyStrengthen` | `Lessons_proofs` |
| `UsesAreAccounted`, `UsesAreKept`, `RulesAreSeeded`, `RecordsAreKept` | `Store_proofs` |
| `CacheMutual`, `DecidedIsKept`, `OneAnswer`, `ContradictionIsTyped`, `GivenRight` | `Recall_proofs` |
| `TypeCorrect`, `FrozenConsolidated`, `OwnGoldHidden`, `AnswersFromManifest`, `GoldIsGuarded`, `ReportIsSequential`, `ReportIsComplete` | `Runs_proofs` |
| `ReportReflects`, `RerunsKeep`, `ReportsAreVerified` | `Contestation_proofs` |
| `VerdictsFollow`, `VerdictsOwn`, `SidesAlike` | `Decisions_proofs` |
| `LimitsHold`, `IndexIsTrue`, `NothingIsHidden` | `Evidence_proofs` |

*Types.*  `TypeOK` is inductive; there is one lemma per action.

*The golden memory.*  That every record on disk is sound is not inductive: a long-term file
is overwritten with working copies.  `GoldenInvariant` adds what is known of the copies.
`EvidenceTrusted`: a candidate verified, or a row staged, is trustworthy, one that names a
record contradicts it, and any two rows are ordered (an independent selection is pairwise
independent only because the rows are totally ordered).  `CopiesSound`: the rows a run still
has to handle are such rows.  `RecordsGather`: while rows are compared, a copy is the record on disk or
stands on more, sound evidence, its status not yet checked; a record appears only
when nothing is left to compare, so that what is supported or opposed was in service on disk.
`RecordsEvolve`: after the lifecycle check, a copy is the record on disk or what `GoldenMemory`
lets it become.  The arithmetic is in two lemmas: the lifecycle rule applied to its own
outcome changes nothing (`LifecycleStable`, from the order of the two limits), and
an independent observation adds exactly one to the size of a set (`IndependentAdds`).
The safety theorems are weakenings of the invariant, and the refinement and the
two action properties follow because `UpsertLongTerm` is the only action that writes the
long-term files.

*Durability.*  `DurableInvariant` says that the copies account for the rows that they mark
as processed, and that nothing is left to write (`Changed = {}`) when the rows are written;
`ArchivedInvariant` says that the deprecated copies are in the archive once the write phase
has begun.

*Rows and events.*  `DeletedIsArchived` needs `RowsInvariant`: the copies of a run are of the rows of the file, the file has no more
than `max_records` of them, and what a run drops as expired is in the archive before the file is written; it holds
through crashes.  `ProcessedIsLogged` is proved for `MaxCrashes = 0` only, since a crash before `AppendEvents` does
lose events (section 4): `LoggedInvariant` says that the events of a run, with those in the log, cover what its
copies mark as processed.  `BackingIsSingle` and `OppositionIsFinal` are proved for a system that is `Undisturbed`: no
crash, `MaxClock <= TtlDays` and room for all observations in the file.  There an observation that counts for or against a record is spent
(`SpentInvariant`): its row says so, no rerun replaces it, and no later step of the run selects it.

*Lessons.*  For any reports, labels, reviews and answers of the LLM, without an assumption.  `ReflectionInv` says of each candidate that
it is about the report at hand (`AboutReport`: its evidence, its arguments, and for a failure one of the modes found) and that one
which named what is not there waits for review; a verdict keeps this (`VerdictDecides`), rejects what is not of training, and
what was not rejected is sound for any later reader (`DecidedIsSound`: `modes` is among what the classifier finds in the case).
`PromotedIsKept` needs no invariant.

*Generalized rules.*  For any finite set of rows and any texts, wordings, thresholds, confidences and kills
(`GeneralizationAssumption`; a text is near itself, as an exact match is equivalent).  `Earned` is what a record promises: cases and sources
are those of the rows it has seen, which are independent, and their number is its support (`MergeEarned`: rows not yet counted add exactly
their number; `IndependentSize`: independent rows are as many as their cases and sources); a known record has seen
as many rows as the thresholds ask for, so that a proposal that new support recovers with the confidence of another rule is above them too.  That an
activation is above the thresholds and settles its rows is not inductive over the file, which is written once per run: `RunInv` says it of the copies
against the file the run read (`RunGated`, `RunKeeps`, `RunSettles`), with `todo` staged in that file, so that no later cluster of the run
takes a settled row back, and with `retry` only proposals.  `RunStep` proves it for any step that strengthens one record
(`Strengthens`); support, activation and reconsideration do.  A settled row is merged into the recovered rule or, when two proposals that list it
are recovered in one run, into the last of them, which `SettlesHeld` allows.

*Usage.*  For any finite sets of cases, arguments and records, any failures to log and any kills
(`UsageAssumption`).  `UsesInvariant` says of what the holder of the lock has still to write the same as of the records on disk: the count
is the size of the set of uses and bounds the three outcomes together (`ThreeParts`: they have no use in common), those uses are of
training cases, and they include the uses on disk; and each row still to be noted in the journal tells of uses that are written or
about to be.  `ContestedInvariant` is for consolidations that fall between cases (`Apart`): nothing more is to be
logged of a case whose use is counted, so that its outcome in the log is the one that was counted.  Otherwise a late outcome is
not counted (section 6).

*Seeding.*  For any rules with distinct ids, any seeders and consolidators and any
kills (`SeedAssumption`).  `FileInvariant`: rows with one id have one text, what a consolidator is about to write is a revision of the file as it is now
(`HeldInvariant`: others wait for the lock), and the rules a seeder came past are in the file (`SeedInvariant`); with one seeder those it has
not come to are not, and no id is there twice.  Of several rows with one id a rewrite keeps the last one, as a set of places has a
greatest element (`LastRow`).  With two seeders a rule may be there twice (section 6), which the properties do not deny.

*The pipeline.*  For any cases, claims, answers of the LLM, workers, faults and runs
(`PipelineAssumption`).  `CaseInvariant` adds to the properties what a parallel section keeps (`Kept`: under the id of a collected claim
is the result of a claim with that id), what is true before and after the report (`ReportInvariant`: no label was read and nothing staged before;
all that the threads found is there when arguments begin; one worker records each fallback) and that the files
are those of older runs until a run saves (`FilesInvariant`), the parts before the report.  That the ids of the claims are distinct, or that there is one worker, is a condition of
`ParallelIsSequential` itself (section 6 has the rest).

*Contestation.*  For any drafts, evidence, explicit targets, rounds and batches (`ReviewAssumption`; a target is one of
the stages, which `revision_router.py:99` tests).  `ReviewInvariant` adds to the types: what the router gathered (`PlanInvariant`: rejected
evidence asks for a stage that drops it, and a batch that is not empty concerns some claim), that human text which is not verified belongs to a claim that the batch
concerns (`UnverifiedInvariant`), so that the rerun verifies it, and that the graph is the one of the arguments
reported and rests on nothing rejected (`ReportInvariant`).  Rejected evidence stays out where no
contestation may ask for a new decomposition, and texts are verified in the first round with adaptive revision; section 6 has what happens
otherwise, and these conditions stand in the properties.

*The similarity backend.*  For any lessons, similarities and answers of the LLM.  The invariant is
that the cache is closed under swapping a pair, with the reverse answer, and holds for a pair what `Deterministic` decides, which is itself symmetric under
`Reverse` (the lemma all of it rests on; it needs the similarities to be symmetric,
`SimilarityAssumption`).  A pair that is in the cache is not asked again, so that its answer stands.
`ContradictionIsTyped` holds for any length of the shortlist.  A candidate accepted as no contradiction contradicts no active record but one that is
`Crowded`: as many others as the shortlist is long are at least as similar to the candidate.  The invariant of the verification under way is
that a record which contradicts the candidate is still to be compared or is crowded; it holds from the start because whatever the shortlist leaves out is at most as similar
as each of its members, and it leaves something out only if it is full (`NoRoom`).

*The protocols.*  For any training cases without repetition, any phases, variants and bounds, from `ProtocolAssumption`.
`OwnGoldHidden`: without `resume` memory holds lessons of
cases before the one at hand only (`OwnGoldInvariant`), because a restarted run refuses a directory that holds memory; with `resume` it is false
(section 6).  `AnswersFromManifest`: from opening the snapshot to the last answer, what was opened is what the manifest
says (`Agreed`), and every answer is as it should be (`Expected`: what it saw is what the manifest says, or the write was taken back since)
or the files differ from what was opened (`Suspect`).  A write that makes them agree again is one that takes back, which makes every answer
of this opening expected; the comparison at the end, or before
the snapshot is opened anew, leaves no suspects.  That a write which is undone in time is an exception is not a weakness of the proof: two hashes cannot tell
(section 6).  It is stated for runs
that have a snapshot; that a run without one gives no answer with memory depends on the shape of the plan, which
is made by `FlattenSeq`, and is model-checked only.  `FrozenConsolidated`: nothing is staged after the forced consolidation.

*Retrieval.*  For any finite set of rows, any tables of similarity, queries, gates and limits (`RetrievalAssumption`; the
judgement that two rows say the same is symmetric).  The ranking (`Before`: score, then staged rows before promoted ones, then number) is a strict order, so that any rows have a first and a last
one (`FirstRow`, `LastRow`: of the sets of rows before each there is a smallest one).  What a pass keeps is definite (`SomeSolve`): of the sets of rows on which
no pass is possible a smallest one would have a last row, and the pass over the others extends to it.  That a better row is never left out
(`LeftOut`) needs that what is kept has room for no more than `TopK` (`RoomEnough`).  `UseTeaches` compares two passes, before and after an
outcome: the score of one row moves, by a quotient of counters that grows with its numerator and falls with its denominator (`OutcomeMoves`), and a row that
moves up in the ranking while no other does, and was kept, is kept (`RiserStays`: what comes before it can only become less).

*Decisions.*  For any finite sets of claims and evidence, any beliefs, drafts, features and failures
(`DecisionAssumption`, `FinalDecisionAssumption`).  `VerdictInvariant` is that the verdict is a function of the beliefs; the theorem then compares the
function on two beliefs that differ at one claim.  The means in it are sums over the claims of a type, which are folds over a set in any order:
`SumsAgree` proves that such a fold does not depend on the order chosen, and with it that a sum takes the
difference of one summand (the smallest set on which two folds differ is empty).  `ArgumentsInvariant`: an argument rests on evidence at hand, what was
judged is judged again on the text that is reported, and generation, verification and scoring keep each
argument at its place.  `SidesInvariant` adds that scores are natural numbers and the score of the claim is the one of its arguments, from
which the symmetry, the tie and the pull of one argument follow by arithmetic on products and quotients that are lemmas of their own.

*Research.*  For any claims, queries, threads, delays and answers (`GdeltAssumption`).  `ProgressInvariant` weighs, for each claim, the requests
sent against the queries behind it, the attempts of the one at hand and the place of its thread: at most `MaxRetries + 1` requests for each
query; and the articles kept, of which every query may add one beyond the limit.  It holds for any number of threads.  `AloneInvariant` is for one: at most one claim
is worked on (`OneWorks`), a thread that sleeps before a request sleeps long enough for the time that has passed since the last one, the
breaker is closed where a search goes on (`Spaced`), and the file is contained in what the thread has read of it, so that writing loses nothing
(`Cached`).  With two threads these fail (section 6).

*The image index.*  For any media, methods, distances, limits and crashes (`IndexAssumption`).  `IndexInvariant`: an image has one row, also with those still to be
written (`Single`), a vector is of an image that has a row (`Known`), and while nothing can have shifted them the vectors, the numbers and
those still to be written continue each other in each of the three steps of the write (`Lined`).  `OrderedReaches` says that numbers given in order to some of the
new rows have no gap.  What is reported is checked when it is reported (`Unasked`: nothing is before); a copy is found (`CopyReported`) as
the matches ahead of it, of which the code keeps `MaxMatches`, are fewer than the rows.  The failures of a search are conditions of
`NotItself` (the digest) and `DuplicateFound` (the hash), per file; section 6 says what happens where they fail.

*Media.*  For any media, tools, answers and limits (`MediaAssumption`: what the stages may answer does not contain the name of a detected signal).  Evidence is only added;
`MediaInvariant` says of each piece that an uncertainty carries no detected signal, and of each stage that has passed what it
left: the tag of the editor, the reason for having no picture, a description or the reason for having none, the
report of TruFor with its failures and highest score, which is asked once (`Unscanned`).  That the pass over the frames keeps something definite is `SomePass`, as for
retrieval; that it stands for all frames (`PassStands`) needs that resemblance is symmetric, not that it is transitive.

What the proofs corrected in the models: the smoothed mean without QBAF (`LaplaceMean`) rounded its denominator before the division, so
that an argument for a claim could lower its score; the code does not round there.  An asset of the image index was identified by its path
alone; the code hashes path and content, so that a file that changed is another asset.

Proved and not among the runs' properties: the type invariants, the inductive invariants named above,
`EnoughIndependentSupport`, `DeprecatedIsFinal`, `EvidenceOnlyGrows`, `CacheIsMutual` and `AnswersStand`.

Only model-checked: the liveness properties `StagedRowsAreProcessed`, `RunsEnd`, `EvidenceComes` and `StoreGoesOn`, since they depend on fairness and `ENABLED`,
which TLAPS does not handle; and that the violation of section 6 which is a run (`idempotence`) can be reached.

## 6. Where the code departs from its documentation

The first of these is a run (`idempotence`).  The others were met while modelling: the property was first stated
as the document words it, TLC gave a counterexample on an instance like those of section 4, and the runs
check the property, if any, that is left of it under the condition where it holds.  Each entry names the line of the
code and the words it departs from; the steps can be followed in the module of that part.

- *Idempotence* (`README.md:900-902`).  `_cluster` grows a cluster from its first row
  and compares with that row only.  A row that resembles another member, but not the
  first row, stays in a cluster of its own; if that one does not reach the thresholds
  the row stays staged.  When the other cluster is promoted with a text the row
  resembles, the next `--apply` merges it and increments `support_count`.
- *Event log* (`README.md:863-864`).  The ids of `deprecate`, `review` and
  `reactivate` events depend on the memory id only (and the id of `expired` on the row
  only), and the log ignores an id it holds: later transitions of the same kind
  are not recorded.
- *Competing rules* (`README.md:91-95`).  A row staged as conflict evidence falls through
  to clustering when its target is deprecated before it is consolidated; it can then be
  promoted in the same run as a record of the opposite statement.
- *Rejected arguments* (`src/contestation/adaptive_revision_executor.py:88`).
  README.md:147-148 says a reviewer uses reject to "mark an existing argument as invalid,
  unsupported, misleading, or irrelevant". A rejection reruns argument construction, and when the
  generator argues the same again merge_arguments_after_rerun gives the argument a new id
  (_rerun_1): unreviewed, it takes part in the reasoning.
- *Edited twice* (`src/contestation/contestation_applier.py:49`).
  README.md:149-150 says an edit is there to "correct the text, stance, score hint, linked evidence,
  or scope of an existing argument". filter_arguments_for_qbaf leaves out an edited original only
  when it has no original of its own: after an edit of an edited argument the first replacement and
  the second both take part.
- *Rejected evidence* (`src/contestation/adaptive_revision_executor.py:618`).  tests/test_adaptive_rerun.py:91-114 says
  that evidence rejected by the human is excluded from the regenerated arguments. When the batch
  also targets claim_decomposition, the arguments of claims that are worded as before are retained
  with the rejected evidence, unreviewed ones included.
- *Rows held for ever* (`src/memory/memory_consolidator.py:273`).
  tests/test_memory_consolidation.py:590 asserts after a recovery that "all(row.status == "merged"
  for row in store.load_short_term())", also tests/test_memory_consolidation.py:511-513. The rows
  that are settled are those whose status in the rows read at the start of the run is under_review:
  a row held earlier in the same run, and a row that was held without being listed in
  generalized_from_stm_ids because its case or source was counted, stay under review for a rule that
  is active, and no later run selects them.
- *Unverified rule* (`src/memory/memory_consolidator.py:849`).  README.md:61-68
  says of a proposal "new independent support or explicit retry -> synthesis/verification rerun ->
  active if all semantic thresholds pass". When rows in other words synthesize a rule that says the
  same as a proposal, the verification of the new rule against the new rows activates the proposal
  (_activate_generalization keeps its text): what the active record says was never verified, e.g.
  the fallback text of a failed synthesis.
- *Memory-only arguments* (`src/qbaf/graph_builder.py:41`).  README.md:936-937
  says of memory: "It is never evidence for the current claim, and memory-only arguments are
  rejected as ungrounded." The verifier marks such an argument invalid, but the graph is built from
  every argument: with a quarter of its score, which without evidence falls back to defaults of one
  half (argument_scorer.py:31-35), it still moves the claim.
- *Clashes* (`src/argumentation/clash_resolver.py:32`).  argument_scorer.py computes
  the score again after the resolution, so that the factor 0.9 is lost and only the flag it adds
  counts; an argument that had a flag before keeps its score, although clash_resolver.py:35 notes on
  it that "Clash resolver lowered confidence due to comparable opposing evidence."
- *Confidence of uncertain* (`src/aggregation/final_decision_aggregator.py:70`).
  README.md:757-760 says "`report.final_confidence` is the confidence in `report.final_status`,
  including when that status is itself `"uncertain"`". The aggregator returns how far the mean score
  is from one half: the less decided the claims are, the lower the confidence in "uncertain", zero
  if all are at one half.
- *Own gold on resumption* (`src/evaluation/protocol_runner.py:247`).
  README.md:911-912 says "A case never learns from its own gold before prediction." A resumed run
  starts again with the first training case, on the memory that the interrupted run learned from the
  gold of that very case; the retriever excludes no memory by its source case.
- *Resumption after the snapshot* (`src/memory/memory_store.py:380`).
  protocol_runner.py:585-587 tells who runs a protocol on a directory with memory to "set
  resume=true explicitly"; a resumed train_memory_freeze_test trains everything again and then
  fails, as the label "frozen" of the interrupted run already exists.
- *Undone writes* (`src/evaluation/protocol_runner.py:217`).  README.md:916-919 promises
  an evaluation "against that snapshot with updates disabled" whose "memory state hash is unchanged afterwards". The hashes are compared when the
  snapshot is opened and after the last prediction, so that a write of another process in between is noticed only if it is
  still there: what is predicted meanwhile rests on memory that the manifest does not describe. `ResultsFromSnapshot` names those answers.
- *Claims of one type* (`src/main.py:860`).  README.md:961-962 says "Parallel
  execution can change wall-clock runtime but should preserve output ordering by claim." The
  decomposer keeps every item the language model returns and names a claim after its type
  (claim_decomposer.py:35-47), so that two items of one type share an id; the parallel sections keep
  one result per id, that of whichever thread ended last, and report it twice, while one worker
  reports both claims.
- *Spacing of requests* (`src/retrieval/gdelt_search.py:82`).  README.md:476-477 says
  "consecutive live requests are spaced at least `gdelt_min_interval_sec` apart (default 12s)". The
  claims of a case are researched by several threads on one client (main.py:991-1001); the time of
  the last request is read, slept on and written without a lock, so that two threads sleep the same
  time and send together.
- *Circuit breaker* (`src/retrieval/gdelt_search.py:99`).  README.md:481-482 says "if
  retries are exhausted while still rate-limited, GDELT is disabled for
  `gdelt_circuit_breaker_cooldown_sec`". The breaker is tested before the first query of a claim
  only: a search that another thread has under way sends its requests, retries and further queries
  while the breaker is open.
- *Record limit* (`src/retrieval/gdelt_search.py:189`).  README.md:436 documents
  `gdelt_max_records_per_claim: 8`. The limit leaves the loop over the articles of a query, after
  one was appended, and not the loop over the queries: every further query adds one more record.
- *Lost answers* (`src/retrieval/gdelt_search.py:318`).  README.md:463-466 says
  "Responses are cached in `data/cache/gdelt_search_cache.json`; for reproducible evaluation, run
  once with GDELT enabled to populate the cache". A thread reads the whole file before its request
  and writes all of it afterwards; an answer that another thread saved in between is lost, and a
  file read while it is being written counts as empty.
- *Late outcomes* (`src/memory/memory_consolidator.py:1332`).  README.md:839 says
  "usage/feedback events inform later consolidation". A use is the run of a case and is counted
  once: when a case that was counted is run again with a review, or when another process
  consolidates between its prediction and its review, the event that says the use was contested is
  logged and never counted.
- *Index after a crash* (`src/retrieval/visual_index.py:93`).
  src/retrieval/local_reverse_image_search.py:86 writes into the evidence "Query image/keyframe
  visually matches previous asset". The vectors are written before the file that numbers them: after
  a crash in between, the numbers that follow are one short of the positions in the index, and a
  search names the asset before the one it found.
- *FAISS installed later* (`src/retrieval/visual_index.py:239`).
  src/retrieval/local_reverse_image_search.py:86 writes into the evidence "Query image/keyframe
  visually matches previous asset". Without FAISS the vectors are silently not written and the
  numbers are: once FAISS is installed, the first vectors in the index carry the numbers of assets
  that have none there.
- *Exact duplicates* (`src/retrieval/visual_index.py:378`).
  tests/test_local_reverse_image_search.py:27 says "test_phash_finds_duplicate". A distance of zero
  is taken for none (`or 64`): an exact copy gets the lowest score, is sorted behind every image
  that only looks like the query, and is cut off after five matches.
- *Query without a digest* (`src/retrieval/visual_index.py:104`).  The search is called with
  `exclude_case_id`, and src/retrieval/local_reverse_image_search.py:86 calls what it finds a "previous asset". When the digest of the query
  cannot be computed the search goes on with none, which equals that of no row: an image indexed for the same case under another
  path becomes evidence about its copy. And when the hash cannot be computed an exact copy is missed. `NotItself` and `DuplicateFound` state these conditions.
- *Two seeders* (`src/memory/seed_memory.py:89`).  tests/test_memory_store.py:70
  says "test_seed_rules_are_never_duplicated". The ids are read once, without the lock, and each
  rule is appended under a lock of its own: two seeders that both read before either appended insert
  every rule twice, and the next rewrite of the file keeps the last of the two rows.
- *Praised failures* (`src/reflection/failure_classifier.py:51`).
  src/reflection/lesson_generator.py:63 says "Failure lessons: what failed, its trigger, and a
  corrective action." The classifier adds successful_strategy to the failure modes of a correct,
  confident case, and a lesson of the LLM under that name passes the filter on detected modes: it is
  stored as failure memory with negative polarity.
- *Reworded lessons* (`src/reflection/lesson_generator.py:310`).
  src/memory/memory_store.py:213 says "Re-staging the same candidate (same case rerun) replaces the
  previous". The id of an observation is a hash of the words of the LLM: a case that is run again,
  after a crash between staging and the end of the case, is staged a second time unless the LLM
  repeats itself word for word.
- *Fallback reports* (`src/argumentation/argument_generator.py:26`).
  src/argumentation/argument_generator.py:22 says "Flags that only signal a tool/adapter didn't run
  or data was absent" are no evidence of manipulation, and the list that follows names
  trufor_adapter_unavailable. The flags the code gives, deep_forensic_backend_unavailable,
  deep_forensic_inference_failed and deep_forensic_fallback, are not in it: without TruFor installed
  every forensic report of the fallback is argued as an attack.
- *Clear reports* (`src/argumentation/argument_generator.py:211`).
  src/argumentation/argument_generator.py:24 says "metadata_stripped, black_border_or_recapture_cue)
  is a real detected signal" and only that drives an attack. The words "not " in "Deep forensic
  analysis using TruFor did not find strong manipulation cues." make the clear report an attack on
  authenticity.
- *Signals from descriptions* (`src/processing/forensic_analyzer.py:299`).
  src/argumentation/argument_generator.py:23 says "evidence of manipulation. Anything else (e.g.
  software_tag_suspicious," is a real detected signal. The names of editors are looked for in the
  whole record, which holds the path and the description of the medium; and metadata_stripped is
  added (src/processing/metadata_extractor.py:154) when ExifTool failed or timed out on the file.
- *Clear without a look* (`src/processing/forensic_analyzer.py:87`).
  src/processing/forensic_analyzer.py:94 says "No strong manipulation cue detected by basic forensic
  analysis." of a video whose frames could not be extracted: the video file itself is the target,
  cannot be opened as a picture, and only images get forensic_image_unreadable.
- *Strongest target* (`src/processing/forensic_analyzer.py:215`).
  src/processing/forensic_analyzer.py:183 says "Strongest target={Path(strongest.target_path).name}.
  " of the target with the highest score; strongest_target in the metadata is the first target at or
  above the threshold.
- *Processing cut short* (`src/processing/vlm_visual_analyzer.py:79`).
  README.md:363 says "`RawMediaProcessor` now wires the media" flow end-to-end for every case media
  asset. An answer of the vision model with "uncertainty_flags": null passes the try around the call
  and raises a TypeError in _items_for_analysis: forensics, speech and reverse search are not
  reached, and the case ends.
- *Own gold in retrieval* (`src/memory/memory_retriever.py:84`).  README.md:49 says
  "Gold labels and gold reports are guarded by leakage checks and are only used" post-prediction. A
  training case that is run again, after a crash or in a second bootstrap over the same memory, is
  given the row drawn with its own gold label before it predicts: no row is left out by its
  source_case_ids.
- *Outage of the LLM* (`src/memory/memory_similarity.py:250`).
  src/memory/memory_verifier.py:35-37 says "Any LLM failure (timeout, parse error, unavailable
  model, any exception) yields verified=False". When the LLM fails in the comparison with an active
  record, the backend answers "unrelated" and keeps the answer; if the verification that follows is
  answered, the candidate is accepted, as no contradiction of the record nobody compared it with.
- *Crowded shortlist* (`src/memory/memory_verifier.py:201`).
  src/memory/memory_verifier.py:33-35 says "A grounded contradiction that passes this fail-closed
  verification is always typed evidence against its related memory". The candidate is compared with
  the lexical_shortlist_k most similar active records of all types and claims: lessons that are not
  comparable, e.g. failures in the same words, can take all the places, and the record that the
  candidate contradicts is not looked at.  `ContradictionTyped` allows this case and no other.

Of these, what a person who uses the system would meet first: a resumed or repeated run is given lessons from its own gold
(own gold), parallel research does not keep its distance (spacing of requests), and forensic reports that say
nothing, or that the picture is clear, are argued as attacks (fallback reports, clear reports).

## 7. Not modelled

- *Memory store* (partly).  Staging, overflow, upserts and appends under the lock, archive, event
  log, usage log and snapshots with their manifest. The backups that are copied before a file is
  rewritten are left out, as nothing reads them, and so is the depth count of the re-entrant lock:
  no process of the program nests transactions across threads.
- *Memory conflict checker* (not modelled).  No code calls it: the verifier and the consolidator ask
  the similarity backend themselves.
- *Research and retrieval* (partly).  The research of the claims of a case around the GDELT client,
  its cache, rate limit, retries and breaker; the selection and ranking of evidence. The wording of
  queries and the parsing of pages are left out: text without control.
- *Argumentation* (partly).  Generation, verification, scores, clashes and escalation, and what
  flags and words of a forensic report are taken for. The contribution analysis only describes a
  finished graph and is left out.
- *Evidence* (not modelled).  Normalisation, deduplication and provenance are functions of one list
  each, without state; ClaimDecision starts from normalized evidence.
- *Planning* (partly).  Decomposition into claims and the pool that plans them; what a plan says is
  text for a prompt and is left out.
- *Ingestion* (not modelled).  Conversion of data set files into case bundles: formats, no control.
  What a bundle may hold is an input of CasePipeline.
- *Reporting* (not modelled).  Layout of a finished report; the order in which its files are written
  is in CasePipeline.
- *Evaluators and metrics* (not modelled).  Sums and ratios over finished runs; the order of
  evaluation and what it may see are in FrozenProtocol.
- *Utilities* (not modelled).  Client of an external service, atomic text writes and diagnostics;
  their effect (failure of the LLM, a file that is whole or absent) is part of the modules that use
  them.

Also left out everywhere: the wording of prompts, logging, run-time diagnostics other than which
fallback was taken, and floating-point rounding (scores are integers that round down).  LLM, ExifTool, TruFor, FAISS,
the search services and the embedding model are external: any answer, or a failure, or a table.

The hazards are listed with their lines in `PROJECT.json`, each with the properties that are about it.  A few are
left without one, as no document says what should hold: files of an older run beside those of a new one, a trace
that restores no memory, and the ids of repeated lifecycle events (section 6).
