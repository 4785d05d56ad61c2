------------------------ MODULE MemoryConsolidation ------------------------
(***************************************************************************)
(* The memory lifecycle of SEMV: reflection verifies candidates against    *)
(* the active long-term memory, stages them in short-term memory (STM),    *)
(* and consolidation turns staged observations into support for, conflict  *)
(* with, or promotion to long-term records (LTM).                          *)
(*                                                                         *)
(* Every change of the files is made under the exclusive lock of           *)
(* MemoryStore.transaction, which consolidation holds from its first read  *)
(* to its last write; the verifier reads the LTM files without the lock.   *)
(* Consolidation computes on copies in memory and then writes file after   *)
(* file, each atomically (os.replace); a crash loses the copies and        *)
(* releases the lock.                                                      *)
(*                                                                         *)
(* Observations are promoted directly.  Their further generalization into  *)
(* synthesized rules is switched off here (generalize_repeated_episodes:   *)
(* false, or all observations of type semantic_rule).                      *)
(***************************************************************************)
EXTENDS SoundRecords

CONSTANTS
    TtlDays,              \* short_term.ttl_days
    MaxRecords,           \* short_term.max_records
    ArchiveExpired,       \* short_term.archive_expired
    MaxPending,           \* bound on the candidates verified and not staged yet
    MaxClock,             \* bound on the days that pass
    MaxCrashes            \* bound on the crashes

ASSUME StoreAssumption ==
    /\ ArchiveExpired \in BOOLEAN
    /\ TtlDays \in Nat /\ MaxRecords \in Nat \ {0}
    /\ {MaxPending, MaxClock, MaxCrashes} \subseteq Nat

VARIABLES
    \* the files
    stm,        \* [Obs -> row of short_term_memory.jsonl]
    order,      \* the pairs of rows in file order
    ltm,        \* [MemId -> record of the long-term files]
    archived,   \* what archive/ holds
    log,        \* the event ids of consolidation_events.jsonl
    \* the reflecting process
    cand,       \* [Obs -> verdict on a candidate that is not staged yet]
    \* the process that holds the lock to consolidate
    pc, wstm, wltm, todo, clustering, unassigned, events,
    \* the environment, and history read by a property only
    clock, crashes, settled

files == <<stm, order, ltm, archived, log>>
work == <<wstm, wltm, todo, clustering, unassigned, events>>
vars == <<files, cand, pc, work, clock, crashes, settled>>

-----------------------------------------------------------------------------
RowStatus == {"absent", "staged", "under_review", "promoted", "merged", "expired"}

Row == [status: RowStatus, verdict: {"verified", "under_review"},
        target: MemId \union {NoMem},     \* related_memory_id of a conflict
        promotedTo: MemId \union {NoMem}, \* promoted_to_memory_id
        stagedAt: Nat]

NoRow == [status |-> "absent", verdict |-> "verified", target |-> NoMem,
          promotedTo |-> NoMem, stagedAt |-> 0]

Candidate == [verdict: {"none", "verified", "under_review"},
              target: MemId \union {NoMem}]

NoCandidate == [verdict |-> "none", target |-> NoMem]

Event == [kind: {"support_increment", "merged", "conflict", "expired"},
          obs: Obs]
         \union [kind: {"promoted", "deprecated", "under_review", "reactivated"},
                 mem: MemId]
         \union [kind: {"conflict_review"}, mem: MemId, obs: Obs]

Rows(s) == {o \in Obs : s[o].status # "absent"}

\* Mutants: merged rows, and rows held as conflicts, are not terminal.
TerminalUnlessMerged(row) ==
    row.status = "promoted" \/ (row.status = "under_review" /\ row.promotedTo # NoMem)
TerminalUnlessHeld(row) == row.status \in {"promoted", "merged"}

\* The rows that a rerun of their case must not replace.
Terminal(row) == \/ row.status \in {"promoted", "merged"}
                 \/ row.status = "under_review" /\ row.promotedTo # NoMem

\* The part of an order that is about the members of S.
Among(S, before) == before \cap (S \X S)

FirstOf(o, S) == o \in S /\ \A p \in S \ {o} : <<o, p>> \in order

-----------------------------------------------------------------------------
Init ==
    /\ stm = [o \in Obs |-> NoRow]
    /\ order = {}
    /\ ltm = [m \in MemId |-> InitialRecord(m)]
    /\ archived = [expired |-> {}, overflow |-> {}, deprecated |-> {}]
    /\ log = {}
    /\ cand = [o \in Obs |-> NoCandidate]
    /\ pc = "idle"
    /\ wstm = [o \in Obs |-> NoRow]
    /\ wltm = [m \in MemId |-> NoRecord]
    /\ todo = {} /\ clustering = {} /\ unassigned = {} /\ events = {}
    /\ clock = 0 /\ crashes = 0
    /\ settled = FALSE

-----------------------------------------------------------------------------
\* Verification of a candidate against the active records on disk.

Active == {m \in MemId : ltm[m].status = "active"}

Contradicted(o) == {m \in Active : Relate(o, m) = "contradicts"}

KnownDuplicate(o) ==
    \E m \in Active : /\ Text[m] = StatementOf(o)
                      /\ ~Corroborates(o, ltm[m])

Verdict(v, m) == [verdict |-> v, target |-> m]

\* One verdict per stage of _verify_candidate, in its order; a rejected
\* candidate is NoCandidate.  The LLM may confirm, reject or be unavailable.
\* A contradicting candidate becomes typed conflict evidence about the first
\* contradicted record of the shortlist.
Verdicts(o) ==
    LET x == Observation[o]
        conflicts == {Verdict("under_review", m) : m \in Contradicted(o)}
        held == {Verdict("under_review", NoMem)}
        rejected == {NoCandidate}
    IN  IF x.heldout THEN rejected
        ELSE IF x.flagged THEN held
        ELSE IF RequireGrounding /\ x.grounding = "none"
        THEN IF conflicts # {} THEN conflicts ELSE rejected
        ELSE IF RequireGrounding /\ x.grounding = "invented" THEN held
        ELSE IF x.confidence < VerifyMinConfidence \/ KnownDuplicate(o) THEN rejected
        ELSE IF conflicts # {}
        THEN conflicts \union {Verdict("verified", m) : m \in Contradicted(o)}
        ELSE IF FileOf[x.statement] = "semantic_rule" /\ x.universal THEN held
        ELSE rejected \union held \union {Verdict("verified", NoMem)}

\* The verifier takes no lock: it may run in the middle of a consolidation.
Verify(o) ==
    /\ cand[o] = NoCandidate
    /\ Cardinality({p \in Obs : cand[p] # NoCandidate}) < MaxPending
    /\ \E v \in Verdicts(o) : cand' = [cand EXCEPT ![o] = v]
    /\ UNCHANGED <<files, pc, work, clock, crashes, settled>>

-----------------------------------------------------------------------------
\* Staging.

StagedRow(o) ==
    [status |-> IF cand[o].verdict = "under_review" THEN "under_review" ELSE "staged",
     verdict |-> cand[o].verdict, target |-> cand[o].target,
     promotedTo |-> NoMem, stagedAt |-> clock]

\* A new row goes to the end of the file, a replaced one keeps its place.
OrderWith(o) == IF stm[o].status = "absent" THEN order \union (Rows(stm) \X {o})
                ELSE order

\* Rows sorted by staged_at, those of one day in file order.
SortedByAge(rows, before) ==
    {p \in Rows(rows) \X Rows(rows) :
       \/ rows[p[1]].stagedAt < rows[p[2]].stagedAt
       \/ rows[p[1]].stagedAt = rows[p[2]].stagedAt /\ p \in before}

\* Beyond max_records the oldest row, whatever its status, is archived and
\* dropped.  One row is added at a time, so that one at most is too many; the
\* model counts in days, so that any row of the oldest day may be the one.
Overflow(rows) ==
    IF Cardinality(Rows(rows)) <= MaxRecords THEN {{}}
    ELSE {{o} : o \in {p \in Rows(rows) : \A q \in Rows(rows) :
                          rows[p].stagedAt <= rows[q].stagedAt}}

\* What the archive keeps of a row: whose it is and when it was staged.
Copies(rows, S) == {<<o, rows[o].stagedAt>> : o \in S}

WriteRows(rows, before, dropped) ==
    /\ stm' = [o \in Obs |-> IF o \in dropped THEN NoRow ELSE rows[o]]
    /\ order' = IF dropped = {} THEN before
                ELSE Among(Obs \ dropped, SortedByAge(rows, before))

WithStaged(o) == [stm EXCEPT ![o] = StagedRow(o)]

ArchiveOverflow(rows, dropped) ==
    archived' = [archived EXCEPT !.overflow = @ \union Copies(rows, dropped)]

StageCandidate(o) ==
    /\ pc = "idle"
    /\ cand[o].verdict # "none"
    /\ cand' = [cand EXCEPT ![o] = NoCandidate]
    /\ IF Terminal(stm[o])
       THEN UNCHANGED <<stm, order, archived, settled>>
       ELSE /\ \E dropped \in Overflow(WithStaged(o)) :
                 /\ ArchiveOverflow(WithStaged(o), dropped)
                 /\ WriteRows(WithStaged(o), OrderWith(o), dropped)
            /\ settled' = FALSE
    /\ UNCHANGED <<ltm, log, pc, work, clock, crashes>>

\* A crash after the overflow is archived and before the rows are rewritten.
StageCrash(o) ==
    /\ pc = "idle"
    /\ cand[o].verdict # "none" /\ ~Terminal(stm[o])
    /\ crashes < MaxCrashes
    /\ crashes' = crashes + 1
    /\ cand' = [cand EXCEPT ![o] = NoCandidate]
    /\ \E dropped \in Overflow(WithStaged(o)) : ArchiveOverflow(WithStaged(o), dropped)
    /\ UNCHANGED <<stm, order, ltm, log, pc, work, clock, settled>>

-----------------------------------------------------------------------------
\* Consolidation: the copies are read, stale rows expire, the rest is handled.

Expired == {o \in Obs : /\ stm[o].status \in {"staged", "under_review"}
                        /\ stm[o].stagedAt + TtlDays < clock}

\* Mutants: held rows are consolidated, and typed conflicts never are.
ActionableIfHeld == {o \in Obs \ Expired : stm[o].status \in {"staged", "under_review"}}
ActionableUntyped == {o \in Obs \ Expired : /\ stm[o].status = "staged"
                                           /\ stm[o].target = NoMem}

Actionable == {o \in Obs \ Expired : /\ stm[o].status = "staged"
                                    /\ stm[o].verdict = "verified"}

BeginConsolidation ==
    /\ pc = "idle"
    /\ pc' = "consolidate"
    /\ wltm' = ltm
    /\ wstm' = [o \in Obs |-> IF o \in Expired
                              THEN [stm[o] EXCEPT !.status = "expired"] ELSE stm[o]]
    /\ todo' = Actionable
    /\ events' = {[kind |-> "expired", obs |-> o] : o \in Expired}
    /\ UNCHANGED <<files, cand, clustering, unassigned, clock, crashes, settled>>

\* The records the observation is compared with, and the closest relation.
Related(o) == {m \in MemId : /\ Live(wltm[m])
                             /\ TypeOf(m) = FileOf[StatementOf(o)]
                             /\ Relate(o, m) # "unrelated"}

Priority(relation) == IF relation = "equivalent" THEN 4
                      ELSE IF relation = "contradicts" THEN 3
                      ELSE IF relation = "unrelated" THEN 0 ELSE 2

DeclaredConflict(o) == stm[o].target # NoMem /\ Live(wltm[stm[o].target])

Closest(o) == {m \in Related(o) : \A n \in Related(o) :
                 Priority(Relate(o, n)) <= Priority(Relate(o, m))}

MarkRow(o, status, m) ==
    wstm' = [wstm EXCEPT ![o].status = status, ![o].promotedTo = m]

MergeIntoMemory(o, m) ==
    /\ ~DeclaredConflict(o)
    /\ m \in Closest(o) /\ Relate(o, m) \in Supporting
    /\ wltm' = [wltm EXCEPT ![m] = MergeSupport(@, o)]
    /\ MarkRow(o, "merged", m)
    /\ events' = events \union {[kind |-> "merged", obs |-> o]}
                 \union (IF Corroborates(o, wltm[m])
                         THEN {[kind |-> "support_increment", obs |-> o]} ELSE {})
    /\ UNCHANGED <<clustering, unassigned>>

\* Mutant: a conflict is logged only when it takes the record out of service.
ConflictUnlogged(o, m) ==
    /\ IF DeclaredConflict(o) THEN m = stm[o].target
       ELSE m \in Closest(o) /\ Relate(o, m) = "contradicts"
    /\ wltm' = [wltm EXCEPT ![m] = ApplyConflict(@, o)]
    /\ events' = events \union (IF wltm'[m].status # wltm[m].status
                                THEN {[kind |-> "conflict", obs |-> o]} ELSE {})
    /\ MarkRow(o, "under_review", m)
    /\ UNCHANGED <<clustering, unassigned>>

ConflictWithMemory(o, m) ==
    /\ IF DeclaredConflict(o) THEN m = stm[o].target
       ELSE m \in Closest(o) /\ Relate(o, m) = "contradicts"
    /\ LET updated == ApplyConflict(wltm[m], o)
       IN  /\ wltm' = [wltm EXCEPT ![m] = updated]
           /\ events' = events \union {[kind |-> "conflict", obs |-> o]}
                        \union (IF updated.status # wltm[m].status
                                THEN {[kind |-> "conflict_review", mem |-> m, obs |-> o]}
                                ELSE {})
    /\ MarkRow(o, "under_review", m)
    /\ UNCHANGED <<clustering, unassigned>>

LeaveForClustering(o) ==
    /\ ~DeclaredConflict(o) /\ Related(o) = {}
    /\ clustering' = clustering \union {o}
    /\ unassigned' = unassigned \union {o}
    /\ UNCHANGED <<wltm, wstm, events>>

CompareWithMemory(o) ==
    /\ pc = "consolidate"
    /\ FirstOf(o, todo)
    /\ todo' = todo \ {o}
    /\ \/ \E m \in MemId : MergeIntoMemory(o, m) \/ ConflictWithMemory(o, m)
       \/ LeaveForClustering(o)
    /\ UNCHANGED <<files, cand, pc, clock, crashes, settled>>

-----------------------------------------------------------------------------
\* Clustering and promotion.

BlockOf(o) == Block[StatementOf(o)]

\* Blocks come in the order of their first row, rows in file order.
ClusterSeed(o) ==
    /\ FirstOf(o, {p \in unassigned : BlockOf(p) = BlockOf(o)})
    /\ \E f \in clustering :
         /\ BlockOf(f) = BlockOf(o)
         /\ FirstOf(f, {p \in clustering :
                          BlockOf(p) \in {BlockOf(q) : q \in unassigned}})

ClusterOf(o) ==
    {p \in unassigned : \/ p = o
                        \/ /\ BlockOf(p) = BlockOf(o)
                           /\ RelationOf[StatementOf(o), StatementOf(p)] \in Supporting}

Representative(rep, cluster) ==
    FirstOf(rep, {o \in cluster : \A p \in cluster :
                    Observation[p].confidence <= Observation[o].confidence})

\* The record is promoted unless its id is taken, by a record of any status.
TryPromote(cluster) ==
    \E picked \in SUBSET cluster, rep \in cluster :
       /\ IsIndependentSelection(picked, cluster, order)
       /\ Representative(rep, cluster)
       /\ LET m == IdOf[StatementOf(rep)]
          IN  IF PromotionThresholdsMet(picked, rep) /\ wltm[m].status = "absent"
              THEN /\ wltm' = [wltm EXCEPT ![m] = Promoted(picked)]
                   /\ wstm' = [o \in Obs |->
                                 IF o \in cluster
                                 THEN [wstm[o] EXCEPT !.status = "promoted",
                                                      !.promotedTo = m]
                                 ELSE wstm[o]]
                   /\ events' = events \union {[kind |-> "promoted", mem |-> m]}
              ELSE UNCHANGED <<wltm, wstm, events>>

PromoteCluster(seed) ==
    /\ pc = "consolidate" /\ todo = {}
    /\ ClusterSeed(seed)
    /\ TryPromote(ClusterOf(seed))
    /\ unassigned' = unassigned \ ClusterOf(seed)
    /\ UNCHANGED <<files, cand, pc, todo, clustering, clock, crashes, settled>>

\* The lifecycle re-check of every record, with one event per change.
LifecycleEvent(m) ==
    LET status == LifecycleStatus(m, wltm[m])
    IN  IF status = "active" THEN "reactivated" ELSE status

RecheckLifecycle ==
    /\ pc = "consolidate" /\ todo = {} /\ unassigned = {}
    /\ pc' = "archive_ltm"
    /\ wltm' = [m \in MemId |-> LifecycleCheck(m, wltm[m])]
    /\ events' = events \union
         {[kind |-> LifecycleEvent(m), mem |-> m] :
            m \in {n \in MemId : LifecycleStatus(n, wltm[n]) # wltm[n].status}}
    /\ UNCHANGED <<files, cand, wstm, todo, clustering, unassigned, clock, crashes,
                   settled>>

-----------------------------------------------------------------------------
\* The write phase: archive, long-term files, archive, short-term file, log.

Changed == {m \in MemId : wltm[m] # ltm[m]}

\* Mutant: the records that were deprecated before are archived.
ArchiveDeprecatedBefore ==
    /\ pc = "archive_ltm"
    /\ pc' = "write_ltm"
    /\ archived' = [archived EXCEPT !.deprecated =
                      @ \union {m \in Changed : ltm[m].status = "deprecated"}]
    /\ UNCHANGED <<stm, order, ltm, log, cand, work, clock, crashes, settled>>

ArchiveDeprecated ==
    /\ pc = "archive_ltm"
    /\ pc' = "write_ltm"
    /\ archived' = [archived EXCEPT !.deprecated =
                      @ \union {m \in Changed : wltm[m].status = "deprecated"}]
    /\ UNCHANGED <<stm, order, ltm, log, cand, work, clock, crashes, settled>>

UpsertLongTerm(file) ==
    /\ pc = "write_ltm"
    /\ \E m \in Changed : TypeOf(m) = file
    /\ ltm' = [m \in MemId |-> IF TypeOf(m) = file THEN wltm[m] ELSE ltm[m]]
    /\ UNCHANGED <<stm, order, archived, log, cand, pc, work, clock, crashes, settled>>

LongTermWritten ==
    /\ pc = "write_ltm"
    /\ Changed = {}
    /\ pc' = "archive_stm"
    /\ UNCHANGED <<files, cand, work, clock, crashes, settled>>

NewlyExpired == {o \in Obs : wstm[o].status = "expired" /\ stm[o].status # "expired"}

\* Mutant: rows are archived when they are found expired in the file.
ArchiveStaleRows ==
    /\ pc = "archive_stm"
    /\ pc' = "write_stm"
    /\ archived' = [archived EXCEPT !.expired =
                      @ \union Copies(stm, {o \in Obs : stm[o].status = "expired"})]
    /\ UNCHANGED <<stm, order, ltm, log, cand, work, clock, crashes, settled>>

ArchiveExpiredRows ==
    /\ pc = "archive_stm"
    /\ pc' = "write_stm"
    /\ archived' = IF ArchiveExpired
                   THEN [archived EXCEPT !.expired = @ \union Copies(stm, NewlyExpired)]
                   ELSE archived
    /\ UNCHANGED <<stm, order, ltm, log, cand, work, clock, crashes, settled>>

\* Mutant: the short-term file may be written before the long-term files.
WriteShortTermFirst ==
    /\ pc \in {"archive_ltm", "write_stm"}
    /\ pc' = IF pc = "write_stm" THEN "log" ELSE pc
    /\ stm' = wstm
    /\ UNCHANGED <<order, ltm, archived, log, cand, work, clock, crashes, settled>>

\* Expired rows leave the file only when some were archived in this run;
\* otherwise the changed rows are upserted, the expired ones among them.
WriteShortTerm ==
    /\ pc = "write_stm"
    /\ pc' = "log"
    /\ LET gone == IF ArchiveExpired /\ NewlyExpired # {}
                   THEN {o \in Obs : wstm[o].status = "expired"} ELSE {}
       IN  /\ stm' = [o \in Obs |-> IF o \in gone THEN NoRow ELSE wstm[o]]
           /\ order' = Among(Obs \ gone, order)
    /\ UNCHANGED <<ltm, archived, log, cand, work, clock, crashes, settled>>

ForgetCopies ==
    /\ pc' = "idle"
    /\ wstm' = [o \in Obs |-> NoRow]
    /\ wltm' = [m \in MemId |-> NoRecord]
    /\ todo' = {} /\ clustering' = {} /\ unassigned' = {} /\ events' = {}

\* The events are appended one by one, unless their id is in the log; nothing
\* else of the state depends on the log, so that one step appends them all.
AppendEvents ==
    /\ pc = "log"
    /\ log' = log \union events
    /\ ForgetCopies
    /\ settled' = TRUE
    /\ UNCHANGED <<stm, order, ltm, archived, cand, clock, crashes>>

\* A dry run stops here: it reports and writes nothing.
FinishDryRun ==
    /\ pc = "archive_ltm"
    /\ ForgetCopies
    /\ UNCHANGED <<files, cand, clock, crashes, settled>>

-----------------------------------------------------------------------------
\* A crash while the events are appended leaves some of them in the log.
Crash ==
    /\ pc # "idle"
    /\ crashes < MaxCrashes
    /\ crashes' = crashes + 1
    /\ \E appended \in SUBSET events :
         /\ pc # "log" => appended = {}
         /\ log' = log \union appended
    /\ ForgetCopies
    /\ UNCHANGED <<stm, order, ltm, archived, cand, clock, settled>>

Tick ==
    /\ clock < MaxClock
    /\ clock' = clock + 1
    /\ UNCHANGED <<files, cand, pc, work, crashes, settled>>

Consolidate ==
    \/ \E o \in Obs : CompareWithMemory(o) \/ PromoteCluster(o)
    \/ RecheckLifecycle
    \/ ArchiveDeprecated
    \/ \E file \in MemoryType : UpsertLongTerm(file)
    \/ LongTermWritten
    \/ ArchiveExpiredRows
    \/ WriteShortTerm
    \/ AppendEvents

Next ==
    \/ \E o \in Obs : Verify(o) \/ StageCandidate(o) \/ StageCrash(o)
    \/ BeginConsolidation
    \/ Consolidate
    \/ FinishDryRun
    \/ Crash
    \/ Tick

Spec == Init /\ [][Next]_vars

\* A started consolidation goes on (crashes are bounded).  The training loop
\* consolidates again and again (register_case_processed), and never as a dry
\* run, so that the write phase is reached infinitely often or the loop ends.
FairSpec ==
    /\ Spec
    /\ WF_vars(BeginConsolidation)
    /\ WF_vars(Consolidate)
    /\ SF_vars(ArchiveDeprecated)

-----------------------------------------------------------------------------
\* Properties.

\* The long-term files, seen from outside, are a golden memory: short-term
\* rows, working copies, crashes and the log are invisible.
Golden == INSTANCE GoldenMemory WITH memory <- ltm

ImplementsGoldenMemory == Golden!Spec

RecordsType == [MemId -> Record]
RowsType == [Obs -> Row]

Archive == [expired: SUBSET (Obs \X Nat), overflow: SUBSET (Obs \X Nat),
            deprecated: SUBSET MemId]

FilesTyped ==
    /\ stm \in RowsType /\ order \subseteq Obs \X Obs
    /\ ltm \in RecordsType
    /\ archived \in Archive
    /\ log \subseteq Event

WorkTyped ==
    /\ wstm \in RowsType /\ wltm \in RecordsType
    /\ todo \subseteq Obs /\ clustering \subseteq Obs /\ unassigned \subseteq Obs
    /\ events \subseteq Event

RestTyped ==
    /\ cand \in [Obs -> Candidate]
    /\ pc \in {"idle", "consolidate", "archive_ltm", "write_ltm", "archive_stm",
               "write_stm", "log"}
    /\ clock \in Nat /\ crashes \in Nat
    /\ settled \in BOOLEAN

\* Every variable holds a value of the shape the files and the run give it.
TypeOK == FilesTyped /\ WorkTyped /\ RestTyped

\* support_count counts observations no two of which share a case or a source,
\* and so does conflict_count, whatever is staged again, merged again after a
\* crash, or consolidated twice.
SupportIndependent == \A m \in MemId : Counted(m, ltm[m])

\* No record that was not seeded is ever in the long-term files, in service or
\* out of it, with fewer independent sources than its type asks for.
EnoughIndependentSupport ==
    \A m \in MemId \ Seed :
      ltm[m].status # "absent" =>
        Cardinality(ltm[m].backers) >= MinDistinctSources[TypeOf(m)]

\* Only trustworthy training observations ever count for or against a record,
\* and only contradicting ones count against it: no rerun, crash or expiry lets
\* a held or rejected candidate through.
OnlyTrustworthyEvidence ==
    \A m \in MemId : /\ \A o \in ltm[m].backers \union ltm[m].opponents : Trustworthy(o)
                     /\ \A o \in ltm[m].opponents : Relate(o, m) = "contradicts"

\* The status on disk is the one the evidence on disk calls for: no record in
\* service is over the conflict limit or discredited, and none is held back
\* that its ratio would reinstate.
StatusFollowsEvidence ==
    \A m \in MemId : LifecycleStatus(m, ltm[m]) = ltm[m].status

\* A processed row is accounted for in the long-term files, by itself or by an
\* observation of the same case or source: the rows are written after the
\* records, so that no crash leaves a processed row whose support was lost.
Accounted(rows, records) ==
    \A o \in Obs :
       /\ rows[o].status \in {"promoted", "merged"} =>
            \E p \in records[rows[o].promotedTo].backers : ~Independent(o, p)
       /\ rows[o].status = "under_review" /\ rows[o].promotedTo # NoMem =>
            \E p \in records[rows[o].promotedTo].opponents : ~Independent(o, p)

ProcessedAccounted == Accounted(stm, ltm)

\* A deprecated record was archived before it was written as deprecated.
DeprecatedArchived ==
    \A m \in MemId : ltm[m].status = "deprecated" => m \in archived.deprecated

\* While nothing crashes, expires or overflows, one observation supports one
\* record only: a row that was merged or promoted is never considered again.
BacksOneRecord ==
    \A m, n \in MemId : m # n => ltm[m].backers \cap ltm[n].backers = {}

\* While nothing crashes, expires or overflows, an observation that counted
\* against a record never supports another one.
OppositionNeverBacks ==
    \A m, n \in MemId : ltm[m].opponents \cap ltm[n].backers = {}

\* While nothing crashes, every row a finished run has processed and every
\* deprecation is in the event log.
Logged(rows, records, entries) ==
    /\ \A o \in Obs :
         /\ rows[o].status = "merged" => [kind |-> "merged", obs |-> o] \in entries
         /\ rows[o].status = "promoted" =>
              [kind |-> "promoted", mem |-> rows[o].promotedTo] \in entries
         /\ rows[o].status = "under_review" /\ rows[o].promotedTo # NoMem =>
              [kind |-> "conflict", obs |-> o] \in entries
    /\ \A m \in MemId :
         records[m].status = "deprecated" => [kind |-> "deprecated", mem |-> m] \in entries

ProcessedLogged == pc = "idle" => Logged(stm, ltm, log)

\* A deprecated record never changes again: it is neither supported, opposed,
\* reinstated nor promoted anew.
DeprecatedIsFinal ==
    [][\A m \in MemId : ltm[m].status = "deprecated" => ltm'[m] = ltm[m]]_vars

\* A record that is on disk stays there and loses none of its evidence, even
\* when a write is repeated after a crash.
EvidenceOnlyGrows ==
    [][\A m \in MemId : /\ ltm[m].backers \subseteq ltm'[m].backers
                        /\ ltm[m].opponents \subseteq ltm'[m].opponents
                        /\ ltm[m].status # "absent" => ltm'[m].status # "absent"]_vars

\* README.md: nothing is silently deleted.  A row leaves the short-term file
\* only when that version of it is in the archive.
NeverSilentlyDeleted ==
    [][\A o \in Rows(stm) \ Rows(stm') :
         <<o, stm[o].stagedAt>> \in archived'.expired \union archived'.overflow]_vars

\* README.md: applying consolidation twice without new observations produces no
\* additional support increments or duplicate records.
SettledAddsNothing ==
    [][settled => \A m \in MemId : ltm'[m].support = ltm[m].support]_vars

\* A staged verified row that bears on a record in service is processed,
\* expires or is dropped, unless every such record is deprecated first.
BearsOn(o, m) == Live(ltm[m]) /\ TypeOf(m) = FileOf[StatementOf(o)]
                              /\ Relate(o, m) # "unrelated"

Waiting(o) == stm[o].status = "staged" /\ \E m \in MemId : BearsOn(o, m)

StagedRowsAreProcessed == \A o \in Obs : Waiting(o) ~> ~Waiting(o)

-----------------------------------------------------------------------------
\* The inductive invariant from which the properties above are proved.

\* A row or candidate that may count as evidence is trustworthy, and one that
\* names a record contradicts it.
RowTrusted(o, row) ==
    /\ row.status = "staged" => Trustworthy(o)
    /\ row.target # NoMem => Relate(o, row.target) = "contradicts"

CandidateTrusted(o, c) ==
    /\ c.verdict = "verified" => Trustworthy(o)
    /\ c.target # NoMem => Relate(o, c.target) = "contradicts"

\* Any two rows of the file are ordered.
TotalOn(S, before) == \A o, p \in S : o # p => <<o, p>> \in before \/ <<p, o>> \in before

MemorySound ==
    \A m \in MemId : /\ Sound(m, ltm[m])
                     /\ m \in Seed => ltm[m].status # "absent"
                     /\ ltm[m].status = "absent" => ltm[m] = NoRecord

EvidenceTrusted ==
    /\ \A o \in Obs : RowTrusted(o, stm[o]) /\ CandidateTrusted(o, cand[o])
    /\ TotalOn(Rows(stm), order)

\* The copies of a run descend from the files.
CopiesSound ==
    /\ IF pc = "idle" THEN unassigned = {} ELSE \A o \in Obs : RowTrusted(o, wstm[o])
    /\ pc \notin {"idle", "log"} => Rows(wstm) \subseteq Rows(stm)
    /\ pc = "consolidate" =>
         \A o \in todo \union unassigned : o \in Rows(stm) /\ Trustworthy(o)

\* While rows are compared and clustered, a record is the one of the file or
\* has gained sound evidence; new records appear only when all are compared.
Gathers(m, old, new) ==
    /\ SoundEvidence(m, new)
    /\ IF old.status = "absent" THEN Admitted(m, new)
       ELSE Reassessed(m, old, new)

RecordsGather ==
    pc = "consolidate" =>
      \A m \in MemId :
         /\ wltm[m] = ltm[m] \/ Gathers(m, ltm[m], wltm[m])
         /\ todo # {} /\ ltm[m].status = "absent" => wltm[m] = ltm[m]

\* Once the lifecycle is checked, it evolves as the golden memory does.
RecordsEvolve ==
    pc \notin {"idle", "consolidate"} =>
      \A m \in MemId : wltm[m] = ltm[m] \/ Evolves(m, ltm[m], wltm[m])

GoldenInvariant ==
    /\ TypeOK
    /\ MemorySound /\ EvidenceTrusted
    /\ CopiesSound /\ RecordsGather /\ RecordsEvolve

\* Nothing processed is forgotten: the copies account for the rows they mark as
\* processed, and the long-term files are complete before the rows are written.
Named(rows) ==
    \A o \in Obs : rows[o].status \in {"promoted", "merged"} => rows[o].promotedTo # NoMem

DurableInvariant ==
    /\ ProcessedAccounted /\ Named(stm)
    /\ pc # "idle" => Accounted(wstm, wltm) /\ Named(wstm)
    /\ pc \in {"archive_stm", "write_stm", "log"} => Changed = {}

\* Every record deprecated by a run is in the archive before it is written.
ArchivedInvariant ==
    /\ DeprecatedArchived
    /\ pc \in {"write_ltm", "archive_stm", "write_stm", "log"} =>
         \A m \in MemId : wltm[m].status = "deprecated" => m \in archived.deprecated

\* While nothing crashes, expires or overflows.
Undisturbed == MaxCrashes = 0 /\ MaxClock <= TtlDays /\ Cardinality(Obs) <= MaxRecords

\* An observation that counts for a record, or against one, has a row that says
\* so, and that no rerun replaces.
Spent(rows, records) ==
    \A m \in MemId :
       /\ \A o \in records[m].backers : rows[o].status \in {"merged", "promoted"}
       /\ \A o \in records[m].opponents :
            rows[o].status = "under_review" /\ rows[o].promotedTo # NoMem
       /\ records[m].status = "absent" => records[m].backers \union records[m].opponents = {}

BackedOnce(records) ==
    \A m, n \in MemId : m # n => records[m].backers \cap records[n].backers = {}

SpentInvariant ==
    /\ clock <= MaxClock /\ \A o \in Obs : "expired" \notin {stm[o].status, wstm[o].status}
    /\ pc \in {"idle", "consolidate", "archive_ltm", "log"} => Spent(stm, ltm) /\ BackedOnce(ltm)
    /\ pc # "idle" => /\ Spent(wstm, wltm) /\ BackedOnce(wltm)
                      /\ \A m \in MemId : /\ ltm[m].backers \subseteq wltm[m].backers
                                          /\ ltm[m].opponents \subseteq wltm[m].opponents
    /\ unassigned # {} => pc = "consolidate"
    /\ pc = "consolidate" => /\ todo \cap unassigned = {}
                             /\ \A o \in todo \union unassigned : wstm[o].status = "staged"
    /\ pc \in {"archive_stm", "write_stm", "log"} => Changed = {}

\* What is processed is logged, or among the events of the run that processed it.
LoggedInvariant ==
    /\ pc \in {"idle", "consolidate", "archive_ltm"} => Logged(stm, ltm, log)
    /\ pc # "idle" => Logged(wstm, wltm, log \union events)
    /\ pc = "log" => Logged(stm, ltm, log \union events)
    /\ pc \in {"archive_stm", "write_stm"} => Changed = {}

\* The file is within its limit, a run neither adds rows nor loses any, and the
\* rows that it will drop are in the archive.
RowsInvariant ==
    /\ Cardinality(Rows(stm)) <= MaxRecords
    /\ pc \notin {"idle", "log"} => Rows(wstm) = Rows(stm)
    /\ unassigned # {} => pc = "consolidate"
    /\ pc = "consolidate" => todo \union unassigned \subseteq Rows(stm)
    /\ ArchiveExpired => \A o \in Obs : stm[o].status # "expired"
    /\ ArchiveExpired /\ pc = "write_stm" => Copies(stm, NewlyExpired) \subseteq archived.expired

=============================================================================
