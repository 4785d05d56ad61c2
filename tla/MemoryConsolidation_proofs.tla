--------------------- MODULE MemoryConsolidation_proofs ---------------------
(***************************************************************************)
(* Proofs about the memory lifecycle, for any observations, similarity     *)
(* relation, thresholds and bounds that satisfy the assumptions.           *)
(***************************************************************************)
EXTENDS MemoryConsolidation, TLAPS, FiniteSetTheorems

-----------------------------------------------------------------------------
\* Types of the values that the pure functions return.

\* A set of observations is finite, and its size is a natural number.
LEMMA ObservationSets ==
    ASSUME NEW S \in SUBSET Obs
    PROVE  IsFiniteSet(S) /\ Cardinality(S) \in Nat
  BY MemoryAssumption, FS_Subset, FS_CardinalityType DEF MemoryAssumption

\* The lifecycle rule gives one of the statuses of a record.
LEMMA LifecycleStatusType ==
    ASSUME NEW m \in MemId, NEW r \in Record
    PROVE  LifecycleStatus(m, r) \in RecordStatus
  BY DEF LifecycleStatus, Record, RecordStatus

\* A record stays a record through the lifecycle re-check.
LEMMA LifecycleCheckType ==
    ASSUME NEW m \in MemId, NEW r \in Record
    PROVE  LifecycleCheck(m, r) \in Record
  BY LifecycleStatusType DEF LifecycleCheck, Record

\* A record stays a record when one of its fields is replaced.
LEMMA RecordFields ==
    ASSUME NEW r \in Record
    PROVE  /\ \A S \in SUBSET Obs : [r EXCEPT !.backers = S] \in Record
           /\ \A S \in SUBSET Obs : [r EXCEPT !.opponents = S] \in Record
           /\ \A n \in Nat : [r EXCEPT !.support = n] \in Record
           /\ \A n \in Nat : [r EXCEPT !.conflict = n] \in Record
           /\ \A s \in RecordStatus : [r EXCEPT !.status = s] \in Record
  BY DEF Record

\* A record stays a record when it is supported or opposed.
LEMMA EvidenceType ==
    ASSUME NEW o \in Obs, NEW r \in Record
    PROVE  MergeSupport(r, o) \in Record /\ ApplyConflict(r, o) \in Record
<1>1. /\ r.backers \union {o} \in SUBSET Obs /\ r.opponents \union {o} \in SUBSET Obs
      /\ r.support + 1 \in Nat /\ r.conflict + 1 \in Nat
      /\ "under_review" \in RecordStatus
  BY DEF Record, RecordStatus
<1>2. [r EXCEPT !.backers = @ \union {o}] \in Record
  BY <1>1, RecordFields
<1>3. [r EXCEPT !.backers = @ \union {o}, !.support = @ + 1] \in Record
  BY <1>1, <1>2, RecordFields
<1>4. [r EXCEPT !.opponents = @ \union {o}] \in Record
  BY <1>1, RecordFields
<1>5. [r EXCEPT !.opponents = @ \union {o}, !.conflict = @ + 1] \in Record
  BY <1>1, <1>4, RecordFields
<1>6. MergeSupport(r, o) \in Record
  BY <1>3 DEF MergeSupport
<1>7. ApplyConflict(r, o) \in Record
  BY <1>1, <1>5, RecordFields DEF ApplyConflict
<1>. QED  BY <1>6, <1>7

\* The records there may be to begin with, and those that promotion makes.
LEMMA NewRecordType ==
    /\ NoRecord \in Record
    /\ \A m \in MemId : InitialRecord(m) \in Record
    /\ \A picked \in SUBSET Obs : Promoted(picked) \in Record
  BY MemoryAssumption, ObservationSets
     DEF MemoryAssumption, NoRecord, InitialRecord, SeedRecord, Promoted, Record,
         RecordStatus

\* A verdict is a candidate that waits to be staged, or none.
LEMMA VerdictType ==
    ASSUME NEW o \in Obs, NEW v \in Verdicts(o)
    PROVE  v \in Candidate
  BY DEF Verdicts, Verdict, NoCandidate, Candidate, Contradicted, Active

-----------------------------------------------------------------------------
\* Type correctness.

LEMMA FilesKept == FilesTyped /\ UNCHANGED files => FilesTyped'
  BY DEF FilesTyped, files

LEMMA WorkKept == WorkTyped /\ UNCHANGED work => WorkTyped'
  BY DEF WorkTyped, work

\* The rows that staging writes, the order of the file and the archive keep
\* their types, whichever row overflows.
LEMMA StagingTypes ==
    ASSUME TypeOK, NEW o \in Obs, cand[o].verdict # "none"
    PROVE  /\ StagedRow(o) \in Row
           /\ WithStaged(o) \in RowsType
           /\ OrderWith(o) \subseteq Obs \X Obs
           /\ \A dropped \in Overflow(WithStaged(o)) : dropped \in SUBSET Obs
<1>1. StagedRow(o) \in Row
  BY DEF TypeOK, RestTyped, Candidate, StagedRow, Row, RowStatus
<1>2. WithStaged(o) \in RowsType
  BY <1>1 DEF TypeOK, FilesTyped, WithStaged, RowsType
<1>3. OrderWith(o) \subseteq Obs \X Obs
  BY DEF TypeOK, FilesTyped, OrderWith, Rows
<1>4. \A dropped \in Overflow(WithStaged(o)) : dropped \in SUBSET Obs
  BY DEF Overflow, Rows
<1>. QED  BY <1>1, <1>2, <1>3, <1>4

\* Copies are pairs of an observation and the day it was staged.
LEMMA CopiesType ==
    ASSUME NEW rows \in RowsType, NEW S \in SUBSET Obs
    PROVE  Copies(rows, S) \subseteq Obs \X Nat
  BY DEF Copies, RowsType, Row

\* The archive keeps its type when one of its parts grows.
LEMMA ArchiveGrows ==
    ASSUME archived \in Archive, NEW C \in SUBSET (Obs \X Nat), NEW D \in SUBSET MemId
    PROVE  /\ [archived EXCEPT !.expired = @ \union C] \in Archive
           /\ [archived EXCEPT !.overflow = @ \union C] \in Archive
           /\ [archived EXCEPT !.deprecated = @ \union D] \in Archive
  BY DEF Archive

LEMMA NoRowType == NoRow \in Row
  BY DEF NoRow, Row, RowStatus

\* The working copies are well typed when they are forgotten.
LEMMA ForgetTypes == ForgetCopies => WorkTyped'
  BY NewRecordType, NoRowType DEF ForgetCopies, WorkTyped, RowsType, RecordsType

\* The initial state is well typed.
LEMMA InitTypeOK == Init => TypeOK
<1>. SUFFICES ASSUME Init PROVE TypeOK
  OBVIOUS
<1>1. FilesTyped
  BY NewRecordType, NoRowType DEF Init, FilesTyped, RowsType, RecordsType, Archive
<1>2. WorkTyped
  BY NewRecordType, NoRowType DEF Init, WorkTyped, RowsType, RecordsType
<1>3. RestTyped
  BY DEF Init, RestTyped, Candidate, NoCandidate
<1>. QED  BY <1>1, <1>2, <1>3 DEF TypeOK

LEMMA VerifyTypeOK ==
    ASSUME TypeOK, NEW o \in Obs, Verify(o) PROVE TypeOK'
<1>1. FilesTyped' /\ WorkTyped'
  BY FilesKept, WorkKept DEF TypeOK, Verify
<1>2. RestTyped'
  BY VerdictType DEF TypeOK, RestTyped, Verify
<1>. QED  BY <1>1, <1>2 DEF TypeOK

LEMMA WriteRowsType ==
    ASSUME TypeOK, NEW o \in Obs, cand[o].verdict # "none",
           NEW dropped \in Overflow(WithStaged(o)),
           WriteRows(WithStaged(o), OrderWith(o), dropped)
    PROVE  stm' \in RowsType /\ order' \subseteq Obs \X Obs
<1>1. stm' \in RowsType
  BY StagingTypes, NoRowType DEF WriteRows, RowsType
<1>2. order' \subseteq Obs \X Obs
  BY StagingTypes DEF WriteRows, Among
<1>. QED  BY <1>1, <1>2

LEMMA ArchiveOverflowType ==
    ASSUME TypeOK, NEW o \in Obs, cand[o].verdict # "none",
           NEW dropped \in Overflow(WithStaged(o)),
           ArchiveOverflow(WithStaged(o), dropped)
    PROVE  archived' \in Archive
<1>1. Copies(WithStaged(o), dropped) \in SUBSET (Obs \X Nat)
  BY StagingTypes, CopiesType
<1>. QED  BY <1>1, ArchiveGrows DEF TypeOK, FilesTyped, ArchiveOverflow

LEMMA StageTypeOK ==
    ASSUME TypeOK, NEW o \in Obs, StageCandidate(o) PROVE TypeOK'
<1>1. stm' \in RowsType /\ order' \subseteq Obs \X Obs /\ archived' \in Archive
  BY WriteRowsType, ArchiveOverflowType DEF TypeOK, FilesTyped, StageCandidate
<1>2. FilesTyped'
  BY <1>1 DEF TypeOK, FilesTyped, StageCandidate
<1>3. WorkTyped'
  BY WorkKept DEF TypeOK, StageCandidate
<1>4. RestTyped'
  BY DEF TypeOK, RestTyped, StageCandidate, Candidate, NoCandidate
<1>. QED  BY <1>2, <1>3, <1>4 DEF TypeOK

LEMMA StageCrashTypeOK ==
    ASSUME TypeOK, NEW o \in Obs, StageCrash(o) PROVE TypeOK'
<1>1. archived' \in Archive
  BY ArchiveOverflowType DEF StageCrash
<1>2. FilesTyped'
  BY <1>1 DEF TypeOK, FilesTyped, StageCrash
<1>3. WorkTyped'
  BY WorkKept DEF TypeOK, StageCrash
<1>4. RestTyped'
  BY DEF TypeOK, RestTyped, StageCrash, Candidate, NoCandidate
<1>. QED  BY <1>2, <1>3, <1>4 DEF TypeOK

LEMMA BeginTypeOK ==
    ASSUME TypeOK, BeginConsolidation PROVE TypeOK'
<1>1. FilesTyped'
  BY FilesKept DEF TypeOK, BeginConsolidation
<1>2. wstm' \in RowsType
  BY DEF TypeOK, FilesTyped, BeginConsolidation, RowsType, Row, RowStatus
<1>3. events' \subseteq Event
  BY DEF BeginConsolidation, Expired, Event
<1>4. WorkTyped'
  BY <1>2, <1>3 DEF TypeOK, FilesTyped, WorkTyped, BeginConsolidation, Actionable
<1>5. RestTyped'
  BY DEF TypeOK, RestTyped, BeginConsolidation
<1>. QED  BY <1>1, <1>4, <1>5 DEF TypeOK

\* Marking a row, and replacing a record, keeps the working copies typed.
LEMMA MarkRowType ==
    ASSUME WorkTyped, NEW o \in Obs, NEW status \in RowStatus,
           NEW m \in MemId \union {NoMem}, MarkRow(o, status, m)
    PROVE  wstm' \in RowsType
  BY DEF WorkTyped, MarkRow, RowsType, Row

LEMMA CompareTypeOK ==
    ASSUME TypeOK, NEW o \in Obs, CompareWithMemory(o) PROVE TypeOK'
<1>1. ASSUME NEW m \in MemId, MergeIntoMemory(o, m) PROVE WorkTyped'
  <2>1. wstm' \in RowsType
    BY <1>1, MarkRowType DEF TypeOK, MergeIntoMemory, RowStatus
  <2>2. wltm' \in RecordsType
    BY <1>1, EvidenceType DEF TypeOK, WorkTyped, MergeIntoMemory, RecordsType
  <2>3. events' \subseteq Event
    BY <1>1 DEF TypeOK, WorkTyped, MergeIntoMemory, Event
  <2>. QED  BY <1>1, <2>1, <2>2, <2>3 DEF TypeOK, WorkTyped, CompareWithMemory,
                                          MergeIntoMemory
<1>2. ASSUME NEW m \in MemId, ConflictWithMemory(o, m) PROVE WorkTyped'
  <2>1. wstm' \in RowsType
    BY <1>2, MarkRowType DEF TypeOK, ConflictWithMemory, RowStatus
  <2>2. wltm' \in RecordsType
    BY <1>2, EvidenceType DEF TypeOK, WorkTyped, ConflictWithMemory, RecordsType
  <2>3. events' \subseteq Event
    BY <1>2 DEF TypeOK, WorkTyped, ConflictWithMemory, Event
  <2>. QED  BY <1>2, <2>1, <2>2, <2>3 DEF TypeOK, WorkTyped, CompareWithMemory,
                                          ConflictWithMemory
<1>3. ASSUME LeaveForClustering(o) PROVE WorkTyped'
  BY <1>3 DEF TypeOK, WorkTyped, CompareWithMemory, LeaveForClustering
<1>4. FilesTyped' /\ RestTyped'
  BY FilesKept DEF TypeOK, RestTyped, CompareWithMemory
<1>. QED  BY <1>1, <1>2, <1>3, <1>4 DEF TypeOK, CompareWithMemory

\* What a promotion writes is well typed.
LEMMA TryPromoteType ==
    ASSUME WorkTyped, NEW cluster \in SUBSET Obs, TryPromote(cluster)
    PROVE  wltm' \in RecordsType /\ wstm' \in RowsType /\ events' \subseteq Event
<1>1. ASSUME NEW m \in MemId
      PROVE  /\ \A picked \in SUBSET cluster : [wltm EXCEPT ![m] = Promoted(picked)] \in RecordsType
             /\ [o \in Obs |-> IF o \in cluster
                               THEN [wstm[o] EXCEPT !.status = "promoted", !.promotedTo = m]
                               ELSE wstm[o]] \in RowsType
             /\ events \union {[kind |-> "promoted", mem |-> m]} \subseteq Event
  <2>1. \A picked \in SUBSET cluster : [wltm EXCEPT ![m] = Promoted(picked)] \in RecordsType
    BY <1>1, NewRecordType DEF WorkTyped, RecordsType
  <2>2. \A row \in Row : [row EXCEPT !.status = "promoted", !.promotedTo = m] \in Row
    BY <1>1 DEF Row, RowStatus
  <2>3. [o \in Obs |-> IF o \in cluster
                       THEN [wstm[o] EXCEPT !.status = "promoted", !.promotedTo = m]
                       ELSE wstm[o]] \in RowsType
    BY <2>2 DEF WorkTyped, RowsType
  <2>4. [kind |-> "promoted", mem |-> m] \in Event
    BY <1>1 DEF Event
  <2>. QED  BY <2>1, <2>3, <2>4 DEF WorkTyped
<1>2. \A rep \in cluster : IdOf[StatementOf(rep)] \in MemId
  BY MemoryAssumption DEF MemoryAssumption, StatementOf, ObservationType
<1>3. PICK picked \in SUBSET cluster, rep \in cluster, m \in MemId :
         \/ /\ wltm' = [wltm EXCEPT ![m] = Promoted(picked)]
            /\ wstm' = [o \in Obs |->
                          IF o \in cluster
                          THEN [wstm[o] EXCEPT !.status = "promoted", !.promotedTo = m]
                          ELSE wstm[o]]
            /\ events' = events \union {[kind |-> "promoted", mem |-> m]}
         \/ UNCHANGED <<wltm, wstm, events>>
  BY <1>2 DEF TryPromote
<1>4. CASE UNCHANGED <<wltm, wstm, events>>
  BY <1>4 DEF WorkTyped
<1>5. CASE ~UNCHANGED <<wltm, wstm, events>>
  BY <1>1, <1>3, <1>5
<1>. QED  BY <1>4, <1>5

LEMMA PromoteTypeOK ==
    ASSUME TypeOK, NEW seed \in Obs, PromoteCluster(seed) PROVE TypeOK'
<1>1. ClusterOf(seed) \in SUBSET Obs
  BY DEF TypeOK, WorkTyped, ClusterOf
<1>2. WorkTyped'
  BY <1>1, TryPromoteType DEF TypeOK, WorkTyped, PromoteCluster
<1>3. FilesTyped' /\ RestTyped'
  BY FilesKept DEF TypeOK, RestTyped, PromoteCluster
<1>. QED  BY <1>2, <1>3 DEF TypeOK

LEMMA RecheckTypeOK ==
    ASSUME TypeOK, RecheckLifecycle PROVE TypeOK'
<1>1. \A m \in MemId : wltm[m] \in Record
  BY DEF TypeOK, WorkTyped, RecordsType
<1>2. wltm' \in RecordsType
  BY <1>1, LifecycleCheckType DEF RecheckLifecycle, RecordsType
<1>3. \A m \in MemId : LifecycleStatus(m, wltm[m]) # wltm[m].status =>
                        LifecycleEvent(m) \in {"deprecated", "under_review", "reactivated"}
  BY <1>1 DEF LifecycleEvent, LifecycleStatus, Record, RecordStatus
<1>4. events' \subseteq Event
  BY <1>3 DEF TypeOK, WorkTyped, RecheckLifecycle, Event
<1>5. WorkTyped'
  BY <1>2, <1>4 DEF TypeOK, WorkTyped, RecheckLifecycle
<1>6. FilesTyped' /\ RestTyped'
  BY FilesKept DEF TypeOK, RestTyped, RecheckLifecycle
<1>. QED  BY <1>5, <1>6 DEF TypeOK

LEMMA ArchiveDeprecatedTypeOK ==
    ASSUME TypeOK, ArchiveDeprecated PROVE TypeOK'
<1>1. {m \in Changed : wltm[m].status = "deprecated"} \in SUBSET MemId
  BY DEF Changed
<1>2. archived' \in Archive
  BY <1>1, ArchiveGrows DEF TypeOK, FilesTyped, ArchiveDeprecated
<1>3. FilesTyped'
  BY <1>2 DEF TypeOK, FilesTyped, ArchiveDeprecated
<1>4. WorkTyped' /\ RestTyped'
  BY WorkKept DEF TypeOK, RestTyped, ArchiveDeprecated
<1>. QED  BY <1>3, <1>4 DEF TypeOK

LEMMA UpsertTypeOK ==
    ASSUME TypeOK, NEW file \in MemoryType, UpsertLongTerm(file) PROVE TypeOK'
<1>1. FilesTyped'
  BY DEF TypeOK, FilesTyped, WorkTyped, UpsertLongTerm, RecordsType
<1>2. WorkTyped' /\ RestTyped'
  BY WorkKept DEF TypeOK, RestTyped, UpsertLongTerm
<1>. QED  BY <1>1, <1>2 DEF TypeOK

LEMMA ArchiveRowsTypeOK ==
    ASSUME TypeOK, ArchiveExpiredRows PROVE TypeOK'
<1>1. Copies(stm, NewlyExpired) \in SUBSET (Obs \X Nat)
  BY CopiesType DEF TypeOK, FilesTyped, NewlyExpired
<1>2. archived' \in Archive
  BY <1>1, ArchiveGrows DEF TypeOK, FilesTyped, ArchiveExpiredRows
<1>3. FilesTyped'
  BY <1>2 DEF TypeOK, FilesTyped, ArchiveExpiredRows
<1>4. WorkTyped' /\ RestTyped'
  BY WorkKept DEF TypeOK, RestTyped, ArchiveExpiredRows
<1>. QED  BY <1>3, <1>4 DEF TypeOK

LEMMA WriteShortTermTypeOK ==
    ASSUME TypeOK, WriteShortTerm PROVE TypeOK'
<1>1. stm' \in RowsType
  BY NoRowType DEF TypeOK, WorkTyped, WriteShortTerm, RowsType
<1>2. order' \subseteq Obs \X Obs
  BY DEF TypeOK, FilesTyped, WriteShortTerm, Among
<1>3. FilesTyped'
  BY <1>1, <1>2 DEF TypeOK, FilesTyped, WriteShortTerm
<1>4. WorkTyped' /\ RestTyped'
  BY WorkKept DEF TypeOK, RestTyped, WriteShortTerm
<1>. QED  BY <1>3, <1>4 DEF TypeOK

LEMMA EndTypeOK ==
    ASSUME TypeOK, AppendEvents \/ FinishDryRun \/ Crash PROVE TypeOK'
<1>1. WorkTyped'
  BY ForgetTypes DEF AppendEvents, FinishDryRun, Crash
<1>2. FilesTyped'
  BY DEF TypeOK, FilesTyped, WorkTyped, AppendEvents, FinishDryRun, Crash, files
<1>3. ASSUME AppendEvents PROVE RestTyped'
  BY <1>3 DEF TypeOK, RestTyped, AppendEvents, ForgetCopies
<1>4. ASSUME FinishDryRun PROVE RestTyped'
  BY <1>4 DEF TypeOK, RestTyped, FinishDryRun, ForgetCopies
<1>5. ASSUME Crash PROVE RestTyped'
  BY <1>5 DEF TypeOK, RestTyped, Crash, ForgetCopies
<1>. QED  BY <1>1, <1>2, <1>3, <1>4, <1>5 DEF TypeOK

LEMMA OtherTypeOK ==
    ASSUME TypeOK, LongTermWritten \/ Tick \/ UNCHANGED vars PROVE TypeOK'
<1>1. FilesTyped' /\ WorkTyped'
  BY FilesKept, WorkKept DEF TypeOK, LongTermWritten, Tick, vars
<1>2. RestTyped'
  BY DEF TypeOK, RestTyped, LongTermWritten, Tick, vars
<1>. QED  BY <1>1, <1>2 DEF TypeOK

\* Every step keeps the types.
LEMMA NextTypeOK == TypeOK /\ [Next]_vars => TypeOK'
  BY VerifyTypeOK, StageTypeOK, StageCrashTypeOK, BeginTypeOK, CompareTypeOK,
     PromoteTypeOK, RecheckTypeOK, ArchiveDeprecatedTypeOK, UpsertTypeOK,
     ArchiveRowsTypeOK, WriteShortTermTypeOK, EndTypeOK, OtherTypeOK
     DEF Next, Consolidate

\* In every state the files, the working copies and the rest have their types:
\* no step of staging, consolidation or recovery writes anything else.
THEOREM TypeCorrect == Spec => []TypeOK
  BY InitTypeOK, NextTypeOK, PTL DEF Spec

-----------------------------------------------------------------------------
\* What leaves the short-term file.

\* One staged row that is in the file already, or fits, or drives out another,
\* leaves the file within its limit.
LEMMA OverflowFits ==
    ASSUME TypeOK, Cardinality(Rows(stm)) <= MaxRecords, NEW o \in Obs,
           NEW dropped \in Overflow(WithStaged(o))
    PROVE  Cardinality(Rows(WithStaged(o)) \ dropped) <= MaxRecords
<1>1. Rows(WithStaged(o)) = Rows(stm) \union {o}
  BY DEF Rows, WithStaged, StagedRow, TypeOK, FilesTyped, RowsType
<1>2. /\ IsFiniteSet(Rows(stm)) /\ Cardinality(Rows(stm)) \in Nat
      /\ IsFiniteSet(Rows(WithStaged(o))) /\ Cardinality(Rows(WithStaged(o))) \in Nat
  BY ObservationSets DEF Rows
<1>3. Cardinality(Rows(WithStaged(o))) <= Cardinality(Rows(stm)) + 1
  BY <1>1, <1>2, FS_AddElement
<1>4. CASE Cardinality(Rows(WithStaged(o))) <= MaxRecords
  <2>1. Rows(WithStaged(o)) \ dropped = Rows(WithStaged(o))
    BY <1>4 DEF Overflow
  <2>. QED  BY <1>4, <2>1
<1>5. CASE ~(Cardinality(Rows(WithStaged(o))) <= MaxRecords)
  <2>1. PICK p \in Rows(WithStaged(o)) : dropped = {p}
    BY <1>5 DEF Overflow, Rows
  <2>2. Cardinality(Rows(WithStaged(o)) \ {p}) = Cardinality(Rows(WithStaged(o))) - 1
    BY <1>2, <2>1, FS_RemoveElement
  <2>. QED  BY <1>2, <1>3, <2>1, <2>2, StoreAssumption DEF StoreAssumption
<1>. QED  BY <1>4, <1>5

\* What staging does to the rows of the file.
LEMMA StagedRows ==
    ASSUME TypeOK, NEW o \in Obs, StageCandidate(o), ~Terminal(stm[o])
    PROVE  \E dropped \in Overflow(WithStaged(o)) :
              /\ Rows(stm') = Rows(WithStaged(o)) \ dropped
              /\ \A p \in Obs : stm'[p] \in {NoRow, stm[p], StagedRow(o)}
              /\ Copies(WithStaged(o), dropped) \subseteq archived'.overflow
<1>1. PICK dropped \in Overflow(WithStaged(o)) :
        /\ ArchiveOverflow(WithStaged(o), dropped)
        /\ WriteRows(WithStaged(o), OrderWith(o), dropped)
  BY DEF StageCandidate
<1>2. \A p \in Obs : stm'[p] = IF p \in dropped THEN NoRow
                               ELSE IF p = o THEN StagedRow(o) ELSE stm[p]
  BY <1>1 DEF WriteRows, WithStaged, TypeOK, FilesTyped, RowsType
<1>3. \A p \in Obs : WithStaged(o)[p] = IF p = o THEN StagedRow(o) ELSE stm[p]
  BY DEF WithStaged, TypeOK, FilesTyped, RowsType
<1>4. Rows(stm') = Rows(WithStaged(o)) \ dropped
  BY <1>2, <1>3 DEF Rows, NoRow
<1>5. Copies(WithStaged(o), dropped) \subseteq archived'.overflow
  BY <1>1 DEF ArchiveOverflow, TypeOK, FilesTyped, Archive
<1>. QED  BY <1>2, <1>4, <1>5

\* The file is empty at first.
LEMMA InitRows == Init => RowsInvariant
<1>. SUFFICES ASSUME Init PROVE RowsInvariant
  OBVIOUS
<1>1. Rows(stm) = {}
  BY DEF Init, Rows, NoRow
<1>2. Cardinality(Rows(stm)) <= MaxRecords
  BY <1>1, FS_EmptySet, StoreAssumption DEF StoreAssumption
<1>. QED  BY <1>2 DEF Init, RowsInvariant, NoRow

\* Staging keeps the file within its limit.
LEMMA StageRows ==
    ASSUME TypeOK, RowsInvariant, NEW o \in Obs, StageCandidate(o)
    PROVE  RowsInvariant'
<1>1. pc = "idle" /\ pc' = "idle" /\ unassigned' = {}
  BY DEF StageCandidate, RowsInvariant, work
<1>2. CASE Terminal(stm[o])
  BY <1>1, <1>2 DEF StageCandidate, RowsInvariant, Rows
<1>3. CASE ~Terminal(stm[o])
  <2>1. PICK dropped \in Overflow(WithStaged(o)) :
            /\ Rows(stm') = Rows(WithStaged(o)) \ dropped
            /\ \A p \in Obs : stm'[p] \in {NoRow, stm[p], StagedRow(o)}
    BY <1>3, StagedRows
  <2>2. Cardinality(Rows(stm')) <= MaxRecords
    BY <2>1, OverflowFits DEF RowsInvariant
  <2>3. ArchiveExpired => \A p \in Obs : stm'[p].status # "expired"
    BY <2>1 DEF RowsInvariant, NoRow, StagedRow
  <2>4. Cardinality(Rows(stm)') <= MaxRecords
    BY <2>2 DEF Rows
  <2>. QED  BY <1>1, <2>3, <2>4 DEF RowsInvariant
<1>. QED  BY <1>2, <1>3

\* The copies of a run begin as the rows of the file.
LEMMA BeginRows ==
    ASSUME TypeOK, RowsInvariant, BeginConsolidation PROVE RowsInvariant'
<1>1. Rows(wstm') = Rows(stm)
  BY DEF BeginConsolidation, Rows, Expired, TypeOK, FilesTyped, RowsType, Row
<1>2. todo' \union unassigned' \subseteq Rows(stm)
  BY DEF BeginConsolidation, RowsInvariant, Actionable, Rows
<1>3. stm' = stm /\ pc' = "consolidate"
  BY DEF BeginConsolidation, files
<1>. QED  BY <1>1, <1>2, <1>3 DEF RowsInvariant, Rows

\* Marking rows of the file as processed neither adds a row nor loses one.
LEMMA MarkedRows ==
    ASSUME TypeOK, NEW o \in Rows(stm), Rows(wstm) = Rows(stm),
           NEW status \in RowStatus \ {"absent"}, NEW m, MarkRow(o, status, m)
    PROVE  Rows(wstm') = Rows(stm)
  BY DEF TypeOK, WorkTyped, RowsType, Row, MarkRow, Rows

\* A comparison takes no row out of the copies.
LEMMA CompareRows ==
    ASSUME TypeOK, RowsInvariant, NEW o \in Obs, CompareWithMemory(o)
    PROVE  RowsInvariant'
<1>1. /\ pc = "consolidate" /\ pc' = "consolidate" /\ stm' = stm
      /\ o \in todo /\ o \in Rows(stm) /\ todo' = todo \ {o}
      /\ Rows(wstm) = Rows(stm)
  BY DEF CompareWithMemory, RowsInvariant, FirstOf, files
<1>2. Rows(wstm') = Rows(stm)
  <2>1. ASSUME NEW m \in MemId, MergeIntoMemory(o, m) PROVE Rows(wstm') = Rows(stm)
    BY <1>1, <2>1, MarkedRows DEF MergeIntoMemory, RowStatus
  <2>2. ASSUME NEW m \in MemId, ConflictWithMemory(o, m) PROVE Rows(wstm') = Rows(stm)
    BY <1>1, <2>2, MarkedRows DEF ConflictWithMemory, RowStatus
  <2>3. ASSUME LeaveForClustering(o) PROVE Rows(wstm') = Rows(stm)
    BY <1>1, <2>3 DEF LeaveForClustering
  <2>. QED  BY <2>1, <2>2, <2>3 DEF CompareWithMemory
<1>3. unassigned' \subseteq unassigned \union {o}
  BY DEF CompareWithMemory, MergeIntoMemory, ConflictWithMemory, LeaveForClustering
<1>. QED  BY <1>1, <1>2, <1>3 DEF RowsInvariant, Rows

\* Nor does a promotion.
LEMMA PromoteRows ==
    ASSUME TypeOK, RowsInvariant, NEW seed \in Obs, PromoteCluster(seed)
    PROVE  RowsInvariant'
<1>1. /\ pc = "consolidate" /\ pc' = "consolidate" /\ stm' = stm /\ todo' = todo
      /\ Rows(wstm) = Rows(stm) /\ unassigned' \subseteq unassigned
      /\ unassigned \subseteq Rows(stm)
  BY DEF PromoteCluster, RowsInvariant, files
<1>2. ClusterOf(seed) \subseteq Rows(stm)
  BY <1>1 DEF ClusterOf
<1>3. \/ wstm' = wstm
      \/ \E m : wstm' = [o \in Obs |->
                            IF o \in ClusterOf(seed)
                            THEN [wstm[o] EXCEPT !.status = "promoted", !.promotedTo = m]
                            ELSE wstm[o]]
  BY DEF PromoteCluster, TryPromote
<1>4. \A o \in ClusterOf(seed) : \A m : [wstm[o] EXCEPT !.status = "promoted", !.promotedTo = m].status = "promoted"
  BY <1>2 DEF TypeOK, WorkTyped, RowsType, Row, Rows
<1>5. Rows(wstm') = Rows(stm)
  <2>1. CASE wstm' = wstm
    BY <1>1, <2>1
  <2>2. ASSUME NEW m, wstm' = [o \in Obs |->
                                 IF o \in ClusterOf(seed)
                                 THEN [wstm[o] EXCEPT !.status = "promoted", !.promotedTo = m]
                                 ELSE wstm[o]]
        PROVE  Rows(wstm') = Rows(stm)
    <3>1. \A o \in Obs : wstm'[o].status = IF o \in ClusterOf(seed) THEN "promoted" ELSE wstm[o].status
      BY <1>4, <2>2
    <3>. QED  BY <1>1, <1>2, <3>1 DEF Rows
  <2>. QED  BY <1>3, <2>1, <2>2
<1>. QED  BY <1>1, <1>5 DEF RowsInvariant, Rows

\* After the archive was written, the rows to be dropped are in it.
LEMMA ArchiveRows ==
    ASSUME TypeOK, RowsInvariant, ArchiveExpiredRows PROVE RowsInvariant'
<1>1. ArchiveExpired => Copies(stm, NewlyExpired) \subseteq archived'.expired
  BY DEF ArchiveExpiredRows, TypeOK, FilesTyped, Archive
<1>2. /\ stm' = stm /\ wstm' = wstm /\ unassigned' = unassigned
      /\ pc = "archive_stm" /\ pc' = "write_stm"
  BY DEF ArchiveExpiredRows, work
<1>. QED  BY <1>1, <1>2 DEF RowsInvariant, Rows, Copies, NewlyExpired

\* The write of the file drops expired rows only.
LEMMA WriteRowsKeep ==
    ASSUME TypeOK, RowsInvariant, WriteShortTerm PROVE RowsInvariant'
<1>1. /\ pc = "write_stm" /\ pc' = "log" /\ unassigned' = unassigned
      /\ Rows(wstm) = Rows(stm)
  BY DEF WriteShortTerm, RowsInvariant, work
<1>2. /\ Rows(stm') \subseteq Rows(stm)
      /\ ArchiveExpired => \A o \in Obs : stm'[o].status # "expired"
  BY <1>1 DEF WriteShortTerm, RowsInvariant, Rows, NewlyExpired, NoRow
<1>3. Cardinality(Rows(stm')) <= Cardinality(Rows(stm)) /\ Cardinality(Rows(stm')) \in Nat
  <2>1. Rows(stm) \in SUBSET Obs /\ IsFiniteSet(Rows(stm)) /\ Rows(stm') \in SUBSET Obs
    BY ObservationSets DEF Rows
  <2>. QED  BY <1>2, <2>1, FS_Subset, ObservationSets
<1>4. Cardinality(Rows(stm)') <= MaxRecords
  <2>1. Cardinality(Rows(stm)) \in Nat
    BY ObservationSets DEF Rows
  <2>2. Cardinality(Rows(stm')) <= MaxRecords
    BY <1>3, <2>1, StoreAssumption DEF StoreAssumption, RowsInvariant
  <2>. QED  BY <2>2 DEF Rows
<1>. QED  BY <1>1, <1>2, <1>4 DEF RowsInvariant

\* The other steps leave the rows alone.
LEMMA OtherRows ==
    ASSUME TypeOK, RowsInvariant,
           \/ \E o \in Obs : Verify(o) \/ StageCrash(o)
           \/ RecheckLifecycle \/ ArchiveDeprecated \/ LongTermWritten
           \/ \E file \in MemoryType : UpsertLongTerm(file)
           \/ AppendEvents \/ FinishDryRun \/ Crash \/ Tick \/ UNCHANGED vars
    PROVE  RowsInvariant'
<1>1. stm' = stm
  BY DEF Verify, StageCrash, RecheckLifecycle, ArchiveDeprecated, LongTermWritten,
         UpsertLongTerm, AppendEvents, FinishDryRun, Crash, Tick, vars, files
<1>2. CASE pc' = "idle" /\ unassigned' = {}
  BY <1>1, <1>2 DEF RowsInvariant, Rows
<1>3. CASE pc' = "archive_ltm" /\ pc = "consolidate" /\ wstm' = wstm /\ unassigned' = {}
  BY <1>1, <1>3 DEF RowsInvariant, Rows
<1>4. CASE /\ pc' # "consolidate" /\ pc # "consolidate" /\ pc' # "write_stm"
           /\ wstm' = wstm /\ unassigned' = unassigned
           /\ pc \in {"idle", "log"} => pc' \in {"idle", "log"}
  BY <1>1, <1>4 DEF RowsInvariant, Rows
<1>5. CASE pc' = pc /\ archived'.expired = archived.expired /\ wstm' = wstm
           /\ unassigned' = unassigned /\ todo' = todo
  BY <1>1, <1>5 DEF RowsInvariant, Rows, Copies, NewlyExpired
<1>6. ASSUME NEW o \in Obs, StageCrash(o)
      PROVE  /\ pc' = pc /\ wstm' = wstm /\ unassigned' = unassigned
             /\ pc = "idle"
  BY <1>6 DEF StageCrash, work
<1>7. (AppendEvents \/ FinishDryRun \/ Crash) => pc' = "idle" /\ unassigned' = {}
  BY DEF AppendEvents, FinishDryRun, Crash, ForgetCopies
<1>8. RecheckLifecycle => pc' = "archive_ltm" /\ pc = "consolidate" /\ wstm' = wstm /\ unassigned' = {}
  BY DEF RecheckLifecycle
<1>9. ArchiveDeprecated \/ LongTermWritten =>
         /\ pc' # "consolidate" /\ pc # "consolidate" /\ pc' # "write_stm"
         /\ wstm' = wstm /\ unassigned' = unassigned
         /\ pc \in {"idle", "log"} => pc' \in {"idle", "log"}
  BY DEF ArchiveDeprecated, LongTermWritten, work
<1>10. \/ \E o \in Obs : Verify(o)
       \/ \E file \in MemoryType : UpsertLongTerm(file)
       \/ Tick \/ UNCHANGED vars
       => pc' = pc /\ archived' = archived /\ wstm' = wstm
          /\ unassigned' = unassigned /\ todo' = todo
  BY DEF Verify, UpsertLongTerm, Tick, vars, files, work
<1>. QED  BY <1>2, <1>3, <1>4, <1>5, <1>6, <1>7, <1>8, <1>9, <1>10

\* Every step keeps the rows and their limit.
LEMMA NextRows == TypeOK /\ RowsInvariant /\ [Next]_vars => RowsInvariant'
  BY StageRows, BeginRows, CompareRows, PromoteRows, ArchiveRows, WriteRowsKeep, OtherRows
     DEF Next, Consolidate

\* Rows within the limit, and archived before they are dropped, for any constants.
LEMMA RowsInvariantHolds == Spec => []RowsInvariant
  BY InitRows, NextRows, TypeCorrect, PTL DEF Spec

\* A row that a step takes out of the file is in the archive after it, in the
\* version that was in the file.
LEMMA GoneIsArchived ==
    ASSUME TypeOK, RowsInvariant, Next, NEW o \in Rows(stm) \ Rows(stm')
    PROVE  <<o, stm[o].stagedAt>> \in archived'.expired \union archived'.overflow
<1>1. CASE \E p \in Obs : StageCandidate(p)
  <2>1. PICK p \in Obs : StageCandidate(p)
    BY <1>1
  <2>2. ~Terminal(stm[p])
    BY <2>1 DEF StageCandidate, Rows
  <2>3. PICK dropped \in Overflow(WithStaged(p)) :
           /\ Rows(stm') = Rows(WithStaged(p)) \ dropped
           /\ Copies(WithStaged(p), dropped) \subseteq archived'.overflow
    BY <2>1, <2>2, StagedRows
  <2>4. Rows(WithStaged(p)) = Rows(stm) \union {p}
    BY DEF Rows, WithStaged, StagedRow, TypeOK, FilesTyped, RowsType
  <2>5. o \in dropped
    BY <2>3, <2>4
  <2>6. ASSUME p \in Rows(stm) PROVE FALSE
    BY <2>4, <2>5, <2>6 DEF RowsInvariant, Overflow
  <2>7. o \in Obs /\ WithStaged(p)[o] = stm[o]
    BY <2>6 DEF Rows, WithStaged, TypeOK, FilesTyped, RowsType
  <2>. QED  BY <2>3, <2>5, <2>7 DEF Copies
<1>2. CASE WriteShortTerm
  <2>1. /\ ArchiveExpired /\ wstm[o].status = "expired"
        /\ pc = "write_stm" /\ archived' = archived /\ o \in Obs
    BY <1>2 DEF WriteShortTerm, RowsInvariant, Rows
  <2>2. o \in NewlyExpired
    BY <2>1 DEF RowsInvariant, NewlyExpired
  <2>. QED  BY <2>1, <2>2 DEF RowsInvariant, Copies
<1>3. CASE stm' = stm
  BY <1>3
<1>4. (\E p \in Obs : StageCandidate(p)) \/ WriteShortTerm \/ stm' = stm
  BY DEF Next, Consolidate, Verify, StageCrash, BeginConsolidation, CompareWithMemory,
         PromoteCluster, RecheckLifecycle, ArchiveDeprecated, UpsertLongTerm,
         LongTermWritten, ArchiveExpiredRows, AppendEvents, FinishDryRun, Crash, Tick, files
<1>. QED  BY <1>1, <1>2, <1>3, <1>4

\* Nothing is silently deleted (README.md): what stage_candidate drops beyond
\* max_records and what a consolidation drops as expired is archived before, for
\* any limits and times to live and through crashes between the two writes.
THEOREM DeletedIsArchived == Spec => NeverSilentlyDeleted
<1>. DEFINE Archives == \A o \in Rows(stm) \ Rows(stm') :
                          <<o, stm[o].stagedAt>> \in archived'.expired \union archived'.overflow
<1>1. TypeOK /\ RowsInvariant /\ [Next]_vars => [Archives]_vars
  BY GoneIsArchived
<1>. QED  BY <1>1, TypeCorrect, RowsInvariantHolds, PTL DEF Spec, NeverSilentlyDeleted

-----------------------------------------------------------------------------
\* The event log.

\* What is logged stays logged, and rows or records that nothing processed need
\* no entry.
LEMMA LoggedMore ==
    ASSUME NEW rows, NEW records, NEW entries, NEW more, entries \subseteq more,
           Logged(rows, records, entries)
    PROVE  Logged(rows, records, more)
  BY DEF Logged

\* A row that is not processed may take the place of another.
Unprocessed(row) ==
    row.status \in {"absent", "staged", "expired"}
    \/ (row.status = "under_review" /\ row.promotedTo = NoMem)

\* Logged entries stay so when rows are replaced by unprocessed ones.
LEMMA LoggedRows ==
    ASSUME NEW rows, NEW others, NEW records, NEW entries, Logged(rows, records, entries),
           \A o \in Obs : others[o] = rows[o] \/ Unprocessed(others[o])
    PROVE  Logged(others, records, entries)
  BY DEF Logged, Unprocessed

\* Staging adds a row that is not processed.
LEMMA LoggedStaging ==
    ASSUME TypeOK, LoggedInvariant, NEW o \in Obs, StageCandidate(o)
    PROVE  LoggedInvariant'
<1>1. pc = "idle" /\ pc' = "idle" /\ ltm' = ltm /\ log' = log
  BY DEF StageCandidate
<1>2. \A p \in Obs : stm'[p] = stm[p] \/ Unprocessed(stm'[p])
  <2>1. CASE Terminal(stm[o])
    BY <2>1 DEF StageCandidate
  <2>2. CASE ~Terminal(stm[o])
    BY <2>2, StagedRows DEF Unprocessed, NoRow, StagedRow
  <2>. QED  BY <2>1, <2>2
<1>3. Logged(stm', ltm, log)
  BY <1>1, <1>2, LoggedRows DEF LoggedInvariant
<1>. QED  BY <1>1, <1>3 DEF LoggedInvariant

\* A run begins with rows that are logged or not processed.
LEMMA LoggedBegin ==
    ASSUME TypeOK, LoggedInvariant, BeginConsolidation PROVE LoggedInvariant'
<1>1. /\ pc = "idle" /\ pc' = "consolidate" /\ stm' = stm /\ ltm' = ltm /\ log' = log
      /\ wltm' = ltm
  BY DEF BeginConsolidation, files
<1>2. \A p \in Obs : wstm'[p] = stm[p] \/ Unprocessed(wstm'[p])
  BY DEF BeginConsolidation, Unprocessed, TypeOK, FilesTyped, RowsType, Row
<1>3. Logged(wstm', ltm, log)
  BY <1>1, <1>2, LoggedRows DEF LoggedInvariant
<1>4. Logged(wstm', wltm', log' \union events')
  BY <1>1, <1>3, LoggedMore
<1>. QED  BY <1>1, <1>4 DEF LoggedInvariant

\* Evidence never deprecates a record by itself.
LEMMA EvidenceStatus ==
    ASSUME NEW o \in Obs, NEW r \in Record
    PROVE  /\ MergeSupport(r, o).status = r.status
           /\ ApplyConflict(r, o).status \in {r.status, "under_review"}
  BY DEF MergeSupport, ApplyConflict, Record

\* A merge or a conflict adds its event.
LEMMA LoggedCompare ==
    ASSUME TypeOK, LoggedInvariant, NEW o \in Obs, CompareWithMemory(o)
    PROVE  LoggedInvariant'
<1>1. /\ pc = "consolidate" /\ pc' = "consolidate"
      /\ stm' = stm /\ ltm' = ltm /\ log' = log
      /\ Logged(wstm, wltm, log \union events)
  BY DEF CompareWithMemory, LoggedInvariant, files
<1>2. Logged(wstm', wltm', log \union events')
  <2>1. \A m \in MemId : wltm[m] \in Record
    BY DEF TypeOK, WorkTyped, RecordsType
  <2>2. ASSUME NEW m \in MemId, MergeIntoMemory(o, m)
        PROVE  Logged(wstm', wltm', log \union events')
    <3>1. Logged(wstm, wltm, log \union events')
      BY <1>1, <2>2, LoggedMore DEF MergeIntoMemory
    <3>2. /\ wltm' = [wltm EXCEPT ![m] = MergeSupport(wltm[m], o)]
          /\ MarkRow(o, "merged", m) /\ [kind |-> "merged", obs |-> o] \in log \union events'
      BY <2>2 DEF MergeIntoMemory
    <3>3. /\ wstm'[o].status = "merged" /\ \A p \in Obs \ {o} : wstm'[p] = wstm[p]
      BY <3>2 DEF MarkRow, TypeOK, WorkTyped, RowsType, Row
    <3>4. MergeSupport(wltm[m], o).status = wltm[m].status
      BY <2>1, EvidenceStatus
    <3>5. \A n \in MemId : wltm'[n].status = "deprecated" => wltm[n].status = "deprecated"
      BY <3>2, <3>4 DEF TypeOK, WorkTyped, RecordsType
    <3>. QED  BY <3>1, <3>2, <3>3, <3>5 DEF Logged
  <2>3. ASSUME NEW m \in MemId, ConflictWithMemory(o, m)
        PROVE  Logged(wstm', wltm', log \union events')
    <3>1. Logged(wstm, wltm, log \union events')
      BY <1>1, <2>3, LoggedMore DEF ConflictWithMemory
    <3>2. /\ wltm' = [wltm EXCEPT ![m] = ApplyConflict(wltm[m], o)]
          /\ MarkRow(o, "under_review", m)
          /\ [kind |-> "conflict", obs |-> o] \in log \union events'
      BY <2>3 DEF ConflictWithMemory
    <3>3. /\ wstm'[o].status = "under_review" /\ \A p \in Obs \ {o} : wstm'[p] = wstm[p]
      BY <3>2 DEF MarkRow, TypeOK, WorkTyped, RowsType, Row
    <3>4. ApplyConflict(wltm[m], o).status \in {wltm[m].status, "under_review"}
      BY <2>1, EvidenceStatus
    <3>5. \A n \in MemId : wltm'[n].status = "deprecated" => wltm[n].status = "deprecated"
      BY <3>2, <3>4 DEF TypeOK, WorkTyped, RecordsType
    <3>. QED  BY <3>1, <3>2, <3>3, <3>5 DEF Logged
  <2>4. ASSUME LeaveForClustering(o) PROVE Logged(wstm', wltm', log \union events')
    BY <1>1, <2>4 DEF LeaveForClustering
  <2>. QED  BY <2>2, <2>3, <2>4 DEF CompareWithMemory
<1>. QED  BY <1>1, <1>2 DEF LoggedInvariant

\* A promotion adds the event of each of its rows.
LEMMA LoggedPromote ==
    ASSUME TypeOK, LoggedInvariant, NEW seed \in Obs, PromoteCluster(seed)
    PROVE  LoggedInvariant'
<1>1. /\ pc = "consolidate" /\ pc' = "consolidate"
      /\ stm' = stm /\ ltm' = ltm /\ log' = log
      /\ Logged(wstm, wltm, log \union events)
  BY DEF PromoteCluster, LoggedInvariant, files
<1>2. Logged(wstm', wltm', log \union events')
  <2>. DEFINE cluster == ClusterOf(seed)
  <2>1. \/ UNCHANGED <<wltm, wstm, events>>
        \/ \E m, picked :
             /\ wltm' = [wltm EXCEPT ![m] = Promoted(picked)]
             /\ wstm' = [o \in Obs |->
                           IF o \in cluster
                           THEN [wstm[o] EXCEPT !.status = "promoted", !.promotedTo = m]
                           ELSE wstm[o]]
             /\ events' = events \union {[kind |-> "promoted", mem |-> m]}
    BY DEF PromoteCluster, TryPromote
  <2>2. CASE UNCHANGED <<wltm, wstm, events>>
    BY <1>1, <2>2
  <2>3. ASSUME NEW m, NEW picked,
               wltm' = [wltm EXCEPT ![m] = Promoted(picked)],
               wstm' = [o \in Obs |->
                          IF o \in cluster
                          THEN [wstm[o] EXCEPT !.status = "promoted", !.promotedTo = m]
                          ELSE wstm[o]],
               events' = events \union {[kind |-> "promoted", mem |-> m]}
        PROVE  Logged(wstm', wltm', log \union events')
    <3>1. \A n \in MemId : wltm'[n].status = "deprecated" => wltm[n].status = "deprecated"
      BY <2>3 DEF TypeOK, WorkTyped, RecordsType, Promoted
    <3>2. \A o \in cluster \cap Obs : wstm'[o].status = "promoted" /\ wstm'[o].promotedTo = m
      BY <2>3 DEF TypeOK, WorkTyped, RowsType, Row
    <3>3. \A o \in Obs \ cluster : wstm'[o] = wstm[o]
      BY <2>3
    <3>4. Logged(wstm, wltm, log \union events')
      BY <1>1, <2>3, LoggedMore
    <3>5. [kind |-> "promoted", mem |-> m] \in log \union events'
      BY <2>3
    <3>6. ASSUME NEW o \in Obs
          PROVE  /\ wstm'[o].status = "merged" =>
                      [kind |-> "merged", obs |-> o] \in log \union events'
                 /\ wstm'[o].status = "promoted" =>
                      [kind |-> "promoted", mem |-> wstm'[o].promotedTo] \in log \union events'
                 /\ wstm'[o].status = "under_review" /\ wstm'[o].promotedTo # NoMem =>
                      [kind |-> "conflict", obs |-> o] \in log \union events'
      <4>1. CASE o \in cluster
        BY <3>2, <3>5, <4>1
      <4>2. CASE o \notin cluster
        BY <3>3, <3>4, <4>2 DEF Logged
      <4>. QED  BY <4>1, <4>2
    <3>7. \A n \in MemId :
             wltm'[n].status = "deprecated" => [kind |-> "deprecated", mem |-> n] \in log \union events'
      BY <3>1, <3>4 DEF Logged
    <3>. QED  BY <3>6, <3>7 DEF Logged
  <2>. QED  BY <2>1, <2>2, <2>3
<1>. QED  BY <1>1, <1>2 DEF LoggedInvariant

\* A deprecation adds its event.
LEMMA LoggedRecheck ==
    ASSUME TypeOK, LoggedInvariant, RecheckLifecycle PROVE LoggedInvariant'
<1>1. /\ pc = "consolidate" /\ pc' = "archive_ltm" /\ wstm' = wstm
      /\ stm' = stm /\ ltm' = ltm /\ log' = log
      /\ Logged(wstm, wltm, log \union events)
  BY DEF RecheckLifecycle, LoggedInvariant, files
<1>2. ASSUME NEW m \in MemId, wltm'[m].status = "deprecated"
      PROVE  [kind |-> "deprecated", mem |-> m] \in log \union events'
  <2>1. LifecycleStatus(m, wltm[m]) = "deprecated"
    BY <1>2 DEF RecheckLifecycle, LifecycleCheck, TypeOK, WorkTyped, RecordsType, Record
  <2>2. CASE wltm[m].status = "deprecated"
    BY <1>1, <2>2 DEF Logged, RecheckLifecycle
  <2>3. CASE wltm[m].status # "deprecated"
    BY <2>1, <2>3 DEF RecheckLifecycle, LifecycleEvent
  <2>. QED  BY <2>2, <2>3
<1>3. Logged(wstm, wltm, log \union events')
  BY <1>1, LoggedMore DEF RecheckLifecycle
<1>. QED  BY <1>1, <1>2, <1>3 DEF LoggedInvariant, Logged

\* The rows are written while their events wait to be appended.
LEMMA LoggedWriteRows ==
    ASSUME TypeOK, LoggedInvariant, WriteShortTerm PROVE LoggedInvariant'
<1>1. /\ pc = "write_stm" /\ pc' = "log" /\ UNCHANGED <<ltm, log, wstm, wltm, events>>
  BY DEF WriteShortTerm, work
<1>2. Changed = {} /\ Logged(wstm, wltm, log \union events)
  BY <1>1 DEF LoggedInvariant
<1>3. \A p \in Obs : stm'[p] = wstm[p] \/ Unprocessed(stm'[p])
  BY DEF WriteShortTerm, Unprocessed, NoRow
<1>4. \A m \in MemId : ltm[m] = wltm[m]
  BY <1>2 DEF Changed
<1>5. Logged(stm', ltm, log \union events)
  <2>1. Logged(stm', wltm, log \union events)
    BY <1>2, <1>3, LoggedRows
  <2>. QED  BY <1>4, <2>1 DEF Logged
<1>. QED  BY <1>1, <1>2, <1>5 DEF LoggedInvariant

\* No other step but a crash loses an event.
LEMMA LoggedOther ==
    ASSUME TypeOK, LoggedInvariant,
           \/ \E o \in Obs : Verify(o)
           \/ ArchiveDeprecated \/ LongTermWritten \/ ArchiveExpiredRows
           \/ \E file \in MemoryType : UpsertLongTerm(file)
           \/ AppendEvents \/ FinishDryRun \/ Tick \/ UNCHANGED vars
    PROVE  LoggedInvariant'
<1>1. stm' = stm
  BY DEF Verify, ArchiveDeprecated, LongTermWritten, ArchiveExpiredRows, UpsertLongTerm,
         AppendEvents, FinishDryRun, Tick, vars, files
<1>2. CASE AppendEvents \/ FinishDryRun
  <2>1. pc' = "idle" /\ ltm' = ltm /\ Logged(stm, ltm, log')
    BY <1>2 DEF AppendEvents, FinishDryRun, ForgetCopies, LoggedInvariant, files
  <2>. QED  BY <1>1, <2>1 DEF LoggedInvariant
<1>3. CASE /\ pc' = pc /\ UNCHANGED <<wstm, wltm, log, events>>
           /\ ltm' = ltm \/ pc = "write_ltm"
  BY <1>1, <1>3 DEF LoggedInvariant, Changed
<1>4. CASE ArchiveDeprecated
  BY <1>1, <1>4 DEF ArchiveDeprecated, LoggedInvariant, work
<1>5. CASE LongTermWritten
  BY <1>1, <1>5 DEF LongTermWritten, LoggedInvariant, Changed, work, files
<1>6. CASE ArchiveExpiredRows
  BY <1>1, <1>6 DEF ArchiveExpiredRows, LoggedInvariant, Changed, work
<1>7. \/ \E o \in Obs : Verify(o)
      \/ \E file \in MemoryType : UpsertLongTerm(file)
      \/ Tick \/ UNCHANGED vars
      => /\ pc' = pc /\ UNCHANGED <<wstm, wltm, log, events>>
         /\ ltm' = ltm \/ pc = "write_ltm"
  BY DEF Verify, UpsertLongTerm, Tick, vars, files, work
<1>. QED  BY <1>2, <1>3, <1>4, <1>5, <1>6, <1>7

\* Without crashes every step keeps what is processed logged.
LEMMA NextLogged ==
    ASSUME MaxCrashes = 0
    PROVE  TypeOK /\ LoggedInvariant /\ [Next]_vars => LoggedInvariant'
<1>1. TypeOK => ~Crash /\ \A o \in Obs : ~StageCrash(o)
  BY DEF Crash, StageCrash, TypeOK, RestTyped
<1>. QED  BY <1>1, LoggedStaging, LoggedBegin, LoggedCompare, LoggedPromote, LoggedRecheck,
             LoggedWriteRows, LoggedOther DEF Next, Consolidate

\* While nothing crashes, every row that a finished run marked as processed and
\* every deprecation is in the event log (consolidation_events.jsonl), whatever
\* expires, overflows or is staged again, and although a dry run writes nothing.
THEOREM ProcessedIsLogged ==
    ASSUME MaxCrashes = 0
    PROVE  Spec => []ProcessedLogged
<1>1. Init => LoggedInvariant
  BY DEF Init, LoggedInvariant, Logged, NoRow, InitialRecord, SeedRecord, NoRecord
<1>2. LoggedInvariant => ProcessedLogged
  BY DEF LoggedInvariant, ProcessedLogged
<1>. QED  BY <1>1, <1>2, NextLogged, TypeCorrect, PTL DEF Spec

-----------------------------------------------------------------------------
\* One observation, one record.

\* Nothing expires and nothing overflows.
LEMMA NothingLeaves ==
    ASSUME Undisturbed, TypeOK, clock <= MaxClock
    PROVE  Expired = {} /\ \A o \in Obs : cand[o].verdict # "none" => Overflow(WithStaged(o)) = {{}}
<1>1. Expired = {}
  BY StoreAssumption DEF Expired, Undisturbed, StoreAssumption, TypeOK, FilesTyped, RestTyped,
                         RowsType, Row
<1>2. ASSUME NEW o \in Obs PROVE Cardinality(Rows(WithStaged(o))) <= MaxRecords
  <2>1. Rows(WithStaged(o)) \in SUBSET Obs
    BY DEF Rows
  <2>2. /\ Cardinality(Rows(WithStaged(o))) <= Cardinality(Obs)
        /\ Cardinality(Rows(WithStaged(o))) \in Nat /\ Cardinality(Obs) \in Nat
    BY <2>1, ObservationSets, FS_Subset, MemoryAssumption DEF MemoryAssumption
  <2>. QED  BY <2>2, StoreAssumption DEF StoreAssumption, Undisturbed
<1>. QED  BY <1>1, <1>2 DEF Overflow

\* No observation was counted at first.
LEMMA SpentInit == Init => SpentInvariant
  BY StoreAssumption DEF Init, SpentInvariant, Spent, BackedOnce, NoRow, InitialRecord,
                         SeedRecord, NoRecord, StoreAssumption

\* A row that was processed is not staged again.
LEMMA SpentStaging ==
    ASSUME Undisturbed, TypeOK, SpentInvariant, NEW o \in Obs, StageCandidate(o)
    PROVE  SpentInvariant'
<1>1. /\ pc = "idle" /\ pc' = "idle" /\ ltm' = ltm /\ wstm' = wstm /\ unassigned' = {}
      /\ clock' = clock
  BY DEF StageCandidate, work, SpentInvariant
<1>2. CASE Terminal(stm[o])
  BY <1>1, <1>2 DEF StageCandidate, SpentInvariant
<1>3. CASE ~Terminal(stm[o])
  <2>1. WriteRows(WithStaged(o), OrderWith(o), {})
    BY <1>3, NothingLeaves DEF StageCandidate, SpentInvariant
  <2>2. \A p \in Obs : stm'[p] = IF p = o THEN StagedRow(o) ELSE stm[p]
    BY <2>1 DEF WriteRows, WithStaged, TypeOK, FilesTyped, RowsType
  <2>3. \A m \in MemId : o \notin ltm[m].backers /\ o \notin ltm[m].opponents
    BY <1>1, <1>3 DEF SpentInvariant, Spent, Terminal
  <2>4. \A m \in MemId : ltm[m].backers \subseteq Obs /\ ltm[m].opponents \subseteq Obs
    BY DEF TypeOK, FilesTyped, RecordsType, Record
  <2>5. Spent(stm', ltm) /\ BackedOnce(ltm)
    BY <1>1, <2>2, <2>3, <2>4 DEF SpentInvariant, Spent
  <2>6. \A p \in Obs : stm'[p].status # "expired"
    BY <2>2 DEF SpentInvariant, StagedRow
  <2>. QED  BY <1>1, <2>5, <2>6 DEF SpentInvariant
<1>. QED  BY <1>2, <1>3

\* A run handles no row that was counted before.
LEMMA SpentBegin ==
    ASSUME Undisturbed, TypeOK, SpentInvariant, BeginConsolidation
    PROVE  SpentInvariant'
<1>1. /\ pc = "idle" /\ pc' = "consolidate" /\ stm' = stm /\ ltm' = ltm /\ wltm' = ltm
      /\ unassigned' = {} /\ todo' = Actionable /\ clock' = clock
  BY DEF BeginConsolidation, SpentInvariant, files
<1>2. wstm' = stm
  BY NothingLeaves DEF BeginConsolidation, SpentInvariant, TypeOK, FilesTyped, RowsType
<1>. QED  BY <1>1, <1>2 DEF SpentInvariant, Actionable

\* A row that is still to be compared or clustered is no evidence yet.
LEMMA OpenIsNoEvidence ==
    ASSUME SpentInvariant, pc = "consolidate", NEW o \in todo \union unassigned, NEW m \in MemId
    PROVE  o \notin wltm[m].backers /\ o \notin wltm[m].opponents
  BY DEF SpentInvariant, Spent

\* An observation is added to the backers or to the opponents of one record,
\* with its row marked accordingly.
LEMMA SpentMerge ==
    ASSUME TypeOK, SpentInvariant, pc = "consolidate", NEW o \in todo, NEW m \in MemId,
           MergeIntoMemory(o, m)
    PROVE  /\ Spent(wstm', wltm') /\ BackedOnce(wltm')
           /\ \A n \in MemId : /\ wltm[n].backers \subseteq wltm'[n].backers
                               /\ wltm[n].opponents \subseteq wltm'[n].opponents
           /\ \A p \in Obs \ {o} : wstm'[p] = wstm[p]
           /\ \A p \in Obs : wstm'[p].status # "expired"
<1>1. o \in Obs /\ wltm[m] \in Record
  BY DEF TypeOK, WorkTyped, RecordsType
<1>2. /\ wltm' = [wltm EXCEPT ![m] = MergeSupport(wltm[m], o)] /\ MarkRow(o, "merged", m)
  BY DEF MergeIntoMemory
<1>3. /\ wstm'[o].status = "merged" /\ \A p \in Obs \ {o} : wstm'[p] = wstm[p]
  BY <1>1, <1>2 DEF MarkRow, TypeOK, WorkTyped, RowsType, Row
<1>4. /\ MergeSupport(wltm[m], o).backers \in {wltm[m].backers, wltm[m].backers \union {o}}
      /\ MergeSupport(wltm[m], o).opponents = wltm[m].opponents
  BY <1>1 DEF MergeSupport, Record
<1>5. /\ wltm'[m].backers \in {wltm[m].backers, wltm[m].backers \union {o}}
      /\ wltm'[m].opponents = wltm[m].opponents
      /\ \A n \in MemId \ {m} : wltm'[n] = wltm[n]
  BY <1>2, <1>4 DEF TypeOK, WorkTyped, RecordsType
<1>6. \A n \in MemId : wltm[n].backers \subseteq Obs /\ wltm[n].opponents \subseteq Obs
  BY DEF TypeOK, WorkTyped, RecordsType, Record
<1>7. \A n \in MemId : o \notin wltm[n].backers /\ o \notin wltm[n].opponents
  BY OpenIsNoEvidence
<1>8. Spent(wstm, wltm) /\ BackedOnce(wltm) /\ \A p \in Obs : wstm[p].status # "expired"
  BY DEF SpentInvariant
<1>9. wltm'[m].status # "absent"
  BY <1>1, <1>2, EvidenceStatus DEF MergeIntoMemory, Closest, Related, Live, TypeOK, WorkTyped, RecordsType
<1>10. Spent(wstm', wltm')
  BY <1>3, <1>5, <1>6, <1>7, <1>8, <1>9 DEF Spent
<1>11. BackedOnce(wltm')
  BY <1>5, <1>7, <1>8 DEF BackedOnce
<1>. QED  BY <1>1, <1>3, <1>5, <1>8, <1>10, <1>11

\* An observation that opposes a record is spent.
LEMMA SpentConflict ==
    ASSUME TypeOK, SpentInvariant, pc = "consolidate", NEW o \in todo, NEW m \in MemId,
           ConflictWithMemory(o, m)
    PROVE  /\ Spent(wstm', wltm') /\ BackedOnce(wltm')
           /\ \A n \in MemId : /\ wltm[n].backers \subseteq wltm'[n].backers
                               /\ wltm[n].opponents \subseteq wltm'[n].opponents
           /\ \A p \in Obs \ {o} : wstm'[p] = wstm[p]
           /\ \A p \in Obs : wstm'[p].status # "expired"
<1>1. o \in Obs /\ wltm[m] \in Record
  BY DEF TypeOK, WorkTyped, RecordsType
<1>2. /\ wltm' = [wltm EXCEPT ![m] = ApplyConflict(wltm[m], o)]
      /\ MarkRow(o, "under_review", m)
  BY DEF ConflictWithMemory
<1>3. /\ wstm'[o].status = "under_review" /\ wstm'[o].promotedTo # NoMem
      /\ \A p \in Obs \ {o} : wstm'[p] = wstm[p]
  BY <1>1, <1>2, MemoryAssumption DEF MarkRow, TypeOK, WorkTyped, RowsType, Row, MemoryAssumption
<1>4. /\ ApplyConflict(wltm[m], o).backers = wltm[m].backers
      /\ ApplyConflict(wltm[m], o).opponents \in {wltm[m].opponents, wltm[m].opponents \union {o}}
  BY <1>1 DEF ApplyConflict, Record
<1>5. /\ wltm'[m].opponents \in {wltm[m].opponents, wltm[m].opponents \union {o}}
      /\ wltm'[m].backers = wltm[m].backers
      /\ \A n \in MemId \ {m} : wltm'[n] = wltm[n]
  BY <1>2, <1>4 DEF TypeOK, WorkTyped, RecordsType
<1>6. \A n \in MemId : wltm[n].backers \subseteq Obs /\ wltm[n].opponents \subseteq Obs
  BY DEF TypeOK, WorkTyped, RecordsType, Record
<1>7. \A n \in MemId : o \notin wltm[n].backers /\ o \notin wltm[n].opponents
  BY OpenIsNoEvidence
<1>8. Spent(wstm, wltm) /\ BackedOnce(wltm) /\ \A p \in Obs : wstm[p].status # "expired"
  BY DEF SpentInvariant
<1>9. wltm'[m].status # "absent"
  BY <1>1, <1>2, EvidenceStatus DEF ConflictWithMemory, DeclaredConflict, Closest, Related, Live, TypeOK, WorkTyped, RecordsType
<1>10. Spent(wstm', wltm')
  BY <1>3, <1>5, <1>6, <1>7, <1>8, <1>9 DEF Spent
<1>11. BackedOnce(wltm')
  BY <1>5, <1>8 DEF BackedOnce
<1>. QED  BY <1>1, <1>3, <1>5, <1>8, <1>10, <1>11

\* An observation that is compared counts once, for or against.
LEMMA SpentCompare ==
    ASSUME TypeOK, SpentInvariant, NEW o \in Obs, CompareWithMemory(o)
    PROVE  SpentInvariant'
<1>1. /\ pc = "consolidate" /\ pc' = "consolidate" /\ o \in todo /\ todo' = todo \ {o}
      /\ stm' = stm /\ ltm' = ltm /\ clock' = clock /\ todo \subseteq Obs /\ unassigned \subseteq Obs
  BY DEF CompareWithMemory, FirstOf, files, TypeOK, WorkTyped
<1>2. CASE \E m \in MemId : MergeIntoMemory(o, m) \/ ConflictWithMemory(o, m)
  <2>1. /\ Spent(wstm', wltm') /\ BackedOnce(wltm')
        /\ \A n \in MemId : /\ wltm[n].backers \subseteq wltm'[n].backers
                            /\ wltm[n].opponents \subseteq wltm'[n].opponents
        /\ \A p \in Obs \ {o} : wstm'[p] = wstm[p]
        /\ \A p \in Obs : wstm'[p].status # "expired"
    BY <1>1, <1>2, SpentMerge, SpentConflict
  <2>2. unassigned' = unassigned
    BY <1>2 DEF MergeIntoMemory, ConflictWithMemory
  <2>. QED  BY <1>1, <2>1, <2>2 DEF SpentInvariant
<1>3. CASE LeaveForClustering(o)
  BY <1>1, <1>3 DEF LeaveForClustering, SpentInvariant
<1>. QED  BY <1>2, <1>3 DEF CompareWithMemory

\* The backers of a new record were not counted before.
LEMMA SpentPromote ==
    ASSUME TypeOK, SpentInvariant, NEW seed \in Obs, PromoteCluster(seed)
    PROVE  SpentInvariant'
<1>. DEFINE cluster == ClusterOf(seed)
            PromotedAs(picked, m) ==
              /\ wltm[m].status = "absent"
              /\ wltm' = [wltm EXCEPT ![m] = Promoted(picked)]
              /\ wstm' = [o \in Obs |->
                            IF o \in cluster
                            THEN [wstm[o] EXCEPT !.status = "promoted", !.promotedTo = m]
                            ELSE wstm[o]]
<1>1. /\ pc = "consolidate" /\ pc' = "consolidate" /\ todo' = todo /\ todo = {}
      /\ unassigned' = unassigned \ cluster /\ cluster \subseteq unassigned
      /\ stm' = stm /\ ltm' = ltm /\ clock' = clock /\ unassigned \subseteq Obs
  BY DEF PromoteCluster, ClusterOf, files, TypeOK, WorkTyped
<1>2. \/ UNCHANGED <<wltm, wstm, events>>
      \/ \E picked \in SUBSET cluster, rep \in cluster : PromotedAs(picked, IdOf[StatementOf(rep)])
  BY DEF PromoteCluster, TryPromote
<1>3. CASE UNCHANGED <<wltm, wstm, events>>
  BY <1>1, <1>3 DEF SpentInvariant
<1>4. ASSUME NEW picked \in SUBSET cluster, NEW rep \in cluster,
             PromotedAs(picked, IdOf[StatementOf(rep)])
      PROVE  SpentInvariant'
  <2>. DEFINE m == IdOf[StatementOf(rep)]
  <2>0. m \in MemId /\ wltm[m].backers \union wltm[m].opponents = {}
    BY <1>1, <1>4, MemoryAssumption
       DEF MemoryAssumption, StatementOf, ObservationType, SpentInvariant, Spent
  <2>1. /\ wltm'[m].status = "active" /\ wltm'[m].backers = picked /\ wltm'[m].opponents = {}
        /\ \A n \in MemId \ {m} : wltm'[n] = wltm[n]
    BY <1>4, <2>0 DEF Promoted, TypeOK, WorkTyped, RecordsType
  <2>2. /\ \A o \in cluster : wstm'[o].status = "promoted"
        /\ \A o \in Obs \ cluster : wstm'[o] = wstm[o]
    BY <1>1, <1>4 DEF TypeOK, WorkTyped, RowsType, Row
  <2>3. \A o \in cluster, n \in MemId : o \notin wltm[n].backers /\ o \notin wltm[n].opponents
    BY <1>1, OpenIsNoEvidence
  <2>4. \A n \in MemId : wltm[n].backers \subseteq Obs /\ wltm[n].opponents \subseteq Obs
    BY DEF TypeOK, WorkTyped, RecordsType, Record
  <2>5. /\ Spent(wstm, wltm) /\ BackedOnce(wltm) /\ \A p \in Obs : wstm[p].status # "expired"
        /\ \A n \in MemId : /\ ltm[n].backers \subseteq wltm[n].backers
                            /\ ltm[n].opponents \subseteq wltm[n].opponents
    BY <1>1 DEF SpentInvariant
  <2>6. Spent(wstm', wltm')
    BY <2>1, <2>2, <2>3, <2>4, <2>5 DEF Spent
  <2>7. BackedOnce(wltm')
    BY <2>1, <2>3, <2>5 DEF BackedOnce
  <2>8. \A n \in MemId : /\ ltm[n].backers \subseteq wltm'[n].backers
                         /\ ltm[n].opponents \subseteq wltm'[n].opponents
    BY <2>0, <2>1, <2>5
  <2>9. /\ \A p \in Obs : wstm'[p].status # "expired"
        /\ \A o \in unassigned' : wstm'[o].status = "staged"
    BY <1>1, <2>2, <2>5 DEF SpentInvariant
  <2>. QED  BY <1>1, <2>6, <2>7, <2>8, <2>9 DEF SpentInvariant
<1>. QED  BY <1>2, <1>3, <1>4

\* The lifecycle check changes no evidence.
LEMMA CheckedEvidence ==
    ASSUME NEW m \in MemId, NEW r \in Record
    PROVE  /\ LifecycleCheck(m, r).backers = r.backers
           /\ LifecycleCheck(m, r).opponents = r.opponents
           /\ LifecycleCheck(m, r).status = "absent" => r.status = "absent"
  BY DEF LifecycleCheck, LifecycleStatus, Live, Record

\* The lifecycle check moves no evidence.
LEMMA SpentRecheck ==
    ASSUME TypeOK, SpentInvariant, RecheckLifecycle PROVE SpentInvariant'
<1>1. /\ pc = "consolidate" /\ pc' = "archive_ltm" /\ unassigned' = {}
      /\ stm' = stm /\ ltm' = ltm /\ wstm' = wstm /\ clock' = clock
  BY DEF RecheckLifecycle, files
<1>2. \A m \in MemId : /\ wltm'[m].backers = wltm[m].backers
                       /\ wltm'[m].opponents = wltm[m].opponents
                       /\ wltm'[m].status = "absent" => wltm[m].status = "absent"
  <2>. SUFFICES ASSUME NEW m \in MemId
                PROVE  /\ wltm'[m].backers = wltm[m].backers
                       /\ wltm'[m].opponents = wltm[m].opponents
                       /\ wltm'[m].status = "absent" => wltm[m].status = "absent"
    OBVIOUS
  <2>1. wltm[m] \in Record /\ wltm'[m] = LifecycleCheck(m, wltm[m])
    BY DEF RecheckLifecycle, TypeOK, WorkTyped, RecordsType
  <2>. QED  BY <2>1, CheckedEvidence
<1>3. Spent(wstm', wltm') /\ BackedOnce(wltm')
  BY <1>1, <1>2 DEF SpentInvariant, Spent, BackedOnce
<1>. QED  BY <1>1, <1>2, <1>3 DEF SpentInvariant

\* Files are written one by one from copies that count each observation once.
LEMMA SpentUpsert ==
    ASSUME TypeOK, SpentInvariant, NEW file \in MemoryType, UpsertLongTerm(file)
    PROVE  SpentInvariant'
<1>1. /\ pc = "write_ltm" /\ pc' = pc /\ UNCHANGED <<stm, wstm, wltm, unassigned, clock>>
      /\ \A m \in MemId : ltm'[m] \in {ltm[m], wltm[m]}
  BY DEF UpsertLongTerm, work
<1>. QED  BY <1>1 DEF SpentInvariant

\* The rows that were counted are marked as processed in the file.
LEMMA SpentWriteRows ==
    ASSUME TypeOK, SpentInvariant, WriteShortTerm PROVE SpentInvariant'
<1>1. /\ pc = "write_stm" /\ pc' = "log" /\ UNCHANGED <<ltm, wstm, wltm, unassigned, clock>>
  BY DEF WriteShortTerm, work
<1>2. stm' = wstm
  BY DEF WriteShortTerm, SpentInvariant, TypeOK, WorkTyped, RowsType
<1>3. ltm = wltm
  BY <1>1 DEF SpentInvariant, Changed, TypeOK, FilesTyped, WorkTyped, RecordsType
<1>. QED  BY <1>1, <1>2, <1>3 DEF SpentInvariant, Changed

\* Nothing else moves evidence.
LEMMA SpentOther ==
    ASSUME TypeOK, SpentInvariant,
           \/ \E o \in Obs : Verify(o)
           \/ ArchiveDeprecated \/ LongTermWritten \/ ArchiveExpiredRows
           \/ AppendEvents \/ FinishDryRun \/ Tick \/ UNCHANGED vars
    PROVE  SpentInvariant'
<1>0. /\ UNCHANGED <<stm, ltm>>
      /\ clock' = clock \/ (clock < MaxClock /\ clock' = clock + 1)
  BY DEF Verify, ArchiveDeprecated, LongTermWritten, ArchiveExpiredRows, AppendEvents,
         FinishDryRun, Tick, vars, files
<1>1. /\ UNCHANGED <<stm, ltm>> /\ clock' <= MaxClock
      /\ \A o \in Obs : stm'[o].status # "expired"
  BY <1>0, StoreAssumption DEF StoreAssumption, SpentInvariant, TypeOK, RestTyped
<1>2. CASE AppendEvents \/ FinishDryRun
  <2>1. pc \in {"log", "archive_ltm"} /\ pc' = "idle" /\ wstm' = [o \in Obs |-> NoRow]
        /\ unassigned' = {}
    BY <1>2 DEF AppendEvents, FinishDryRun, ForgetCopies
  <2>. QED  BY <1>1, <2>1 DEF SpentInvariant, NoRow
<1>3. CASE pc' = pc /\ UNCHANGED work
  BY <1>1, <1>3 DEF SpentInvariant, Changed, work
<1>4. CASE ArchiveDeprecated
  BY <1>1, <1>4 DEF ArchiveDeprecated, SpentInvariant, work
<1>5. CASE LongTermWritten
  BY <1>1, <1>5 DEF LongTermWritten, SpentInvariant, Changed, work
<1>6. CASE ArchiveExpiredRows
  BY <1>1, <1>6 DEF ArchiveExpiredRows, SpentInvariant, Changed, work
<1>7. (\E o \in Obs : Verify(o)) \/ Tick \/ UNCHANGED vars => pc' = pc /\ UNCHANGED work
  BY DEF Verify, Tick, vars
<1>. QED  BY <1>2, <1>3, <1>4, <1>5, <1>6, <1>7

\* Every step of an undisturbed system keeps the account.
LEMMA NextSpent ==
    ASSUME Undisturbed
    PROVE  TypeOK /\ SpentInvariant /\ [Next]_vars => SpentInvariant'
<1>1. TypeOK => ~Crash /\ \A o \in Obs : ~StageCrash(o)
  BY DEF Crash, StageCrash, TypeOK, RestTyped, Undisturbed
<1>. QED  BY <1>1, SpentStaging, SpentBegin, SpentCompare, SpentPromote, SpentRecheck,
             SpentUpsert, SpentWriteRows, SpentOther DEF Next, Consolidate

\* Each observation is spent at most once, where nothing crashes, expires or overflows.
LEMMA SpentInvariantHolds == ASSUME Undisturbed PROVE Spec => []SpentInvariant
  BY SpentInit, NextSpent, TypeCorrect, PTL DEF Spec

\* One observation supports one record only, as long as nothing crashes, expires
\* or overflows: a row that was merged or promoted is never considered again,
\* whatever is staged and consolidated in between (stage_candidate, _try_promote).
THEOREM BackingIsSingle == ASSUME Undisturbed PROVE Spec => []BacksOneRecord
<1>1. SpentInvariant => BacksOneRecord
  BY DEF SpentInvariant, BackedOnce, BacksOneRecord
<1>. QED  BY <1>1, SpentInvariantHolds, PTL

\* Under the same conditions no observation that counted against a record ever
\* supports another one: it stays under review, and its row is terminal.
THEOREM OppositionIsFinal == ASSUME Undisturbed PROVE Spec => []OppositionNeverBacks
<1>1. TypeOK /\ SpentInvariant => OppositionNeverBacks
  BY DEF SpentInvariant, Spent, OppositionNeverBacks, TypeOK, RestTyped
<1>. QED  BY <1>1, SpentInvariantHolds, TypeCorrect, PTL

-----------------------------------------------------------------------------
(***************************************************************************)
(* The long-term files implement GoldenMemory: every record stands on      *)
(* independent, trustworthy evidence, and its status follows from it.      *)
(***************************************************************************)
-----------------------------------------------------------------------------
\* Arithmetic of the lifecycle thresholds.

LEMMA Product == \A a, b \in Nat : a * b \in Nat /\ a * b >= 0
  OBVIOUS

\* A larger limit times the same evidence is larger.
LEMMA ProductMonotone == \A a, b, c \in Nat : a <= b => a * c <= b * c
<1>. SUFFICES ASSUME NEW a \in Nat, NEW b \in Nat, NEW c \in Nat, a <= b
              PROVE  a * c <= b * c
  OBVIOUS
<1>1. PICK d \in Nat : b = a + d
  <2>1. b - a \in Nat /\ b = a + (b - a)
    OBVIOUS
  <2>. QED  BY <2>1
<1>2. b * c = a * c + d * c
  BY <1>1
<1>. QED  BY <1>2, Product

LEMMA Limits ==
    /\ MaxConflictRatio \in Nat /\ UnderReviewConflictRatio \in Nat
    /\ MaxConflictRatio <= UnderReviewConflictRatio
  BY ConfigAssumption DEF ConfigAssumption, Percent

\* A record without conflicts is below every limit.
LEMMA UnopposedBelow ==
    ASSUME NEW r \in Record, r.conflict = 0, NEW limit \in Nat
    PROVE  ~ConflictRatioAbove(limit, r)
<1>1. r.support + r.conflict \in Nat
  BY DEF Record
<1>. QED  BY <1>1, Product DEF ConflictRatioAbove

\* What is over the limit of review is over the limit of reinstatement.
LEMMA LimitsNested ==
    ASSUME NEW r \in Record, ConflictRatioAbove(UnderReviewConflictRatio, r)
    PROVE  ConflictRatioAbove(MaxConflictRatio, r)
<1>. DEFINE n == r.support + r.conflict
<1>1. n \in Nat /\ r.conflict \in Nat
  BY DEF Record
<1>2. MaxConflictRatio * n <= UnderReviewConflictRatio * n
  BY <1>1, Limits, ProductMonotone
<1>3. 100 * r.conflict > UnderReviewConflictRatio * n
  BY DEF ConflictRatioAbove
<1>4. MaxConflictRatio * n \in Nat /\ UnderReviewConflictRatio * n \in Nat
  BY <1>1, Limits, Product
<1>. QED  BY <1>1, <1>2, <1>3, <1>4 DEF ConflictRatioAbove

-----------------------------------------------------------------------------
\* The lifecycle rule.

\* Doubt and ratio depend on the evidence only, never on the status.
LEMMA EvidenceDecides ==
    ASSUME NEW m \in MemId, NEW r \in Record, NEW s \in RecordStatus, NEW limit
    PROVE  LET t == [r EXCEPT !.status = s]
           IN  /\ LowConfidence(m, t) = LowConfidence(m, r)
               /\ ConflictRatioAbove(limit, t) = ConflictRatioAbove(limit, r)
               /\ t.status = s /\ t.conflict = r.conflict
<1>. DEFINE t == [r EXCEPT !.status = s]
<1>1. /\ t.backers = r.backers /\ t.opponents = r.opponents
      /\ t.support = r.support /\ t.conflict = r.conflict /\ t.status = s
  BY DEF Record
<1>. HIDE DEF t
<1>2. Alpha(m, t) = Alpha(m, r) /\ Beta(m, t) = Beta(m, r)
  BY <1>1 DEF Alpha, Beta
<1>3. LowConfidence(m, t) = LowConfidence(m, r)
  BY <1>2 DEF LowConfidence
<1>4. ConflictRatioAbove(limit, t) = ConflictRatioAbove(limit, r)
  BY <1>1 DEF ConflictRatioAbove
<1>. QED  BY <1>1, <1>3, <1>4 DEF t

\* The rule is stable: applied to its own outcome it changes nothing.
LEMMA LifecycleStable ==
    ASSUME NEW m \in MemId, NEW r \in Record
    PROVE  LET t == LifecycleCheck(m, r) IN LifecycleStatus(m, t) = t.status
<1>. DEFINE s == LifecycleStatus(m, r)
            t == [r EXCEPT !.status = s]
<1>1. s \in RecordStatus /\ r.status \in RecordStatus
  BY LifecycleStatusType DEF Record
<1>2. /\ LowConfidence(m, t) = LowConfidence(m, r)
      /\ ConflictRatioAbove(MaxConflictRatio, t) = ConflictRatioAbove(MaxConflictRatio, r)
      /\ ConflictRatioAbove(UnderReviewConflictRatio, t)
           = ConflictRatioAbove(UnderReviewConflictRatio, r)
      /\ t.status = s /\ t.conflict = r.conflict
  BY <1>1, EvidenceDecides
<1>3. ConflictRatioAbove(UnderReviewConflictRatio, r) => ConflictRatioAbove(MaxConflictRatio, r)
  BY LimitsNested
<1>4. s = LifecycleStatus(m, r)
  OBVIOUS
<1>. HIDE DEF s, t
<1>5. LifecycleStatus(m, t) = t.status
  BY <1>1, <1>2, <1>3, <1>4 DEF LifecycleStatus, Live, RecordStatus
<1>. QED  BY <1>5 DEF LifecycleCheck, s, t

\* A record whose status already follows from its evidence is left alone.
LEMMA LifecycleKeeps ==
    ASSUME NEW m \in MemId, NEW r \in Record, LifecycleStatus(m, r) = r.status
    PROVE  LifecycleCheck(m, r) = r
  BY DEF LifecycleCheck, Record

\* An unopposed record in service stays there.
LEMMA UnopposedActive ==
    ASSUME NEW m \in MemId, NEW r \in Record, r.status = "active", r.conflict = 0
    PROVE  LifecycleStatus(m, r) = "active"
  BY UnopposedBelow, Limits DEF LifecycleStatus

-----------------------------------------------------------------------------
\* The evidence of a record.

\* One more observation, independent of those counted, counts once.
LEMMA IndependentAdds ==
    ASSUME NEW S \in SUBSET Obs, NEW o \in Obs,
           PairwiseIndependent(S), \A p \in S : Independent(o, p)
    PROVE  /\ PairwiseIndependent(S \union {o})
           /\ Cardinality(S \union {o}) = Cardinality(S) + 1
<1>1. o \notin S
  BY DEF Independent
<1>2. IsFiniteSet(S)
  BY ObservationSets
<1>3. Cardinality(S \union {o}) = Cardinality(S) + 1
  BY <1>1, <1>2, FS_AddElement
<1>4. PairwiseIndependent(S \union {o})
  BY DEF PairwiseIndependent, Independent
<1>. QED  BY <1>3, <1>4

\* Merging a trustworthy supporting observation keeps the evidence sound.
LEMMA MergeSound ==
    ASSUME NEW m \in MemId, NEW r, SoundEvidence(m, r),
           NEW o \in Obs, Trustworthy(o)
    PROVE  LET t == MergeSupport(r, o)
           IN  /\ SoundEvidence(m, t)
               /\ t.backers \in {r.backers, r.backers \union {o}}
               /\ t.opponents = r.opponents /\ t.status = r.status
<1>. DEFINE t == MergeSupport(r, o)
<1>1. r \in Record /\ t \in Record
  BY EvidenceType DEF SoundEvidence
<1>2. CASE Corroborates(o, r)
  <2>1. /\ t.backers = r.backers \union {o} /\ t.opponents = r.opponents
        /\ t.support = r.support + 1 /\ t.conflict = r.conflict /\ t.status = r.status
    BY <1>1, <1>2 DEF MergeSupport, Record
  <2>2. /\ PairwiseIndependent(t.backers)
        /\ Cardinality(t.backers) = Cardinality(r.backers) + 1
        /\ Cardinality(r.backers) \in Nat
    BY <1>1, <1>2, <2>1, IndependentAdds, ObservationSets
       DEF SoundEvidence, Counted, Corroborates, Record
  <2>3. BaseSupport(m) \in Nat
    BY MemoryAssumption DEF BaseSupport, MemoryAssumption
  <2>4. Counted(m, t)
    BY <1>1, <2>1, <2>2, <2>3 DEF SoundEvidence, Counted
  <2>. QED  BY <1>1, <2>1, <2>4 DEF SoundEvidence
<1>3. CASE ~Corroborates(o, r)
  BY <1>3 DEF MergeSupport
<1>. QED  BY <1>2, <1>3

\* Counting a trustworthy contradiction keeps the evidence sound.
LEMMA ConflictSound ==
    ASSUME NEW m \in MemId, NEW r, SoundEvidence(m, r), Live(r),
           NEW o \in Obs, Trustworthy(o), Relate(o, m) = "contradicts"
    PROVE  LET t == ApplyConflict(r, o)
           IN  /\ SoundEvidence(m, t)
               /\ t.opponents \in {r.opponents, r.opponents \union {o}}
               /\ t.backers = r.backers /\ Live(t)
<1>. DEFINE t == ApplyConflict(r, o)
<1>1. r \in Record /\ t \in Record
  BY EvidenceType DEF SoundEvidence
<1>2. CASE Opposes(o, r)
  <2>. DEFINE s == [r EXCEPT !.opponents = @ \union {o}, !.conflict = @ + 1]
  <2>1. /\ s.backers = r.backers /\ s.opponents = r.opponents \union {o}
        /\ s.support = r.support /\ s.conflict = r.conflict + 1 /\ s.status = r.status
    BY <1>1 DEF Record
  <2>2. t = IF s.status = "active" /\ ConflictRatioAbove(UnderReviewConflictRatio, s)
            THEN [s EXCEPT !.status = "under_review"] ELSE s
    BY <1>2 DEF ApplyConflict
  <2>3. s \in Record
    <3>1. [r EXCEPT !.opponents = @ \union {o}] \in Record
      BY <1>1, RecordFields DEF Record
    <3>2. r.conflict + 1 \in Nat
      BY <1>1 DEF Record
    <3>. QED  BY <3>1, <3>2, RecordFields
  <2>. HIDE DEF s, t
  <2>4. /\ t.backers = r.backers /\ t.opponents = r.opponents \union {o}
        /\ t.support = r.support /\ t.conflict = r.conflict + 1 /\ Live(t)
    BY <1>1, <2>1, <2>2, <2>3 DEF Record, Live
  <2>5. /\ PairwiseIndependent(t.opponents)
        /\ Cardinality(t.opponents) = Cardinality(r.opponents) + 1
        /\ Cardinality(r.opponents) \in Nat
    BY <1>1, <1>2, <2>4, IndependentAdds, ObservationSets
       DEF SoundEvidence, Counted, Opposes, Record
  <2>6. Counted(m, t)
    BY <1>1, <2>4, <2>5 DEF SoundEvidence, Counted
  <2>7. t \in Record
    BY <1>1 DEF t
  <2>8. SoundEvidence(m, t)
    BY <2>4, <2>6, <2>7 DEF SoundEvidence
  <2>. QED  BY <2>4, <2>8 DEF t
<1>3. CASE ~Opposes(o, r)
  BY <1>3 DEF ApplyConflict
<1>. QED  BY <1>2, <1>3

\* In an order that compares any two rows, an independent selection is
\* pairwise independent.
LEMMA SelectionIndependent ==
    ASSUME NEW S, NEW picked, NEW before, TotalOn(S, before),
           IsIndependentSelection(picked, S, before)
    PROVE  picked \subseteq S /\ PairwiseIndependent(picked)
  BY DEF IsIndependentSelection, PairwiseIndependent, TotalOn, Independent

\* A promoted record stands on sound evidence and stays in service.
LEMMA PromotedSound ==
    ASSUME NEW m \in MemId \ Seed, NEW picked \in SUBSET Obs,
           PairwiseIndependent(picked), \A o \in picked : Trustworthy(o)
    PROVE  /\ Sound(m, Promoted(picked))
           /\ Promoted(picked).status = "active"
           /\ Promoted(picked).opponents = {} /\ Promoted(picked).backers = picked
<1>. DEFINE t == Promoted(picked)
<1>1. /\ t.status = "active" /\ t.backers = picked /\ t.opponents = {}
      /\ t.support = Cardinality(picked) /\ t.conflict = 0 /\ t \in Record
  BY NewRecordType DEF Promoted
<1>. HIDE DEF t
<1>2. Cardinality({}) = 0 /\ Cardinality(picked) \in Nat
  BY FS_EmptySet, ObservationSets
<1>3. Counted(m, t)
  BY <1>1, <1>2 DEF Counted, PairwiseIndependent, BaseSupport
<1>4. SoundEvidence(m, t)
  BY <1>1, <1>3 DEF SoundEvidence
<1>5. LifecycleStatus(m, t) = t.status
  BY <1>1, UnopposedActive
<1>. QED  BY <1>1, <1>4, <1>5 DEF Sound, t

\* The records that are there to begin with are sound.
LEMMA InitialSound ==
    ASSUME NEW m \in MemId
    PROVE  /\ Sound(m, InitialRecord(m))
           /\ m \in Seed <=> InitialRecord(m).status # "absent"
           /\ m \notin Seed => InitialRecord(m) = NoRecord
<1>. DEFINE t == InitialRecord(m)
<1>1. /\ t.backers = {} /\ t.opponents = {} /\ t.support = BaseSupport(m)
      /\ t.conflict = 0 /\ t.status = (IF m \in Seed THEN "active" ELSE "absent")
      /\ t \in Record
  BY NewRecordType DEF InitialRecord, SeedRecord, NoRecord, BaseSupport
<1>. HIDE DEF t
<1>2. BaseSupport(m) \in Nat /\ Cardinality({}) = 0
  BY MemoryAssumption, FS_EmptySet DEF BaseSupport, MemoryAssumption
<1>3. Counted(m, t)
  BY <1>1, <1>2 DEF Counted, PairwiseIndependent
<1>4. SoundEvidence(m, t)
  BY <1>1, <1>3 DEF SoundEvidence
<1>5. LifecycleStatus(m, t) = t.status
  BY <1>1, UnopposedActive DEF LifecycleStatus, Live
<1>6. m \notin Seed => t = NoRecord
  BY DEF InitialRecord, t
<1>. QED  BY <1>1, <1>4, <1>5, <1>6 DEF Sound, t

-----------------------------------------------------------------------------
\* The invariant holds initially.

LEMMA InitGolden == Init => GoldenInvariant
<1>. SUFFICES ASSUME Init PROVE GoldenInvariant
  OBVIOUS
<1>1. TypeOK
  BY InitTypeOK
<1>2. MemorySound
  BY InitialSound DEF Init, MemorySound
<1>3. EvidenceTrusted
  BY DEF Init, EvidenceTrusted, RowTrusted, CandidateTrusted, NoRow, NoCandidate, TotalOn,
         Rows
<1>4. CopiesSound /\ RecordsGather /\ RecordsEvolve
  BY DEF Init, CopiesSound, RecordsGather, RecordsEvolve, Rows, NoRow
<1>. QED  BY <1>1, <1>2, <1>3, <1>4 DEF GoldenInvariant

-----------------------------------------------------------------------------
\* Verification and staging.

\* No verdict but "verified" needs trust, and a named record is contradicted.
LEMMA VerdictTrusted ==
    ASSUME NEW o \in Obs, NEW v \in Verdicts(o)
    PROVE  CandidateTrusted(o, v)
<1>1. Observation[o] \in ObservationType
  BY MemoryAssumption DEF MemoryAssumption
<1>2. v.verdict = "verified" => Trustworthy(o)
  BY <1>1, ConfigAssumption DEF Verdicts, Verdict, NoCandidate, Trustworthy, ObservationType,
          ConfigAssumption, Percent
<1>3. v.target # NoMem => Relate(o, v.target) = "contradicts"
  BY DEF Verdicts, Verdict, NoCandidate, Contradicted
<1>. QED  BY <1>2, <1>3 DEF CandidateTrusted

LEMMA VerifyGolden ==
    ASSUME GoldenInvariant, NEW o \in Obs, Verify(o) PROVE GoldenInvariant'
<1>1. TypeOK'
  BY VerifyTypeOK DEF GoldenInvariant
<1>2. EvidenceTrusted'
  BY VerdictTrusted
     DEF GoldenInvariant, EvidenceTrusted, Verify, files, TypeOK, RestTyped, Rows
<1>3. (MemorySound /\ CopiesSound /\ RecordsGather /\ RecordsEvolve)'
  BY DEF GoldenInvariant, MemorySound, CopiesSound, RecordsGather, RecordsEvolve, Verify,
         files, work, Rows
<1>. QED  BY <1>1, <1>2, <1>3 DEF GoldenInvariant

\* A row that is staged is trusted.
LEMMA StagedTrusted ==
    ASSUME GoldenInvariant, NEW o \in Obs, cand[o].verdict # "none"
    PROVE  \A p \in Obs : RowTrusted(p, WithStaged(o)[p])
<1>1. RowTrusted(o, StagedRow(o))
  BY DEF GoldenInvariant, EvidenceTrusted, CandidateTrusted, RowTrusted, StagedRow, TypeOK,
         RestTyped, Candidate
<1>. QED  BY <1>1 DEF GoldenInvariant, EvidenceTrusted, WithStaged, TypeOK, FilesTyped,
                      RowsType

\* The order stays total when a row is appended, and when rows are sorted.
LEMMA StagedOrdered ==
    ASSUME GoldenInvariant, NEW o \in Obs, cand[o].verdict # "none"
    PROVE  TotalOn(Rows(WithStaged(o)), OrderWith(o))
  BY DEF GoldenInvariant, EvidenceTrusted, TypeOK, FilesTyped, RowsType, TotalOn, Rows,
         WithStaged, OrderWith

LEMMA SortedOrdered ==
    ASSUME NEW rows \in RowsType, NEW before, TotalOn(Rows(rows), before)
    PROVE  TotalOn(Rows(rows), SortedByAge(rows, before))
<1>. SUFFICES ASSUME NEW o \in Rows(rows), NEW p \in Rows(rows), o # p
              PROVE  <<o, p>> \in SortedByAge(rows, before)
                     \/ <<p, o>> \in SortedByAge(rows, before)
  BY DEF TotalOn
<1>1. rows[o].stagedAt \in Nat /\ rows[p].stagedAt \in Nat
  BY DEF Rows, RowsType, Row
<1>2. <<o, p>> \in before \/ <<p, o>> \in before
  BY DEF TotalOn
<1>. QED  BY <1>1, <1>2 DEF SortedByAge

LEMMA WriteRowsGolden ==
    ASSUME NEW rows \in RowsType, NEW before, NEW dropped \in SUBSET Obs,
           TotalOn(Rows(rows), before), \A p \in Obs : RowTrusted(p, rows[p]),
           WriteRows(rows, before, dropped)
    PROVE  /\ \A p \in Obs : RowTrusted(p, stm'[p])
           /\ TotalOn(Rows(stm'), order')
<1>1. \A p \in Obs : RowTrusted(p, stm'[p])
  BY DEF WriteRows, RowTrusted, NoRow
<1>2. Rows(stm') = Rows(rows) \ dropped
  BY DEF WriteRows, Rows, NoRow
<1>3. CASE dropped = {}
  BY <1>2, <1>3 DEF WriteRows, TotalOn
<1>4. CASE dropped # {}
  <2>1. TotalOn(Rows(rows), SortedByAge(rows, before))
    BY SortedOrdered
  <2>2. order' = SortedByAge(rows, before) \cap ((Obs \ dropped) \X (Obs \ dropped))
    BY <1>4 DEF WriteRows, Among
  <2>3. Rows(stm') \subseteq Rows(rows) \cap (Obs \ dropped)
    BY <1>2 DEF Rows
  <2>4. ASSUME NEW o \in Rows(stm'), NEW p \in Rows(stm'), o # p
        PROVE  <<o, p>> \in order' \/ <<p, o>> \in order'
    <3>1. <<o, p>> \in SortedByAge(rows, before) \/ <<p, o>> \in SortedByAge(rows, before)
      BY <2>1, <2>3, <2>4 DEF TotalOn
    <3>2. o \in Obs \ dropped /\ p \in Obs \ dropped
      BY <2>3
    <3>. QED  BY <2>2, <3>1, <3>2
  <2>. QED  BY <1>1, <2>4 DEF TotalOn
<1>. QED  BY <1>1, <1>3, <1>4

LEMMA StageGolden ==
    ASSUME GoldenInvariant, NEW o \in Obs, StageCandidate(o) PROVE GoldenInvariant'
<1>1. TypeOK'
  BY StageTypeOK DEF GoldenInvariant
<1>2. \A p \in Obs : CandidateTrusted(p, cand'[p])
  BY DEF GoldenInvariant, EvidenceTrusted, StageCandidate, TypeOK, RestTyped,
         CandidateTrusted, NoCandidate
<1>3. (\A p \in Obs : RowTrusted(p, stm'[p])) /\ TotalOn(Rows(stm'), order')
  <2>1. CASE Terminal(stm[o])
    BY <2>1 DEF GoldenInvariant, EvidenceTrusted, StageCandidate
  <2>2. CASE ~Terminal(stm[o])
    BY <2>2, StagedTrusted, StagedOrdered, StagingTypes, WriteRowsGolden
       DEF GoldenInvariant, StageCandidate
  <2>. QED  BY <2>1, <2>2
<1>4. EvidenceTrusted'
  BY <1>2, <1>3 DEF EvidenceTrusted
<1>5. (MemorySound /\ CopiesSound /\ RecordsGather /\ RecordsEvolve)'
  BY DEF GoldenInvariant, MemorySound, CopiesSound, RecordsGather, RecordsEvolve,
         StageCandidate, work
<1>. QED  BY <1>1, <1>4, <1>5 DEF GoldenInvariant

LEMMA StageCrashGolden ==
    ASSUME GoldenInvariant, NEW o \in Obs, StageCrash(o) PROVE GoldenInvariant'
<1>1. TypeOK'
  BY StageCrashTypeOK DEF GoldenInvariant
<1>2. EvidenceTrusted'
  BY DEF GoldenInvariant, EvidenceTrusted, StageCrash, TypeOK, RestTyped, CandidateTrusted,
         NoCandidate, Rows
<1>3. (MemorySound /\ CopiesSound /\ RecordsGather /\ RecordsEvolve)'
  BY DEF GoldenInvariant, MemorySound, CopiesSound, RecordsGather, RecordsEvolve,
         StageCrash, work
<1>. QED  BY <1>1, <1>2, <1>3 DEF GoldenInvariant

-----------------------------------------------------------------------------
\* A run begins, and compares rows with records.

LEMMA BeginGolden ==
    ASSUME GoldenInvariant, BeginConsolidation PROVE GoldenInvariant'
<1>1. TypeOK'
  BY BeginTypeOK DEF GoldenInvariant
<1>2. MemorySound' /\ EvidenceTrusted'
  BY DEF GoldenInvariant, MemorySound, EvidenceTrusted, BeginConsolidation, files, Rows
<1>3. \A o \in Obs : /\ RowTrusted(o, wstm'[o])
                     /\ wstm'[o].status = "absent" <=> stm[o].status = "absent"
  BY DEF GoldenInvariant, EvidenceTrusted, BeginConsolidation, Expired, RowTrusted,
         TypeOK, FilesTyped, RowsType, Row
<1>4. \A o \in todo' \union unassigned' : o \in Rows(stm) /\ Trustworthy(o)
  BY DEF GoldenInvariant, CopiesSound, EvidenceTrusted, BeginConsolidation, Actionable,
         RowTrusted, Rows
<1>5. CopiesSound'
  BY <1>3, <1>4 DEF CopiesSound, BeginConsolidation, files, Rows
<1>6. RecordsGather' /\ RecordsEvolve'
  BY DEF RecordsGather, RecordsEvolve, BeginConsolidation, files
<1>. QED  BY <1>1, <1>2, <1>5, <1>6 DEF GoldenInvariant

\* What a record in service gains is sound, whether a copy or not.
LEMMA GatheredSound ==
    ASSUME GoldenInvariant, pc = "consolidate", NEW m \in MemId
    PROVE  SoundEvidence(m, wltm[m])
  BY DEF GoldenInvariant, MemorySound, Sound, RecordsGather, Gathers

\* While rows are left to compare, a record in service was so in the file.
LEMMA GatheredLive ==
    ASSUME GoldenInvariant, pc = "consolidate", todo # {}, NEW m \in MemId, Live(wltm[m])
    PROVE  /\ Live(ltm[m])
           /\ ltm[m].backers \subseteq wltm[m].backers
           /\ ltm[m].opponents \subseteq wltm[m].opponents
           /\ \A o \in wltm[m].backers \ ltm[m].backers : Relate(o, m) \in Supporting
  BY DEF GoldenInvariant, RecordsGather, Gathers, Reassessed, Live

\* The record that a row is merged into or conflicts with gathers evidence.
LEMMA CompareRecord ==
    ASSUME GoldenInvariant, NEW o \in Obs, CompareWithMemory(o), NEW m \in MemId,
           MergeIntoMemory(o, m) \/ ConflictWithMemory(o, m)
    PROVE  Live(ltm[m]) /\ Gathers(m, ltm[m], wltm'[m])
           /\ \A n \in MemId \ {m} : wltm'[n] = wltm[n]
<1>1. pc = "consolidate" /\ o \in todo /\ todo # {} /\ Trustworthy(o)
  BY DEF GoldenInvariant, CopiesSound, CompareWithMemory, FirstOf
<1>2. SoundEvidence(m, wltm[m])
  BY <1>1, GatheredSound
<1>3. \A n \in MemId \ {m} : wltm'[n] = wltm[n]
  BY DEF GoldenInvariant, TypeOK, WorkTyped, RecordsType, MergeIntoMemory,
         ConflictWithMemory
<1>4. CASE MergeIntoMemory(o, m)
  <2>1. Live(wltm[m]) /\ Relate(o, m) \in Supporting /\ wltm'[m] = MergeSupport(wltm[m], o)
    BY <1>4 DEF MergeIntoMemory, Closest, Related, GoldenInvariant, TypeOK, WorkTyped,
                RecordsType
  <2>2. /\ SoundEvidence(m, wltm'[m])
        /\ wltm'[m].backers \in {wltm[m].backers, wltm[m].backers \union {o}}
        /\ wltm'[m].opponents = wltm[m].opponents /\ wltm'[m].status = wltm[m].status
    BY <1>1, <1>2, <2>1, MergeSound
  <2>. QED  BY <1>1, <1>3, <2>1, <2>2, GatheredLive DEF Gathers, Reassessed, Live
<1>5. CASE ConflictWithMemory(o, m)
  <2>1. Live(wltm[m]) /\ Relate(o, m) = "contradicts" /\ wltm'[m] = ApplyConflict(wltm[m], o)
    BY <1>5 DEF ConflictWithMemory, DeclaredConflict, Closest, Related, GoldenInvariant,
                EvidenceTrusted, RowTrusted, TypeOK, WorkTyped, RecordsType
  <2>2. /\ SoundEvidence(m, wltm'[m])
        /\ wltm'[m].opponents \in {wltm[m].opponents, wltm[m].opponents \union {o}}
        /\ wltm'[m].backers = wltm[m].backers /\ Live(wltm'[m])
    BY <1>1, <1>2, <2>1, ConflictSound
  <2>. QED  BY <1>1, <1>3, <2>1, <2>2, GatheredLive DEF Gathers, Reassessed, Live
<1>. QED  BY <1>4, <1>5

LEMMA CompareGolden ==
    ASSUME GoldenInvariant, NEW o \in Obs, CompareWithMemory(o) PROVE GoldenInvariant'
<1>1. TypeOK'
  BY CompareTypeOK DEF GoldenInvariant
<1>2. MemorySound' /\ EvidenceTrusted' /\ RecordsEvolve'
  BY DEF GoldenInvariant, MemorySound, EvidenceTrusted, RecordsEvolve, CompareWithMemory,
         files, Rows
<1>3. pc = "consolidate" /\ pc' = pc /\ o \in todo /\ todo' = todo \ {o} /\ stm' = stm
  BY DEF CompareWithMemory, FirstOf, files
<1>4. CopiesSound'
  <2>1. \A p \in Obs : /\ RowTrusted(p, wstm'[p])
                       /\ wstm'[p].status # "absent" => stm[p].status # "absent"
    BY <1>3 DEF GoldenInvariant, CopiesSound, CompareWithMemory, MergeIntoMemory,
           ConflictWithMemory, LeaveForClustering, MarkRow, RowTrusted, TypeOK, WorkTyped,
           RowsType, Row, Rows
  <2>2. \A p \in todo' \union unassigned' : p \in Rows(stm) /\ Trustworthy(p)
    BY <1>3 DEF GoldenInvariant, CopiesSound, CompareWithMemory, MergeIntoMemory,
                ConflictWithMemory, LeaveForClustering
  <2>. QED  BY <1>3, <2>1, <2>2 DEF CopiesSound, Rows
<1>5. RecordsGather'
  <2>1. CASE \E m \in MemId : MergeIntoMemory(o, m) \/ ConflictWithMemory(o, m)
    BY <1>3, <2>1, CompareRecord DEF GoldenInvariant, RecordsGather, CompareWithMemory,
                                     files, Live
  <2>2. CASE LeaveForClustering(o)
    BY <1>3, <2>2 DEF GoldenInvariant, RecordsGather, LeaveForClustering,
                      CompareWithMemory, files
  <2>. QED  BY <2>1, <2>2 DEF CompareWithMemory
<1>. QED  BY <1>1, <1>2, <1>4, <1>5 DEF GoldenInvariant

-----------------------------------------------------------------------------
\* Promotion, and the lifecycle re-check.

\* Either nothing is promoted, or one record that the files do not hold is.
LEMMA PromotedRecord ==
    ASSUME GoldenInvariant, NEW seed \in Obs, PromoteCluster(seed)
    PROVE  \/ UNCHANGED <<wltm, wstm, events>>
           \/ \E m \in MemId :
                /\ ltm[m].status = "absent" /\ Gathers(m, ltm[m], wltm'[m])
                /\ \A n \in MemId \ {m} : wltm'[n] = wltm[n]
                /\ \A p \in Obs : \/ wstm'[p] = wstm[p]
                                  \/ /\ p \in unassigned
                                     /\ wstm'[p] = [wstm[p] EXCEPT !.status = "promoted",
                                                                   !.promotedTo = m]
<1>. DEFINE cluster == ClusterOf(seed)
<1>1. /\ cluster \subseteq unassigned /\ cluster \in SUBSET Obs
      /\ pc = "consolidate" /\ TryPromote(cluster)
  BY DEF ClusterOf, GoldenInvariant, TypeOK, WorkTyped, PromoteCluster
<1>. HIDE DEF cluster
<1>2. PICK picked \in SUBSET cluster, rep \in cluster :
        /\ IsIndependentSelection(picked, cluster, order)
        /\ \/ UNCHANGED <<wltm, wstm, events>>
           \/ /\ PromotionThresholdsMet(picked, rep)
              /\ wltm[IdOf[StatementOf(rep)]].status = "absent"
              /\ wltm' = [wltm EXCEPT ![IdOf[StatementOf(rep)]] = Promoted(picked)]
              /\ wstm' = [o \in Obs |->
                            IF o \in cluster
                            THEN [wstm[o] EXCEPT !.status = "promoted",
                                                 !.promotedTo = IdOf[StatementOf(rep)]]
                            ELSE wstm[o]]
  BY <1>1 DEF TryPromote
<1>. DEFINE m == IdOf[StatementOf(rep)]
<1>3. m \in MemId \ Seed /\ TypeOf(m) = FileOf[StatementOf(rep)]
  BY <1>1, MemoryAssumption DEF MemoryAssumption, StatementOf, ObservationType, TypeOf
<1>. HIDE DEF m
<1>4. SUFFICES ASSUME /\ PromotionThresholdsMet(picked, rep)
                      /\ wltm[m].status = "absent"
                      /\ wltm' = [wltm EXCEPT ![m] = Promoted(picked)]
                      /\ wstm' = [o \in Obs |->
                                    IF o \in cluster
                                    THEN [wstm[o] EXCEPT !.status = "promoted",
                                                         !.promotedTo = m]
                                    ELSE wstm[o]]
               PROVE  /\ ltm[m].status = "absent" /\ Gathers(m, ltm[m], wltm'[m])
                      /\ \A n \in MemId \ {m} : wltm'[n] = wltm[n]
                      /\ \A p \in Obs : \/ wstm'[p] = wstm[p]
                                        \/ /\ p \in unassigned
                                           /\ wstm'[p] =
                                                [wstm[p] EXCEPT !.status = "promoted",
                                                                !.promotedTo = m]
  BY <1>2, <1>3 DEF m
<1>5. ltm[m].status = "absent"
  BY <1>1, <1>3, <1>4 DEF GoldenInvariant, RecordsGather, Gathers, Admitted, Reassessed
<1>6. PairwiseIndependent(picked)
  <2>1. TotalOn(cluster, order)
    BY <1>1 DEF GoldenInvariant, EvidenceTrusted, CopiesSound, TotalOn
  <2>. QED  BY <1>2, <2>1, SelectionIndependent
<1>7. \A o \in picked : Trustworthy(o)
  BY <1>1, <1>2 DEF GoldenInvariant, CopiesSound
<1>8. /\ Sound(m, Promoted(picked)) /\ Promoted(picked).status = "active"
      /\ Promoted(picked).opponents = {} /\ Promoted(picked).backers = picked
  BY <1>1, <1>3, <1>6, <1>7, PromotedSound
<1>9. Cardinality(picked) >= MinDistinctSources[TypeOf(m)]
  BY <1>3, <1>4 DEF PromotionThresholdsMet
<1>10. wltm'[m] = Promoted(picked) /\ \A n \in MemId \ {m} : wltm'[n] = wltm[n]
  BY <1>3, <1>4 DEF GoldenInvariant, TypeOK, WorkTyped, RecordsType
<1>11. Gathers(m, ltm[m], wltm'[m])
  BY <1>3, <1>5, <1>8, <1>9, <1>10 DEF Gathers, Admitted, Sound
<1>. QED  BY <1>1, <1>4, <1>5, <1>10, <1>11

LEMMA PromoteGolden ==
    ASSUME GoldenInvariant, NEW seed \in Obs, PromoteCluster(seed) PROVE GoldenInvariant'
<1>1. TypeOK'
  BY PromoteTypeOK DEF GoldenInvariant
<1>2. MemorySound' /\ EvidenceTrusted' /\ RecordsEvolve'
  BY DEF GoldenInvariant, MemorySound, EvidenceTrusted, RecordsEvolve, PromoteCluster,
         files, Rows
<1>3. /\ pc = "consolidate" /\ pc' = pc /\ todo = {} /\ todo' = {} /\ stm' = stm
      /\ ltm' = ltm /\ unassigned' \subseteq unassigned
  BY DEF PromoteCluster, files
<1>4. CopiesSound'
  <2>1. \A p \in Obs : /\ RowTrusted(p, wstm'[p])
                       /\ wstm'[p].status # "absent" => stm[p].status # "absent"
    <3>1. \A p \in Obs : /\ RowTrusted(p, wstm[p])
                         /\ wstm[p].status # "absent" => stm[p].status # "absent"
                         /\ p \in unassigned => stm[p].status # "absent"
                         /\ wstm[p] \in Row
      BY <1>3 DEF GoldenInvariant, CopiesSound, Rows, TypeOK, WorkTyped, RowsType
    <3>2. \A row \in Row, m \in MemId :
            LET t == [row EXCEPT !.status = "promoted", !.promotedTo = m]
            IN  t.status = "promoted" /\ t.target = row.target
      BY DEF Row
    <3>3. ASSUME NEW p \in Obs, NEW m \in MemId, p \in unassigned,
                 wstm'[p] = [wstm[p] EXCEPT !.status = "promoted", !.promotedTo = m]
          PROVE  RowTrusted(p, wstm'[p]) /\ stm[p].status # "absent"
      BY <3>1, <3>2, <3>3 DEF RowTrusted
    <3>. QED  BY <3>1, <3>3, PromotedRecord
  <2>2. \A p \in todo' \union unassigned' : p \in Rows(stm) /\ Trustworthy(p)
    BY <1>3 DEF GoldenInvariant, CopiesSound
  <2>. QED  BY <1>3, <2>1, <2>2 DEF CopiesSound, Rows
<1>5. RecordsGather'
  BY <1>3, PromotedRecord DEF GoldenInvariant, RecordsGather
<1>. QED  BY <1>1, <1>2, <1>4, <1>5 DEF GoldenInvariant

\* What gathered sound evidence evolves once its status is checked.
LEMMA RecheckEvolves ==
    ASSUME NEW m \in MemId, NEW old \in Record, NEW new, Gathers(m, old, new)
    PROVE  Evolves(m, old, LifecycleCheck(m, new))
<1>. DEFINE t == LifecycleCheck(m, new)
<1>1. new \in Record /\ t \in Record
  BY LifecycleCheckType DEF Gathers, SoundEvidence
<1>2. /\ t.backers = new.backers /\ t.opponents = new.opponents
      /\ t.support = new.support /\ t.conflict = new.conflict
      /\ t.status = LifecycleStatus(m, new)
  BY <1>1 DEF LifecycleCheck, Record
<1>3. LifecycleStatus(m, t) = t.status
  BY <1>1, LifecycleStable
<1>. HIDE DEF t
<1>4. Sound(m, t)
  BY <1>1, <1>2, <1>3 DEF Gathers, Sound, SoundEvidence, Counted
<1>5. CASE old.status = "absent"
  <2>1. new.status = "active" /\ new.conflict = 0
    BY <1>5, FS_EmptySet DEF Gathers, Admitted, SoundEvidence, Counted
  <2>2. t.status = "active"
    BY <1>1, <1>2, <2>1, UnopposedActive
  <2>. QED  BY <1>2, <1>4, <1>5, <2>2 DEF Gathers, Evolves, Admitted, t
<1>6. CASE old.status # "absent"
  <2>1. t.status # "absent"
    BY <1>2, <1>6 DEF Gathers, Reassessed, LifecycleStatus
  <2>. QED  BY <1>2, <1>4, <1>6, <2>1 DEF Gathers, Evolves, Reassessed, t
<1>. QED  BY <1>5, <1>6

LEMMA RecheckGolden ==
    ASSUME GoldenInvariant, RecheckLifecycle PROVE GoldenInvariant'
<1>1. TypeOK'
  BY RecheckTypeOK DEF GoldenInvariant
<1>2. MemorySound' /\ EvidenceTrusted' /\ CopiesSound' /\ RecordsGather'
  BY DEF GoldenInvariant, MemorySound, EvidenceTrusted, CopiesSound, RecordsGather,
         RecheckLifecycle, files, Rows
<1>3. ASSUME NEW m \in MemId
      PROVE  wltm'[m] = ltm[m] \/ Evolves(m, ltm[m], wltm'[m])
  <2>1. wltm'[m] = LifecycleCheck(m, wltm[m]) /\ ltm[m] \in Record
    BY DEF RecheckLifecycle, GoldenInvariant, TypeOK, FilesTyped, RecordsType
  <2>2. CASE wltm[m] = ltm[m]
    BY <2>1, <2>2, LifecycleKeeps DEF GoldenInvariant, MemorySound, Sound
  <2>3. CASE Gathers(m, ltm[m], wltm[m])
    BY <2>1, <2>3, RecheckEvolves
  <2>. QED  BY <2>2, <2>3 DEF GoldenInvariant, RecordsGather, RecheckLifecycle
<1>4. RecordsEvolve'
  BY <1>3 DEF RecordsEvolve, RecheckLifecycle, files
<1>. QED  BY <1>1, <1>2, <1>4 DEF GoldenInvariant

-----------------------------------------------------------------------------
\* The write phase, and the end of a run.

\* What evolved is sound.
LEMMA EvolvedSound ==
    ASSUME GoldenInvariant, pc \notin {"idle", "consolidate"}, NEW m \in MemId
    PROVE  /\ Sound(m, wltm[m])
           /\ m \in Seed => wltm[m].status # "absent"
           /\ wltm[m].status = "absent" => wltm[m] = NoRecord
  BY DEF GoldenInvariant, MemorySound, RecordsEvolve, Evolves, Reassessed, Admitted

LEMMA UpsertGolden ==
    ASSUME GoldenInvariant, NEW file \in MemoryType, UpsertLongTerm(file)
    PROVE  GoldenInvariant'
<1>1. TypeOK'
  BY UpsertTypeOK DEF GoldenInvariant
<1>2. /\ pc = "write_ltm" /\ pc' = pc /\ wltm' = wltm
      /\ \A m \in MemId : ltm'[m] \in {wltm[m], ltm[m]}
  BY DEF UpsertLongTerm, work
<1>3. MemorySound'
  BY <1>2, EvolvedSound DEF GoldenInvariant, MemorySound
<1>4. EvidenceTrusted' /\ CopiesSound' /\ RecordsGather'
  BY <1>2 DEF GoldenInvariant, EvidenceTrusted, CopiesSound, RecordsGather, UpsertLongTerm,
              work, Rows
<1>5. RecordsEvolve'
  BY <1>2 DEF GoldenInvariant, RecordsEvolve
<1>. QED  BY <1>1, <1>3, <1>4, <1>5 DEF GoldenInvariant

LEMMA WriteShortTermGolden ==
    ASSUME GoldenInvariant, WriteShortTerm PROVE GoldenInvariant'
<1>1. TypeOK'
  BY WriteShortTermTypeOK DEF GoldenInvariant
<1>2. PICK gone \in SUBSET Obs :
        /\ stm' = [o \in Obs |-> IF o \in gone THEN NoRow ELSE wstm[o]]
        /\ order' = Among(Obs \ gone, order)
  <2>. DEFINE gone == IF ArchiveExpired /\ NewlyExpired # {}
                      THEN {o \in Obs : wstm[o].status = "expired"} ELSE {}
  <2>. QED  BY gone \in SUBSET Obs DEF WriteShortTerm
<1>3. /\ pc = "write_stm" /\ pc' = "log" /\ ltm' = ltm /\ wltm' = wltm /\ wstm' = wstm
      /\ cand' = cand
  BY DEF WriteShortTerm, work
<1>4. \A o \in Obs : RowTrusted(o, stm'[o])
  BY <1>2, <1>3 DEF GoldenInvariant, CopiesSound, RowTrusted, NoRow
<1>5. ASSUME NEW o \in Rows(stm'), NEW p \in Rows(stm'), o # p
      PROVE  <<o, p>> \in order' \/ <<p, o>> \in order'
  <2>1. o \in Rows(wstm) \ gone /\ p \in Rows(wstm) \ gone
    BY <1>2 DEF Rows, NoRow
  <2>2. o \in Rows(stm) /\ p \in Rows(stm)
    BY <1>3, <2>1 DEF GoldenInvariant, CopiesSound
  <2>3. <<o, p>> \in order \/ <<p, o>> \in order
    BY <1>5, <2>2 DEF GoldenInvariant, EvidenceTrusted, TotalOn
  <2>4. o \in Obs \ gone /\ p \in Obs \ gone
    BY <2>1 DEF Rows
  <2>. QED  BY <1>2, <2>3, <2>4 DEF Among
<1>6. TotalOn(Rows(stm'), order')
  BY <1>5 DEF TotalOn
<1>7. EvidenceTrusted'
  BY <1>3, <1>4, <1>6 DEF GoldenInvariant, EvidenceTrusted
<1>8. CopiesSound'
  BY <1>3 DEF GoldenInvariant, CopiesSound
<1>9. MemorySound' /\ RecordsGather' /\ RecordsEvolve'
  BY <1>3 DEF GoldenInvariant, MemorySound, RecordsGather, RecordsEvolve
<1>. QED  BY <1>1, <1>7, <1>8, <1>9 DEF GoldenInvariant

\* Archiving, and the end of writing a file, only move the run on.
LEMMA MoveOnGolden ==
    ASSUME GoldenInvariant, ArchiveDeprecated \/ LongTermWritten \/ ArchiveExpiredRows
    PROVE  GoldenInvariant'
<1>1. TypeOK'
  BY ArchiveDeprecatedTypeOK, OtherTypeOK, ArchiveRowsTypeOK DEF GoldenInvariant
<1>2. /\ pc \in {"archive_ltm", "write_ltm", "archive_stm"}
      /\ pc' \in {"write_ltm", "archive_stm", "write_stm"}
      /\ UNCHANGED <<stm, order, ltm, cand, work>>
  BY DEF ArchiveDeprecated, LongTermWritten, ArchiveExpiredRows, files
<1>3. MemorySound' /\ EvidenceTrusted'
  BY <1>2 DEF GoldenInvariant, MemorySound, EvidenceTrusted, Rows
<1>4. CopiesSound'
  BY <1>2 DEF GoldenInvariant, CopiesSound, work, Rows
<1>5. RecordsGather' /\ RecordsEvolve'
  BY <1>2 DEF GoldenInvariant, RecordsGather, RecordsEvolve, work
<1>. QED  BY <1>1, <1>3, <1>4, <1>5 DEF GoldenInvariant

LEMMA EndGolden ==
    ASSUME GoldenInvariant, AppendEvents \/ FinishDryRun \/ Crash PROVE GoldenInvariant'
<1>1. TypeOK'
  BY EndTypeOK DEF GoldenInvariant
<1>2. /\ pc' = "idle" /\ unassigned' = {} /\ UNCHANGED <<stm, order, ltm, cand>>
  BY DEF AppendEvents, FinishDryRun, Crash, ForgetCopies, files
<1>3. MemorySound' /\ EvidenceTrusted'
  BY <1>2 DEF GoldenInvariant, MemorySound, EvidenceTrusted, Rows
<1>4. CopiesSound' /\ RecordsGather' /\ RecordsEvolve'
  BY <1>2 DEF CopiesSound, RecordsGather, RecordsEvolve
<1>. QED  BY <1>1, <1>3, <1>4 DEF GoldenInvariant

LEMMA IdleGolden ==
    ASSUME GoldenInvariant, Tick \/ UNCHANGED vars PROVE GoldenInvariant'
<1>1. TypeOK'
  BY OtherTypeOK DEF GoldenInvariant
<1>2. UNCHANGED <<stm, order, ltm, cand, pc, work>>
  BY DEF Tick, vars, files
<1>3. MemorySound' /\ EvidenceTrusted'
  BY <1>2 DEF GoldenInvariant, MemorySound, EvidenceTrusted, Rows
<1>4. CopiesSound' /\ RecordsGather' /\ RecordsEvolve'
  BY <1>2 DEF GoldenInvariant, CopiesSound, RecordsGather, RecordsEvolve, work, Rows
<1>. QED  BY <1>1, <1>3, <1>4 DEF GoldenInvariant

-----------------------------------------------------------------------------
\* The theorems.

LEMMA NextGolden == GoldenInvariant /\ [Next]_vars => GoldenInvariant'
  BY VerifyGolden, StageGolden, StageCrashGolden, BeginGolden, CompareGolden,
     PromoteGolden, RecheckGolden, UpsertGolden, WriteShortTermGolden, MoveOnGolden,
     EndGolden, IdleGolden
     DEF Next, Consolidate

\* In every reachable state the records of the files are sound, what may become
\* evidence is trusted, and the copies of a run descend soundly from the files.
THEOREM GoldenInvariantHolds == Spec => []GoldenInvariant
  BY InitGolden, NextGolden, PTL DEF Spec

\* support_count and conflict_count count pairwise independent observations,
\* whatever crashes, expires, overflows or is staged again (_merge_support,
\* _apply_conflict, _try_promote).
THEOREM SupportIsIndependent == Spec => []SupportIndependent
<1>1. GoldenInvariant => SupportIndependent
  BY DEF GoldenInvariant, MemorySound, Sound, SoundEvidence, SupportIndependent
<1>. QED  BY <1>1, GoldenInvariantHolds, PTL

\* Only trustworthy training observations count, and only contradicting ones
\* count against a record (_verify_candidate, _consolidate_locked).
THEOREM EvidenceIsTrustworthy == Spec => []OnlyTrustworthyEvidence
<1>1. GoldenInvariant => OnlyTrustworthyEvidence
  BY DEF GoldenInvariant, MemorySound, Sound, SoundEvidence, OnlyTrustworthyEvidence
<1>. QED  BY <1>1, GoldenInvariantHolds, PTL

\* The status on disk is the one that _lifecycle_check gives the evidence on
\* disk, in the middle of the write phase and after a crash too.
THEOREM StatusIsJustified == Spec => []StatusFollowsEvidence
<1>1. GoldenInvariant => StatusFollowsEvidence
  BY DEF GoldenInvariant, MemorySound, Sound, StatusFollowsEvidence
<1>. QED  BY <1>1, GoldenInvariantHolds, PTL

\* A step of the system rewrites one of the long-term files as the golden
\* memory does, or leaves them alone.
LEMMA GoldenStep ==
    ASSUME GoldenInvariant, [Next]_vars PROVE [Golden!Next]_ltm
<1>1. CASE \E file \in MemoryType : UpsertLongTerm(file)
  <2>1. PICK file \in MemoryType : UpsertLongTerm(file)
    BY <1>1
  <2>2. \A m \in MemId : \/ ltm'[m] = ltm[m]
                         \/ TypeOf(m) = file /\ Evolves(m, ltm[m], ltm'[m])
    BY <2>1 DEF UpsertLongTerm, GoldenInvariant, RecordsEvolve
  <2>3. ltm' = [m \in MemId |-> ltm'[m]]
    BY <2>1 DEF UpsertLongTerm
  <2>. QED  BY <2>2, <2>3 DEF Golden!Next, Golden!Rewrite
<1>2. CASE ~\E file \in MemoryType : UpsertLongTerm(file)
  BY <1>2 DEF Next, Consolidate, Verify, StageCandidate, StageCrash, BeginConsolidation,
              CompareWithMemory, PromoteCluster, RecheckLifecycle, ArchiveDeprecated,
              LongTermWritten, ArchiveExpiredRows, WriteShortTerm, AppendEvents,
              FinishDryRun, Crash, Tick, vars, files
<1>. QED  BY <1>1, <1>2

\* The long-term files implement the golden memory: consolidation with its
\* copies, crashes and reruns is invisible to a reader of them.
THEOREM Refinement == Spec => ImplementsGoldenMemory
<1>1. Init => Golden!Init
  BY DEF Init, Golden!Init
<1>2. GoldenInvariant /\ [Next]_vars => [Golden!Next]_ltm
  BY GoldenStep
<1>. QED  BY <1>1, <1>2, GoldenInvariantHolds, PTL
          DEF Spec, ImplementsGoldenMemory, Golden!Spec

\* A deprecated record never changes again.
THEOREM DeprecatedStays == Spec => DeprecatedIsFinal
<1>1. [Golden!Next]_ltm =>
        [\A m \in MemId : ltm[m].status = "deprecated" => ltm'[m] = ltm[m]]_vars
  BY DEF Golden!Next, Golden!Rewrite, Evolves, Reassessed, Live
<1>. QED  BY <1>1, GoldenStep, GoldenInvariantHolds, PTL DEF Spec, DeprecatedIsFinal

\* A record that is on disk stays there and loses none of its evidence.
THEOREM EvidenceIsKept == Spec => EvidenceOnlyGrows
<1>. DEFINE Kept == \A m \in MemId :
                      /\ ltm[m].backers \subseteq ltm'[m].backers
                      /\ ltm[m].opponents \subseteq ltm'[m].opponents
                      /\ ltm[m].status # "absent" => ltm'[m].status # "absent"
<1>1. GoldenInvariant /\ [Next]_vars => [Kept]_vars
  BY GoldenStep DEF Golden!Next, Golden!Rewrite, Evolves, Reassessed, GoldenInvariant,
                    MemorySound, NoRecord, Admitted
<1>. QED  BY <1>1, GoldenInvariantHolds, PTL DEF Spec, EvidenceOnlyGrows

\* A record that was not seeded never has fewer independent sources behind it
\* than its type asks for (_try_promote).
THEOREM SupportIsEnough == Spec => []EnoughIndependentSupport
<1>1. Init => EnoughIndependentSupport
  BY DEF Init, EnoughIndependentSupport, InitialRecord, NoRecord
<1>2. EnoughIndependentSupport /\ GoldenInvariant /\ GoldenInvariant' /\ [Next]_vars
        => EnoughIndependentSupport'
  <2>. SUFFICES ASSUME EnoughIndependentSupport, GoldenInvariant, GoldenInvariant',
                       [Next]_vars, NEW m \in MemId \ Seed, ltm'[m].status # "absent"
                PROVE  Cardinality(ltm'[m].backers) >= MinDistinctSources[TypeOf(m)]
    BY DEF EnoughIndependentSupport
  <2>1. ltm'[m] = ltm[m] \/ Evolves(m, ltm[m], ltm'[m])
    BY GoldenStep DEF Golden!Next, Golden!Rewrite
  <2>2. CASE ltm'[m] = ltm[m]
    BY <2>2 DEF EnoughIndependentSupport
  <2>3. CASE Evolves(m, ltm[m], ltm'[m]) /\ ltm[m].status = "absent"
    BY <2>3 DEF Evolves, Admitted
  <2>4. CASE Evolves(m, ltm[m], ltm'[m]) /\ ltm[m].status # "absent"
    <3>1. ltm[m].backers \subseteq ltm'[m].backers /\ ltm'[m].backers \in SUBSET Obs
      BY <2>4 DEF Evolves, Reassessed, Sound, SoundEvidence, Record
    <3>2. /\ Cardinality(ltm[m].backers) <= Cardinality(ltm'[m].backers)
          /\ Cardinality(ltm[m].backers) \in Nat /\ Cardinality(ltm'[m].backers) \in Nat
      BY <3>1, ObservationSets, FS_Subset
    <3>3. MinDistinctSources[TypeOf(m)] \in Nat
      BY ConfigAssumption, MemoryAssumption DEF ConfigAssumption, MemoryAssumption, TypeOf
    <3>. QED  BY <2>4, <3>2, <3>3 DEF EnoughIndependentSupport
  <2>. QED  BY <2>1, <2>2, <2>3, <2>4
<1>. QED  BY <1>1, <1>2, GoldenInvariantHolds, PTL DEF Spec

-----------------------------------------------------------------------------
\* What a crash cannot undo.

LEMMA SharesItself == \A o \in Obs : ~Independent(o, o)
  BY DEF Independent

\* An observation that is merged or counted is accounted for in the record.
LEMMA CountedOnce ==
    ASSUME NEW o \in Obs, NEW r \in Record
    PROVE  /\ \E p \in MergeSupport(r, o).backers : ~Independent(o, p)
           /\ \E p \in ApplyConflict(r, o).opponents : ~Independent(o, p)
           /\ MergeSupport(r, o).opponents = r.opponents
           /\ ApplyConflict(r, o).backers = r.backers
           /\ r.backers \subseteq MergeSupport(r, o).backers
           /\ r.opponents \subseteq ApplyConflict(r, o).opponents
<1>1. LET t == [r EXCEPT !.backers = @ \union {o}, !.support = @ + 1]
      IN  t.backers = r.backers \union {o} /\ t.opponents = r.opponents
  BY DEF Record
<1>2. LET s == [r EXCEPT !.opponents = @ \union {o}, !.conflict = @ + 1]
          t == [s EXCEPT !.status = "under_review"]
      IN  /\ s.opponents = r.opponents \union {o} /\ s.backers = r.backers
          /\ t.opponents = r.opponents \union {o} /\ t.backers = r.backers
  BY DEF Record
<1>3. /\ \E p \in MergeSupport(r, o).backers : ~Independent(o, p)
      /\ MergeSupport(r, o).opponents = r.opponents
      /\ r.backers \subseteq MergeSupport(r, o).backers
  BY <1>1, SharesItself DEF MergeSupport, Corroborates
<1>4. /\ \E p \in ApplyConflict(r, o).opponents : ~Independent(o, p)
      /\ ApplyConflict(r, o).backers = r.backers
      /\ r.opponents \subseteq ApplyConflict(r, o).opponents
  BY <1>2, SharesItself DEF ApplyConflict, Opposes
<1>. QED  BY <1>3, <1>4

\* Rows stay accounted for when records gain evidence.
LEMMA AccountedGrows ==
    ASSUME NEW rows \in RowsType, Named(rows), NEW old, NEW new, Accounted(rows, old),
           \A m \in MemId : /\ old[m].backers \subseteq new[m].backers
                            /\ old[m].opponents \subseteq new[m].opponents
    PROVE  Accounted(rows, new)
  BY DEF Accounted, Named, RowsType, Row

LEMMA EvolvesGrows ==
    ASSUME GoldenInvariant, pc \notin {"idle", "consolidate"}, NEW m \in MemId
    PROVE  /\ ltm[m].backers \subseteq wltm[m].backers
           /\ ltm[m].opponents \subseteq wltm[m].opponents
  BY DEF GoldenInvariant, MemorySound, RecordsEvolve, Evolves, Admitted, Reassessed, NoRecord

LEMMA StageDurable ==
    ASSUME GoldenInvariant, DurableInvariant, NEW o \in Obs, StageCandidate(o)
    PROVE  DurableInvariant'
<1>1. pc = "idle" /\ pc' = "idle" /\ ltm' = ltm
  BY DEF StageCandidate
<1>2. \A p \in Obs : \/ stm'[p] = stm[p]
                     \/ stm'[p].status \in {"absent", "staged"}
                     \/ stm'[p].status = "under_review" /\ stm'[p].promotedTo = NoMem
  <2>1. CASE Terminal(stm[o])
    BY <2>1 DEF StageCandidate
  <2>2. CASE ~Terminal(stm[o])
    <3>1. \A p \in Obs : \/ WithStaged(o)[p] = stm[p]
                         \/ /\ WithStaged(o)[p].status \in {"staged", "under_review"}
                            /\ WithStaged(o)[p].promotedTo = NoMem
      BY DEF WithStaged, StagedRow, GoldenInvariant, TypeOK, FilesTyped, RowsType
    <3>2. PICK dropped : stm' = [p \in Obs |-> IF p \in dropped THEN NoRow
                                               ELSE WithStaged(o)[p]]
      BY <2>2 DEF StageCandidate, WriteRows
    <3>. QED  BY <3>1, <3>2 DEF NoRow
  <2>. QED  BY <2>1, <2>2
<1>3. ProcessedAccounted' /\ Named(stm')
  BY <1>1, <1>2 DEF DurableInvariant, ProcessedAccounted, Accounted, Named
<1>. QED  BY <1>1, <1>3 DEF DurableInvariant

LEMMA BeginDurable ==
    ASSUME GoldenInvariant, DurableInvariant, BeginConsolidation PROVE DurableInvariant'
<1>1. pc' = "consolidate" /\ wltm' = ltm /\ stm' = stm /\ ltm' = ltm
  BY DEF BeginConsolidation, files
<1>2. \A o \in Obs : wstm'[o] = stm[o] \/ wstm'[o].status = "expired"
  BY DEF BeginConsolidation, GoldenInvariant, TypeOK, FilesTyped, RowsType, Row
<1>3. Accounted(wstm', wltm') /\ Named(wstm')
  BY <1>1, <1>2 DEF DurableInvariant, ProcessedAccounted, Accounted, Named
<1>4. ProcessedAccounted' /\ Named(stm')
  BY <1>1 DEF DurableInvariant, ProcessedAccounted
<1>. QED  BY <1>1, <1>3, <1>4 DEF DurableInvariant

LEMMA CompareDurable ==
    ASSUME GoldenInvariant, DurableInvariant, NEW o \in Obs, CompareWithMemory(o)
    PROVE  DurableInvariant'
<1>1. pc = "consolidate" /\ pc' = pc /\ stm' = stm /\ ltm' = ltm
  BY DEF CompareWithMemory, files
<1>2. /\ wstm \in RowsType /\ NoMem \notin MemId
      /\ \A m \in MemId : wltm[m] \in Record
  BY MemoryAssumption DEF GoldenInvariant, TypeOK, WorkTyped, RecordsType, MemoryAssumption
<1>3. ASSUME NEW m \in MemId, MergeIntoMemory(o, m)
      PROVE  Accounted(wstm', wltm') /\ Named(wstm')
  <2>1. /\ wltm' = [wltm EXCEPT ![m] = MergeSupport(@, o)]
        /\ \A p \in Obs \ {o} : wstm'[p] = wstm[p]
        /\ wstm'[o].status = "merged" /\ wstm'[o].promotedTo = m
    BY <1>2, <1>3 DEF MergeIntoMemory, MarkRow, RowsType, Row
  <2>2. Accounted(wstm, wltm')
    <3>1. \A n \in MemId : /\ wltm[n].backers \subseteq wltm'[n].backers
                           /\ wltm[n].opponents \subseteq wltm'[n].opponents
      BY <1>2, <2>1, CountedOnce DEF GoldenInvariant, TypeOK, WorkTyped, RecordsType
    <3>. QED  BY <1>1, <1>2, <3>1, AccountedGrows DEF DurableInvariant
  <2>3. \E p \in wltm'[m].backers : ~Independent(o, p)
    BY <1>2, <2>1, CountedOnce DEF GoldenInvariant, TypeOK, WorkTyped, RecordsType
  <2>. QED  BY <1>1, <1>2, <2>1, <2>2, <2>3 DEF DurableInvariant, Accounted, Named
<1>4. ASSUME NEW m \in MemId, ConflictWithMemory(o, m)
      PROVE  Accounted(wstm', wltm') /\ Named(wstm')
  <2>1. /\ wltm' = [wltm EXCEPT ![m] = ApplyConflict(@, o)]
        /\ \A p \in Obs \ {o} : wstm'[p] = wstm[p]
        /\ wstm'[o].status = "under_review" /\ wstm'[o].promotedTo = m
    BY <1>2, <1>4 DEF ConflictWithMemory, MarkRow, RowsType, Row
  <2>2. Accounted(wstm, wltm')
    <3>1. \A n \in MemId : /\ wltm[n].backers \subseteq wltm'[n].backers
                           /\ wltm[n].opponents \subseteq wltm'[n].opponents
      BY <1>2, <2>1, CountedOnce DEF GoldenInvariant, TypeOK, WorkTyped, RecordsType
    <3>. QED  BY <1>1, <1>2, <3>1, AccountedGrows DEF DurableInvariant
  <2>3. \E p \in wltm'[m].opponents : ~Independent(o, p)
    BY <1>2, <2>1, CountedOnce DEF GoldenInvariant, TypeOK, WorkTyped, RecordsType
  <2>. QED  BY <1>1, <1>2, <2>1, <2>2, <2>3 DEF DurableInvariant, Accounted, Named
<1>5. ASSUME LeaveForClustering(o)
      PROVE  Accounted(wstm', wltm') /\ Named(wstm')
  BY <1>1, <1>5 DEF LeaveForClustering, DurableInvariant
<1>6. Accounted(wstm', wltm') /\ Named(wstm')
  BY <1>3, <1>4, <1>5 DEF CompareWithMemory
<1>7. ProcessedAccounted' /\ Named(stm')
  BY <1>1 DEF DurableInvariant, ProcessedAccounted
<1>. QED  BY <1>1, <1>6, <1>7 DEF DurableInvariant

LEMMA PromoteDurable ==
    ASSUME GoldenInvariant, DurableInvariant, NEW seed \in Obs, PromoteCluster(seed)
    PROVE  DurableInvariant'
<1>1. pc = "consolidate" /\ pc' = pc /\ stm' = stm /\ ltm' = ltm /\ wstm \in RowsType
  BY DEF PromoteCluster, files, GoldenInvariant, TypeOK, WorkTyped
<1>2. ProcessedAccounted' /\ Named(stm')
  BY <1>1 DEF DurableInvariant, ProcessedAccounted
<1>. DEFINE cluster == ClusterOf(seed)
<1>3. cluster \in SUBSET Obs /\ TryPromote(cluster)
  BY DEF ClusterOf, GoldenInvariant, TypeOK, WorkTyped, PromoteCluster
<1>. HIDE DEF cluster
<1>4. PICK picked \in SUBSET cluster, m \in MemId :
        /\ IsIndependentSelection(picked, cluster, order)
        /\ \/ UNCHANGED <<wltm, wstm, events>>
           \/ /\ wltm[m].status = "absent"
              /\ wltm' = [wltm EXCEPT ![m] = Promoted(picked)]
              /\ wstm' = [o \in Obs |->
                            IF o \in cluster
                            THEN [wstm[o] EXCEPT !.status = "promoted", !.promotedTo = m]
                            ELSE wstm[o]]
  <2>1. \A rep \in cluster : IdOf[StatementOf(rep)] \in MemId
    BY <1>3, MemoryAssumption DEF MemoryAssumption, StatementOf, ObservationType
  <2>. QED  BY <1>3, <2>1 DEF TryPromote
<1>5. CASE UNCHANGED <<wltm, wstm, events>>
  BY <1>1, <1>2, <1>5 DEF DurableInvariant
<1>6. CASE ~UNCHANGED <<wltm, wstm, events>>
  <2>1. /\ wltm'[m].backers = picked
        /\ \A n \in MemId \ {m} : wltm'[n] = wltm[n]
        /\ wltm[m] = NoRecord
    <3>1. wltm' = [wltm EXCEPT ![m] = Promoted(picked)] /\ wltm[m].status = "absent"
      BY <1>4, <1>6
    <3>2. wltm[m] = NoRecord
      BY <1>1, <3>1 DEF GoldenInvariant, RecordsGather, MemorySound, Gathers, Admitted,
                        Reassessed
    <3>3. wltm'[m] = Promoted(picked) /\ \A n \in MemId \ {m} : wltm'[n] = wltm[n]
      BY <3>1 DEF GoldenInvariant, TypeOK, WorkTyped, RecordsType
    <3>. QED  BY <3>2, <3>3 DEF Promoted
  <2>2. \A n \in MemId : /\ wltm[n].backers \subseteq wltm'[n].backers
                         /\ wltm[n].opponents \subseteq wltm'[n].opponents
    BY <2>1 DEF NoRecord
  <2>3. Accounted(wstm, wltm') /\ Named(wstm)
    BY <1>1, <2>2, AccountedGrows DEF DurableInvariant
  <2>4. \A o \in Obs : \/ wstm'[o] = wstm[o]
                       \/ /\ o \in cluster /\ wstm'[o].status = "promoted"
                          /\ wstm'[o].promotedTo = m
    <3>1. \A row \in Row : LET t == [row EXCEPT !.status = "promoted", !.promotedTo = m]
                          IN  t.status = "promoted" /\ t.promotedTo = m
      BY DEF Row
    <3>2. wstm' = [o \in Obs |->
                     IF o \in cluster
                     THEN [wstm[o] EXCEPT !.status = "promoted", !.promotedTo = m]
                     ELSE wstm[o]]
      BY <1>4, <1>6
    <3>3. \A o \in Obs : wstm[o] \in Row
      BY <1>1 DEF RowsType
    <3>. QED  BY <3>1, <3>2, <3>3
  <2>5. \A o \in cluster : \E p \in wltm'[m].backers : ~Independent(o, p)
    BY <1>3, <1>4, <2>1, SharesItself DEF IsIndependentSelection, Independent
  <2>6. NoMem \notin MemId
    BY MemoryAssumption DEF MemoryAssumption
  <2>7. Accounted(wstm', wltm') /\ Named(wstm')
    BY <2>3, <2>4, <2>5, <2>6 DEF Accounted, Named
  <2>. QED  BY <1>1, <1>2, <2>7 DEF DurableInvariant
<1>. QED  BY <1>5, <1>6

LEMMA RecheckDurable ==
    ASSUME GoldenInvariant, DurableInvariant, RecheckLifecycle PROVE DurableInvariant'
<1>1. /\ pc = "consolidate" /\ pc' = "archive_ltm" /\ stm' = stm /\ ltm' = ltm
      /\ wstm' = wstm /\ wstm \in RowsType
  BY DEF RecheckLifecycle, files, GoldenInvariant, TypeOK, WorkTyped
<1>2. ASSUME NEW m \in MemId
      PROVE  wltm'[m].backers = wltm[m].backers /\ wltm'[m].opponents = wltm[m].opponents
  BY DEF RecheckLifecycle, LifecycleCheck, GoldenInvariant, TypeOK, WorkTyped, RecordsType,
         Record
<1>3. Accounted(wstm', wltm') /\ Named(wstm')
  BY <1>1, <1>2, AccountedGrows DEF DurableInvariant
<1>. QED  BY <1>1, <1>3 DEF DurableInvariant, ProcessedAccounted

LEMMA UpsertDurable ==
    ASSUME GoldenInvariant, DurableInvariant, NEW file \in MemoryType, UpsertLongTerm(file)
    PROVE  DurableInvariant'
<1>1. /\ pc = "write_ltm" /\ pc' = pc /\ UNCHANGED <<stm, wstm, wltm>>
      /\ \A m \in MemId : ltm'[m] \in {wltm[m], ltm[m]}
      /\ stm \in RowsType
  BY DEF UpsertLongTerm, work, GoldenInvariant, TypeOK, FilesTyped
<1>2. \A m \in MemId : /\ ltm[m].backers \subseteq ltm'[m].backers
                       /\ ltm[m].opponents \subseteq ltm'[m].opponents
  BY <1>1, EvolvesGrows
<1>3. ProcessedAccounted' /\ Named(stm')
  BY <1>1, <1>2, AccountedGrows DEF DurableInvariant, ProcessedAccounted
<1>. QED  BY <1>1, <1>3 DEF DurableInvariant

LEMMA WriteShortTermDurable ==
    ASSUME GoldenInvariant, DurableInvariant, WriteShortTerm PROVE DurableInvariant'
<1>1. /\ pc = "write_stm" /\ pc' = "log" /\ UNCHANGED <<ltm, wstm, wltm>>
      /\ \A o \in Obs : stm'[o] = NoRow \/ stm'[o] = wstm[o]
  BY DEF WriteShortTerm, work
<1>2. \A m \in MemId : ltm[m] = wltm[m]
  BY <1>1 DEF DurableInvariant, Changed
<1>3. ltm = wltm
  BY <1>2 DEF GoldenInvariant, TypeOK, FilesTyped, WorkTyped, RecordsType
<1>4. ProcessedAccounted' /\ Named(stm')
  BY <1>1, <1>3 DEF DurableInvariant, ProcessedAccounted, Accounted, Named, NoRow
<1>. QED  BY <1>1, <1>4 DEF DurableInvariant, Changed

LEMMA OtherDurable ==
    ASSUME GoldenInvariant, DurableInvariant,
           \/ \E o \in Obs : Verify(o) \/ StageCrash(o)
           \/ ArchiveDeprecated \/ LongTermWritten \/ ArchiveExpiredRows
           \/ AppendEvents \/ FinishDryRun \/ Crash \/ Tick \/ UNCHANGED vars
    PROVE  DurableInvariant'
<1>1. UNCHANGED <<stm, ltm>>
  BY DEF Verify, StageCrash, ArchiveDeprecated, LongTermWritten, ArchiveExpiredRows,
         AppendEvents, FinishDryRun, Crash, Tick, vars, files
<1>2. ProcessedAccounted' /\ Named(stm')
  BY <1>1 DEF DurableInvariant, ProcessedAccounted
<1>3. CASE AppendEvents \/ FinishDryRun \/ Crash
  BY <1>2, <1>3 DEF DurableInvariant, AppendEvents, FinishDryRun, Crash, ForgetCopies
<1>4. CASE \E o \in Obs : Verify(o) \/ StageCrash(o)
  BY <1>1, <1>2, <1>4 DEF DurableInvariant, Verify, StageCrash, work, Changed
<1>5. CASE ArchiveDeprecated \/ LongTermWritten \/ ArchiveExpiredRows
  BY <1>1, <1>2, <1>5 DEF DurableInvariant, ArchiveDeprecated, LongTermWritten,
                          ArchiveExpiredRows, work, Changed
<1>6. CASE Tick \/ UNCHANGED vars
  BY <1>1, <1>2, <1>6 DEF DurableInvariant, Tick, vars, work, Changed
<1>. QED  BY <1>3, <1>4, <1>5, <1>6

\* The strengthening: what a run holds in memory of processed rows is on its
\* way to the files, or there (_consolidate_locked).
THEOREM DurableInvariantHolds == Spec => []DurableInvariant
<1>1. Init => DurableInvariant
  BY DEF Init, DurableInvariant, ProcessedAccounted, Accounted, Named, NoRow
<1>2. GoldenInvariant /\ DurableInvariant /\ [Next]_vars => DurableInvariant'
  BY StageDurable, BeginDurable, CompareDurable, PromoteDurable, RecheckDurable,
     UpsertDurable, WriteShortTermDurable, OtherDurable DEF Next, Consolidate
<1>. QED  BY <1>1, <1>2, GoldenInvariantHolds, PTL DEF Spec

\* A processed row is accounted for in the long-term files, whenever a run is
\* interrupted: the records are written before the rows (_consolidate_locked).
THEOREM ProcessedIsAccounted == Spec => []ProcessedAccounted
<1>1. DurableInvariant => ProcessedAccounted
  BY DEF DurableInvariant
<1>. QED  BY <1>1, DurableInvariantHolds, PTL

\* What the archive holds of deprecated records, it keeps.
LEMMA ArchiveKept ==
    ASSUME TypeOK, [Next]_vars PROVE archived.deprecated \subseteq archived'.deprecated
<1>1. ASSUME NEW C
      PROVE  /\ [archived EXCEPT !.expired = @ \union C].deprecated = archived.deprecated
             /\ [archived EXCEPT !.overflow = @ \union C].deprecated = archived.deprecated
             /\ archived.deprecated \subseteq
                  [archived EXCEPT !.deprecated = @ \union C].deprecated
  BY DEF TypeOK, FilesTyped, Archive
<1>2. CASE \E o \in Obs : StageCandidate(o) \/ StageCrash(o)
  BY <1>1, <1>2 DEF StageCandidate, StageCrash, ArchiveOverflow
<1>3. CASE ArchiveDeprecated \/ ArchiveExpiredRows
  BY <1>1, <1>3 DEF ArchiveDeprecated, ArchiveExpiredRows
<1>4. CASE /\ ~\E o \in Obs : StageCandidate(o) \/ StageCrash(o)
           /\ ~(ArchiveDeprecated \/ ArchiveExpiredRows)
  <2>1. archived' = archived
    BY <1>4 DEF Next, Consolidate, Verify, BeginConsolidation, CompareWithMemory,
                PromoteCluster, RecheckLifecycle, UpsertLongTerm, LongTermWritten,
                WriteShortTerm, AppendEvents, FinishDryRun, Crash, Tick, vars, files
  <2>. QED  BY <2>1
<1>. QED  BY <1>2, <1>3, <1>4

LEMMA NextArchived ==
    ASSUME TypeOK, ArchivedInvariant, [Next]_vars PROVE ArchivedInvariant'
<1>. DEFINE Writing == pc \in {"write_ltm", "archive_stm", "write_stm", "log"}
<1>1. CASE ArchiveDeprecated
  <2>1. /\ pc' = "write_ltm" /\ ltm' = ltm /\ wltm' = wltm
        /\ archived'.deprecated = archived.deprecated
              \union {m \in Changed : wltm[m].status = "deprecated"}
    BY <1>1 DEF ArchiveDeprecated, work, TypeOK, FilesTyped, Archive
  <2>. QED  BY <2>1 DEF ArchivedInvariant, DeprecatedArchived, Changed
<1>2. CASE \E file \in MemoryType : UpsertLongTerm(file)
  <2>1. /\ pc = "write_ltm" /\ wltm' = wltm /\ archived' = archived
        /\ \A m \in MemId : ltm'[m] \in {wltm[m], ltm[m]}
    BY <1>2 DEF UpsertLongTerm, work
  <2>. QED  BY <2>1 DEF ArchivedInvariant, DeprecatedArchived
<1>3. CASE ~ArchiveDeprecated /\ ~\E file \in MemoryType : UpsertLongTerm(file)
  <2>1. /\ ltm' = ltm
        /\ Writing' => Writing /\ wltm' = wltm
    BY <1>3 DEF Next, Consolidate, Verify, StageCandidate, StageCrash, BeginConsolidation,
                CompareWithMemory, PromoteCluster, RecheckLifecycle, LongTermWritten,
                ArchiveExpiredRows, WriteShortTerm, AppendEvents, FinishDryRun, Crash,
                ForgetCopies, Tick, vars, files, work
  <2>. QED  BY <2>1, ArchiveKept DEF ArchivedInvariant, DeprecatedArchived
<1>. QED  BY <1>1, <1>2, <1>3

\* No record is deprecated on disk before it is in the archive
\* (archive_deprecated_records comes before upsert_long_term).
THEOREM DeprecatedIsArchived == Spec => []DeprecatedArchived
<1>1. Init => ArchivedInvariant
  BY DEF Init, ArchivedInvariant, DeprecatedArchived, InitialRecord, SeedRecord, NoRecord
<1>2. TypeOK /\ ArchivedInvariant /\ [Next]_vars => ArchivedInvariant'
  BY NextArchived
<1>3. ArchivedInvariant => DeprecatedArchived
  BY DEF ArchivedInvariant
<1>. QED  BY <1>1, <1>2, <1>3, TypeCorrect, PTL DEF Spec

=============================================================================
