----------------------------- MODULE Runs_proofs -----------------------------
(***************************************************************************)
(* What the protocols promise for any training cases, phases and variants, *)
(* any number of crashes and of writes to the snapshot; and what a case    *)
(* promises for any claims, answers of the language model, number of       *)
(* worker threads, exceptions and kills: gold is kept from the prediction, *)
(* the report is the one a single thread would make, and it never lies     *)
(* beside parts older than itself.                                         *)
(***************************************************************************)
EXTENDS FrozenProtocol, CasePipeline, FiniteSetTheorems, SequenceTheorems, TLAPS

-----------------------------------------------------------------------------
\* Types.

\* What a snapshot and its manifest may name.
Known == TrainCases \cup {"past", "no manifest", Foreign}

\* A case that is staged or registered is one of the training cases, and a run
\* that starts begins with the first.
IndexInvariant ==
    /\ TypeOK
    /\ position \in [case: 1 .. Len(Train) + 1, entry: Nat]
    /\ pc \in {"stage", "register"} => position.case <= Len(Train)
    /\ pc \in {"start", "seed"} => position.case = 1
    /\ seen \in [TrainCases -> SUBSET (TrainCases \cup Unpredicted)]
    /\ snapshot \in [exists: BOOLEAN, cases: SUBSET Known, manifest: SUBSET Known]
    /\ opened \subseteq Known

LEMMA TrainIndex ==
    /\ Len(Train) \in Nat /\ DOMAIN Train = 1 .. Len(Train)
    /\ \A i \in 1 .. Len(Train) : Train[i] \in TrainCases
    /\ \A i, j \in 1 .. Len(Train) : Train[i] = Train[j] => i = j
<1>1. Train \in Seq(Range(Train))
  BY ProtocolAssumption DEF ProtocolAssumption
<1>2. Len(Train) \in Nat /\ DOMAIN Train = 1 .. Len(Train)
  BY <1>1
<1>. QED  BY <1>2, ProtocolAssumption DEF ProtocolAssumption, TrainCases, Range

LEMMA ConsolidatedType ==
    ASSUME memory \in [seeded: BOOLEAN, staged: SUBSET TrainCases, learned: SUBSET TrainCases],
           NEW m \in Consolidated
    PROVE  /\ m \in [seeded: BOOLEAN, staged: SUBSET TrainCases, learned: SUBSET TrainCases]
           /\ m.staged \cup m.learned \subseteq memory.staged \cup memory.learned
  BY DEF Consolidated

LEMMA IndexInit == Init => IndexInvariant
<1>. SUFFICES ASSUME Init PROVE IndexInvariant
  OBVIOUS
<1>1. EveryN \in Nat \ {0} /\ MaxCrashes \in Nat /\ MaxTampers \in Nat
  BY ProtocolAssumption DEF ProtocolAssumption
<1>2. snapshot \in [exists: BOOLEAN, cases: SUBSET Known, manifest: SUBSET Known]
  <2>1. config.source \in {"none", "no manifest", "stale manifest", "empty", "good"}
    BY ProtocolAssumption DEF ProtocolAssumption, Init
  <2>. QED  BY <2>1 DEF Init, Given, Known, NoManifest
<1>3. opened \subseteq Known
  BY DEF Init, NoManifest, Known
<1>. QED  BY <1>1, <1>2, <1>3, TrainIndex DEF Init, IndexInvariant, TypeOK, Empty

LEMMA IndexStep == IndexInvariant /\ [Next]_vars => IndexInvariant'
<1>. SUFFICES ASSUME IndexInvariant, [Next]_vars PROVE IndexInvariant'
  OBVIOUS
<1>. USE DEF IndexInvariant, TypeOK
<1>0. /\ EveryN \in Nat \ {0} /\ MaxCrashes \in Nat /\ MaxTampers \in Nat
      /\ Len(Train) \in Nat /\ \A i \in 1 .. Len(Train) : Train[i] \in TrainCases
  BY ProtocolAssumption, TrainIndex DEF ProtocolAssumption
<1>1. CASE Start
  BY <1>0, <1>1 DEF Start
<1>2. CASE Seed
  BY <1>0, <1>2 DEF Seed
<1>3. CASE Predict
  BY <1>0, <1>3 DEF Predict
<1>4. CASE Stage
  <2>1. Train[position.case] \in TrainCases
    BY <1>0, <1>4 DEF Stage
  <2>2. CASE UNCHANGED <<memory, fresh>>
    BY <1>4, <2>2 DEF Stage
  <2>3. CASE /\ memory' = [memory EXCEPT !.staged = @ \cup ({Train[position.case]} \ memory.learned)]
             /\ fresh' = fresh \cup ({Train[position.case]} \ memory.learned)
    <3>1. /\ memory' \in [seeded: BOOLEAN, staged: SUBSET TrainCases, learned: SUBSET TrainCases]
          /\ fresh' \subseteq memory'.staged
      BY <2>1, <2>3
    <3>. QED  BY <1>4, <3>1 DEF Stage
  <2>. QED  BY <1>4, <2>2, <2>3 DEF Stage
<1>5. CASE Register
  <2>1. position' \in [case: 1 .. Len(Train) + 1, entry: Nat]
    <3>1. position' = [case |-> position.case + 1, entry |-> position.entry]
      BY <1>5 DEF Register
    <3>2. position.case + 1 \in 1 .. Len(Train) + 1 /\ position.entry \in Nat
      BY <1>0, <1>5 DEF Register
    <3>. QED  BY <3>1, <3>2
  <2>2. CASE since + 1 >= EveryN
    BY <1>0, <1>5, <2>1, <2>2, ConsolidatedType DEF Register
  <2>3. CASE ~(since + 1 >= EveryN)
    BY <1>0, <1>5, <2>1, <2>3 DEF Register
  <2>. QED  BY <2>2, <2>3
<1>6. CASE Finish
  BY <1>0, <1>6, ConsolidatedType DEF Finish
<1>7. CASE CopySnapshot
  <2>1. snapshot' \in [exists: BOOLEAN, cases: SUBSET Known, manifest: SUBSET Known]
    <3>1. CASE snapshot.exists
      BY <1>7, <3>1 DEF CopySnapshot
    <3>2. CASE ~snapshot.exists
      <4>1. snapshot' = [exists |-> TRUE, cases |-> memory.learned, manifest |-> {"no manifest"}]
        BY <1>7, <3>2 DEF CopySnapshot, NoManifest
      <4>2. memory.learned \subseteq Known /\ "no manifest" \in Known
        BY DEF Known
      <4>. QED  BY <4>1, <4>2
    <3>. QED  BY <3>1, <3>2
  <2>. QED  BY <1>0, <1>7, <2>1 DEF CopySnapshot
<1>8. CASE WriteManifest
  BY <1>0, <1>8 DEF WriteManifest, Known
<1>9. CASE Open
  BY <1>0, <1>9 DEF Open
<1>10. CASE Evaluate
  BY <1>0, <1>10 DEF Evaluate
<1>11. CASE NextEntry
  <2>1. position' \in [case: 1 .. Len(Train) + 1, entry: Nat]
    <3>1. position' = [case |-> position.case, entry |-> position.entry + 1]
      BY <1>11 DEF NextEntry
    <3>. QED  BY <3>1
  <2>. QED  BY <1>0, <1>11, <2>1 DEF NextEntry
<1>12. CASE Conclude
  BY <1>0, <1>12 DEF Conclude
<1>13. CASE Crash
  <2>1. opened' \subseteq Known
    BY <1>13 DEF Crash, NoManifest, Known
  <2>2. /\ position' \in [case: 1 .. Len(Train) + 1, entry: Nat] /\ since' \in 0 .. EveryN - 1
        /\ crashes' \in 0 .. MaxCrashes
    BY <1>0, <1>13 DEF Crash
  <2>3. UNCHANGED <<config, memory, snapshot, seen, fresh, tampers>>
    BY <1>13 DEF Crash
  <2>4. TypeOK'
    BY <2>2, <2>3
  <2>5. /\ pc' = "start" /\ position'.case = 1
        /\ position' \in [case: 1 .. Len(Train) + 1, entry: Nat]
    BY <2>2, <1>13 DEF Crash
  <2>6. snapshot' \in [exists: BOOLEAN, cases: SUBSET Known, manifest: SUBSET Known]
        /\ seen' \in [TrainCases -> SUBSET (TrainCases \cup Unpredicted)]
    BY <2>3
  <2>. QED  BY <2>1, <2>4, <2>5, <2>6
<1>14. CASE Tamper
  <2>1. snapshot' \in [exists: BOOLEAN, cases: SUBSET Known, manifest: SUBSET Known]
    <3>1. PICK cases \in Foreseen : snapshot' = [snapshot EXCEPT !.cases = cases]
      BY <1>14 DEF Tamper
    <3>2. cases \subseteq Known
      BY <3>1 DEF Foreseen, Known
    <3>. QED  BY <3>1, <3>2
  <2>2. tampers' \in 0 .. MaxTampers
    BY <1>0, <1>14 DEF Tamper
  <2>3. UNCHANGED <<pc, config, memory, position, since, opened, seen, fresh, crashes>>
    BY <1>14 DEF Tamper
  <2>. QED  BY <2>1, <2>2, <2>3
<1>15. CASE UNCHANGED vars
  BY <1>15 DEF vars
<1>. QED  BY <1>1, <1>2, <1>3, <1>4, <1>5, <1>6, <1>7, <1>8, <1>9, <1>10, <1>11, <1>12, <1>13, <1>14, <1>15
           DEF Next, Step

LEMMA Indexed == Spec => []IndexInvariant
  BY IndexInit, IndexStep, PTL DEF Spec

\* The variables have their types.
THEOREM TypeCorrect == Spec => []TypeOK
<1>1. IndexInvariant => TypeOK
  BY DEF IndexInvariant
<1>. QED  BY <1>1, Indexed, PTL

LEMMA SamePlan == config' = config => Plan' = Plan /\ Builds' = Builds
  BY DEF Plan, Builds

-----------------------------------------------------------------------------
\* Nothing is frozen that a consolidation has not looked at.

LookedAt ==
    Builds /\ pc \in {"snapshot", "manifest", "open", "evaluate", "done"} => fresh = {}

LEMMA LookedAtStep == LookedAt /\ [Next]_vars => LookedAt'
<1>. SUFFICES ASSUME LookedAt, [Next]_vars PROVE LookedAt'
  OBVIOUS
<1>. USE DEF LookedAt, Builds
<1>1. CASE Start
  BY <1>1 DEF Start
<1>2. CASE Seed \/ Predict
  BY <1>2 DEF Seed, Predict
<1>3. CASE Stage \/ Register
  BY <1>3 DEF Stage, Register
<1>4. CASE Finish
  BY <1>4 DEF Finish
<1>5. CASE CopySnapshot \/ WriteManifest \/ Open
  BY <1>5 DEF CopySnapshot, WriteManifest, Open
<1>6. CASE Evaluate \/ NextEntry \/ Conclude
  BY <1>6 DEF Evaluate, NextEntry, Conclude
<1>7. CASE Crash \/ Tamper \/ UNCHANGED vars
  BY <1>7 DEF Crash, Tamper, vars
<1>. QED  BY <1>1, <1>2, <1>3, <1>4, <1>5, <1>6, <1>7 DEF Next, Step

\* Whatever crashes come between, what is frozen has been consolidated: the
\* count since the last consolidation is lost with the process, the forced one
\* at the end of training makes up for it.
THEOREM FrozenConsolidated == Spec => []FrozenIsConsolidated
<1>1. Init => LookedAt
  BY DEF Init, LookedAt
<1>2. LookedAt => FrozenIsConsolidated
  BY DEF LookedAt, FrozenIsConsolidated
<1>. QED  BY <1>1, <1>2, LookedAtStep, PTL DEF Spec

-----------------------------------------------------------------------------
\* The gold of a case.

Upto(n) == {Train[i] : i \in 1 .. n}

\* Without resuming, memory holds lessons of the cases already gone through.
OwnGoldInvariant ==
    /\ PredictedBlind
    /\ ~config.resume =>
        /\ pc = "seed" => memory.staged \cup memory.learned = {}
        /\ pc \in {"predict", "stage"} =>
              memory.staged \cup memory.learned \subseteq Upto(position.case - 1)
        /\ pc = "register" => memory.staged \cup memory.learned \subseteq Upto(position.case)

LEMMA OwnGoldStep ==
    ~config.resume /\ IndexInvariant /\ OwnGoldInvariant /\ [Next]_vars => OwnGoldInvariant'
<1>. SUFFICES ASSUME ~config.resume, IndexInvariant, OwnGoldInvariant, [Next]_vars PROVE OwnGoldInvariant'
  OBVIOUS
<1>. DEFINE known == memory.staged \cup memory.learned
<1>0. /\ Len(Train) \in Nat /\ DOMAIN Train = 1 .. Len(Train)
      /\ \A i \in 1 .. Len(Train) : Train[i] \in TrainCases
      /\ \A i, j \in 1 .. Len(Train) : Train[i] = Train[j] => i = j
  BY TrainIndex
<1>01. /\ position \in [case: 1 .. Len(Train) + 1, entry: Nat]
       /\ memory \in [seeded: BOOLEAN, staged: SUBSET TrainCases, learned: SUBSET TrainCases]
       /\ seen \in [TrainCases -> SUBSET (TrainCases \cup Unpredicted)]
  BY DEF IndexInvariant, TypeOK
<1>1. CASE Start
  BY <1>1 DEF Start, Contaminated, OwnGoldInvariant, PredictedBlind
<1>2. CASE Seed
  <2>1. known' = {} /\ seen' = seen /\ pc' = "predict"
    BY <1>2, <1>01 DEF Seed, OwnGoldInvariant
  <2>. QED  BY <2>1 DEF OwnGoldInvariant, PredictedBlind
<1>3. CASE Predict
  <2>. DEFINE trained == Train[position.case]
  <2>1. trained \in TrainCases /\ position.case \in 1 .. Len(Train)
    BY <1>3, <1>0, <1>01 DEF Predict
  <2>2. trained \notin known
    <3>1. known \subseteq Upto(position.case - 1)
      BY <1>3 DEF Predict, OwnGoldInvariant
    <3>2. trained \notin Upto(position.case - 1)
      BY <2>1, <1>0 DEF Upto
    <3>. QED  BY <3>1, <3>2
  <2>3. PredictedBlind'
    <3>1. trained \notin seen'[trained]
      BY <1>3, <1>01, <2>1, <2>2 DEF Predict
    <3>2. \A c \in TrainCases : c # trained => seen'[c] = seen[c]
      BY <1>3, <1>01, <2>1 DEF Predict
    <3>. QED  BY <3>1, <3>2 DEF OwnGoldInvariant, PredictedBlind
  <2>4. CASE config.update
    BY <1>3, <2>3, <2>4 DEF Predict, OwnGoldInvariant
  <2>5. CASE ~config.update
    <3>1. position'.case = position.case + 1 /\ pc' = "predict" /\ memory' = memory
      BY <1>3, <1>01, <2>5 DEF Predict
    <3>2. Upto(position.case - 1) \subseteq Upto(position'.case - 1)
      BY <3>1, <1>01 DEF Upto
    <3>. QED  BY <1>3, <2>3, <3>1, <3>2 DEF Predict, OwnGoldInvariant
  <2>. QED  BY <2>4, <2>5
<1>4. CASE Stage
  <2>1. known' \subseteq known \cup {Train[position.case]}
    BY <1>4, <1>01 DEF Stage
  <2>2. known \subseteq Upto(position.case - 1)
    BY <1>4 DEF Stage, OwnGoldInvariant
  <2>3. known' \subseteq Upto(position.case)
    BY <2>1, <2>2, <1>01 DEF Upto
  <2>. QED  BY <1>4, <2>3 DEF Stage, OwnGoldInvariant, PredictedBlind
<1>5. CASE Register
  <2>1. known' \subseteq known
    BY <1>5, <1>01, ConsolidatedType DEF Register
  <2>2. position'.case = position.case + 1 /\ pc' = "predict"
    BY <1>5, <1>01 DEF Register
  <2>3. known \subseteq Upto(position'.case - 1)
    BY <1>5, <1>01, <2>2 DEF Register, OwnGoldInvariant
  <2>. QED  BY <1>5, <2>1, <2>2, <2>3 DEF Register, OwnGoldInvariant, PredictedBlind
<1>6. CASE Finish
  BY <1>6 DEF Finish, OwnGoldInvariant, PredictedBlind
<1>7. CASE CopySnapshot \/ WriteManifest \/ Open
  BY <1>7 DEF CopySnapshot, WriteManifest, Open, OwnGoldInvariant, PredictedBlind
<1>8. CASE Evaluate \/ NextEntry \/ Conclude
  BY <1>8 DEF Evaluate, NextEntry, Conclude, OwnGoldInvariant, PredictedBlind
<1>9. CASE Crash
  BY <1>9 DEF Crash, OwnGoldInvariant, PredictedBlind
<1>10. CASE Tamper \/ UNCHANGED vars
  BY <1>10 DEF Tamper, vars, OwnGoldInvariant, PredictedBlind
<1>. QED  BY <1>1, <1>2, <1>3, <1>4, <1>5, <1>6, <1>7, <1>8, <1>9, <1>10 DEF Next, Step

\* In a run that was not told to resume, no case is predicted with memory that
\* learned from its gold, however often it dies and is started again: what a
\* dead run left behind is refused at the start.
THEOREM OwnGoldHidden == Spec => []NeverFromOwnGold
<1>. DEFINE Inv == ~config.resume => OwnGoldInvariant
<1>1. Init => Inv
  <2>. SUFFICES ASSUME Init PROVE OwnGoldInvariant
    OBVIOUS
  <2>1. "unpredicted" \notin TrainCases
    BY ProtocolAssumption DEF ProtocolAssumption, TrainCases
  <2>2. seen = [c \in TrainCases |-> {"unpredicted"}] /\ pc = "start"
    BY DEF Init, Unpredicted
  <2>. QED  BY <2>1, <2>2 DEF OwnGoldInvariant, PredictedBlind
<1>2. Inv /\ IndexInvariant /\ [Next]_vars => Inv'
  <2>1. [Next]_vars => config' = config
    BY DEF vars, Next, Step, Start, Seed, Predict, Stage, Register, Finish, CopySnapshot, WriteManifest,
           Open, Evaluate, NextEntry, Conclude, Crash, Tamper
  <2>. QED  BY <2>1, OwnGoldStep
<1>3. Inv => NeverFromOwnGold
  BY DEF OwnGoldInvariant, NeverFromOwnGold
<1>. QED  BY <1>1, <1>2, <1>3, Indexed, PTL DEF Spec

-----------------------------------------------------------------------------
\* The answers and the manifest.

\* What an answer has to have seen, where nobody undid what it saw.
Expected(a) == IF Plan[a.entry].memory THEN a.seen = snapshot.manifest \/ a \in undone ELSE a.seen = {}

\* An answer that saw anything else has been given since the snapshot was opened,
\* which is not now as it was then.
Suspect(a) == Plan[a.entry].memory /\ SameOpening(a) /\ snapshot.cases # opened

Training == {"start", "seed", "predict", "stage", "register", "snapshot", "manifest"}

SnapshotInvariant ==
    /\ \A a \in answers : a.entry \in Nat
    /\ pc \in Training => answers = {}
    /\ pc = "manifest" => snapshot.exists
    /\ snapshot.exists =>
        /\ pc = "open" => \A a \in answers : Expected(a)
        /\ pc = "evaluate" => opened = snapshot.manifest /\ \A a \in answers : Expected(a) \/ Suspect(a)
        /\ ResultsFromSnapshot

\* Where the snapshot is as it was opened there is no suspect.
LEMMA Unsuspected ==
    ASSUME snapshot.cases = opened, \A a \in answers : Expected(a) \/ Suspect(a)
    PROVE  \A a \in answers : Expected(a)
  BY DEF Suspect

LEMMA EvaluateKeeps ==
    ASSUME IndexInvariant, SnapshotInvariant, Evaluate
    PROVE  SnapshotInvariant'
<1>1. /\ Plan' = Plan /\ pc = "evaluate" /\ UNCHANGED <<pc, snapshot, opened, undone, position>>
      /\ position.entry \in Nat
  BY SamePlan DEF Evaluate, IndexInvariant
<1>2. PICK b : /\ answers' = answers \cup {b}
               /\ b.entry = position.entry
               /\ b.seen = IF Plan[position.entry].memory THEN snapshot.cases ELSE {}
  <2>1. PICK c : answers' = answers \cup {[entry |-> position.entry, case |-> c,
                                           seen |-> IF Entry.memory THEN snapshot.cases ELSE {}]}
    BY DEF Evaluate
  <2>. WITNESS [entry |-> position.entry, case |-> c, seen |-> IF Entry.memory THEN snapshot.cases ELSE {}]
  <2>. QED  BY <2>1 DEF Entry
<1>3. \A a : (Expected(a) => Expected(a)') /\ (Suspect(a) => Suspect(a)')
  BY <1>1 DEF Expected, Suspect, SameOpening
<1>4. ASSUME opened = snapshot.manifest  PROVE Expected(b) \/ Suspect(b)
  <2>1. SameOpening(b)
    BY <1>1, <1>2 DEF SameOpening
  <2>. QED  BY <1>2, <1>4, <2>1 DEF Expected, Suspect
<1>5. \A a \in answers' : a.entry \in Nat
  BY <1>1, <1>2 DEF SnapshotInvariant
<1>6. ASSUME snapshot.exists
      PROVE  opened = snapshot.manifest /\ \A a \in answers' : Expected(a)' \/ Suspect(a)'
  <2>1. opened = snapshot.manifest /\ \A a \in answers : Expected(a) \/ Suspect(a)
    BY <1>1, <1>6 DEF SnapshotInvariant
  <2>2. \A a \in answers' : Expected(a) \/ Suspect(a)
    BY <1>2, <1>4, <2>1
  <2>. QED  BY <1>3, <2>1, <2>2
<1>. QED  BY <1>1, <1>5, <1>6 DEF SnapshotInvariant, Training, ResultsFromSnapshot

LEMMA NextEntryKeeps ==
    ASSUME IndexInvariant, SnapshotInvariant, NextEntry
    PROVE  SnapshotInvariant'
<1>1. /\ Plan' = Plan /\ pc = "evaluate" /\ UNCHANGED <<answers, snapshot, opened, undone>>
      /\ position'.entry = position.entry + 1 /\ position.entry \in Nat
  BY SamePlan DEF NextEntry, IndexInvariant
<1>2. \A a : Expected(a) => Expected(a)'
  BY <1>1 DEF Expected
<1>3. ASSUME snapshot.exists, ~Plan[position.entry + 1].opens, NEW a \in answers, Suspect(a)  PROVE Suspect(a)'
  <2>1. a.entry \in Nat
    BY DEF SnapshotInvariant
  <2>2. \A e \in a.entry + 1 .. position.entry + 1 : e \in a.entry + 1 .. position.entry \/ e = position.entry + 1
    BY <1>1, <2>1
  <2>3. SameOpening(a)'
    BY <1>1, <1>3, <2>2 DEF Suspect, SameOpening
  <2> QED  BY <1>1, <1>3, <2>3 DEF Suspect
<1>4. ASSUME snapshot.exists  PROVE /\ pc' = "evaluate" => (\A a \in answers : Expected(a) \/ Suspect(a))'
                                    /\ pc' = "open" => (\A a \in answers : Expected(a))'
  <2>1. \A a \in answers : Expected(a) \/ Suspect(a)
    BY <1>1, <1>4 DEF SnapshotInvariant
  <2>2. CASE ~Plan[position.entry + 1].opens
    BY <1>1, <1>2, <1>3, <1>4, <2>1, <2>2 DEF NextEntry
  <2>3. CASE Plan[position.entry + 1].opens
    <3>1. pc' = "open" => snapshot.cases = opened
      BY <1>4, <2>3 DEF NextEntry
    <3>2. pc' # "evaluate"
      BY <2>3 DEF NextEntry
    <3> QED  BY <1>1, <1>2, <2>1, <3>1, <3>2, Unsuspected
  <2> QED  BY <2>2, <2>3
<1>5. pc' \in {"evaluate", "open", "failed: snapshot changed"}
  BY DEF NextEntry
<1>6. \A a \in answers' : a.entry \in Nat
  BY <1>1 DEF SnapshotInvariant
<1>7. snapshot.exists => opened = snapshot.manifest
  BY <1>1 DEF SnapshotInvariant
<1>8. ASSUME snapshot'.exists
      PROVE  /\ pc' = "open" => (\A a \in answers : Expected(a))'
             /\ pc' = "evaluate" => opened' = snapshot'.manifest /\ (\A a \in answers : Expected(a) \/ Suspect(a))'
             /\ ResultsFromSnapshot'
  <2>1. snapshot.exists /\ answers' = answers /\ opened' = snapshot'.manifest /\ pc' # "done"
    BY <1>1, <1>5, <1>7, <1>8
  <2>2. ResultsFromSnapshot'
    BY <2>1 DEF ResultsFromSnapshot
  <2>. QED  BY <1>4, <2>1, <2>2
<1>9. pc' \notin Training
  BY <1>5 DEF Training
<1> QED  BY <1>5, <1>6, <1>8, <1>9 DEF SnapshotInvariant

LEMMA ConcludeKeeps ==
    ASSUME IndexInvariant, SnapshotInvariant, Conclude
    PROVE  SnapshotInvariant'
<1>1. /\ Plan' = Plan /\ pc = "evaluate" /\ UNCHANGED <<answers, snapshot, opened, undone>>
      /\ pc' \in {"done", "failed: snapshot changed"}
  BY SamePlan DEF Conclude
<1>2. ASSUME snapshot.exists, pc' = "done"  PROVE \A a \in answers : Expected(a)
  <2>1. snapshot.cases = opened
    BY <1>2 DEF Conclude
  <2> QED  BY <1>1, <1>2, <2>1, Unsuspected DEF SnapshotInvariant
<1>3. snapshot.exists => ResultsFromSnapshot'
  BY <1>1, <1>2 DEF Expected, ResultsFromSnapshot
<1> QED  BY <1>1, <1>3 DEF SnapshotInvariant, Training

\* A write that does not put the files back leaves every answer of this opening a
\* suspect; one that does undoes what those answers saw.
LEMMA TamperKeeps ==
    ASSUME IndexInvariant, SnapshotInvariant, Tamper
    PROVE  SnapshotInvariant'
<1>1. PICK cases \in Foreseen : /\ snapshot' = [snapshot EXCEPT !.cases = cases]
                               /\ undone' = IF cases = opened THEN undone \cup {a \in answers : SameOpening(a)}
                                                              ELSE undone
  BY DEF Tamper
<1>2. /\ Plan' = Plan /\ UNCHANGED <<pc, answers, opened, position>> /\ pc # "done"
      /\ snapshot'.manifest = snapshot.manifest /\ snapshot'.exists = snapshot.exists /\ snapshot'.cases = cases
      /\ undone \subseteq undone'
  BY <1>1, SamePlan DEF Tamper, Running, IndexInvariant
<1>3. \A a : Expected(a) => Expected(a)'
  BY <1>2 DEF Expected
<1>4. ASSUME NEW a \in answers, Suspect(a)  PROVE Expected(a)' \/ Suspect(a)'
  <2>1. Plan[a.entry].memory /\ SameOpening(a) /\ SameOpening(a)'
    BY <1>2, <1>4 DEF Suspect, SameOpening
  <2>2. CASE cases = opened
    <3>1. a \in undone'
      BY <1>1, <2>1, <2>2
    <3> QED  BY <1>2, <2>1, <3>1 DEF Expected
  <2>3. CASE cases # opened
    BY <1>2, <2>1, <2>3 DEF Suspect
  <2> QED  BY <2>2, <2>3
<1> QED  BY <1>2, <1>3, <1>4 DEF SnapshotInvariant, Training, ResultsFromSnapshot

LEMMA SnapshotStep == IndexInvariant /\ SnapshotInvariant /\ [Next]_vars => SnapshotInvariant'
<1>. SUFFICES ASSUME IndexInvariant, SnapshotInvariant, [Next]_vars PROVE SnapshotInvariant'
  OBVIOUS
<1>0. snapshot \in [exists: BOOLEAN, cases: SUBSET Known, manifest: SUBSET Known]
  BY DEF IndexInvariant
<1>1. CASE Start \/ Seed \/ Predict \/ Stage \/ Register \/ Finish \/ CopySnapshot
  <2>1. pc \in Training /\ answers' = answers /\ pc' # "evaluate"
    <3>1. CASE Start \/ Seed
      BY <3>1 DEF Training, Start, Seed
    <3>2. CASE Predict \/ Stage
      BY <3>2 DEF Training, Predict, Stage
    <3>3. CASE Register \/ Finish
      BY <3>3 DEF Training, Register, Finish
    <3>4. CASE CopySnapshot
      BY <3>4 DEF Training, CopySnapshot
    <3>. QED  BY <1>1, <3>1, <3>2, <3>3, <3>4
  <2>2. answers' = {}
    BY <2>1 DEF SnapshotInvariant
  <2>3. pc' = "manifest" => snapshot'.exists
    <3>1. CASE CopySnapshot
      BY <1>0, <3>1 DEF CopySnapshot
    <3>2. CASE ~CopySnapshot
      BY <1>1, <3>2 DEF Start, Seed, Predict, Stage, Register, Finish
    <3>. QED  BY <3>1, <3>2
  <2>. QED  BY <2>1, <2>2, <2>3 DEF SnapshotInvariant, ResultsFromSnapshot
<1>2. CASE WriteManifest
  <2>1. /\ opened' = memory.learned /\ snapshot'.manifest = memory.learned
        /\ answers = {} /\ answers' = {} /\ pc' = "evaluate"
    BY <1>0, <1>2 DEF WriteManifest, SnapshotInvariant, Training
  <2>. QED  BY <2>1 DEF SnapshotInvariant, Training, ResultsFromSnapshot
<1>3. CASE Open
  <2>1. /\ Plan' = Plan /\ UNCHANGED <<answers, snapshot, undone>> /\ pc = "open" /\ opened' = snapshot.cases
        /\ pc' \notin {"open", "manifest", "done"} \cup Training
    BY <1>3, SamePlan DEF Open, Training
  <2>2. \A a : Expected(a) => Expected(a)'
    BY <2>1 DEF Expected
  <2>3. snapshot.exists /\ pc' = "evaluate" => opened' = snapshot.manifest
    BY <1>3 DEF Open
  <2>. QED  BY <2>1, <2>2, <2>3 DEF SnapshotInvariant, ResultsFromSnapshot
<1>4. CASE Crash
  <2>1. answers' = {} /\ pc' = "start"
    BY <1>4 DEF Crash
  <2>. QED  BY <2>1 DEF SnapshotInvariant, ResultsFromSnapshot
<1>5. CASE UNCHANGED vars
  <2>1. Plan' = Plan
    BY <1>5, SamePlan DEF vars
  <2>. QED  BY <1>5, <2>1 DEF vars, SnapshotInvariant, Expected, Suspect, SameOpening, ResultsFromSnapshot
<1>. QED  BY <1>1, <1>2, <1>3, <1>4, <1>5, EvaluateKeeps, NextEntryKeeps, ConcludeKeeps, TamperKeeps DEF Next, Step

\* Where a snapshot exists, results are only written if every answer was given
\* with the memory its manifest describes, whoever else writes to its files and
\* in whatever order; the answers given before a write was undone are excepted.
THEOREM AnswersFromManifest == Spec => [](snapshot.exists => ResultsFromSnapshot)
<1>1. Init => SnapshotInvariant
  BY DEF Init, SnapshotInvariant, Training, ResultsFromSnapshot
<1>2. SnapshotInvariant => (snapshot.exists => ResultsFromSnapshot)
  BY DEF SnapshotInvariant
<1>. QED  BY <1>1, <1>2, SnapshotStep, Indexed, PTL DEF Spec

-----------------------------------------------------------------------------
(* Places, files, and what the main thread joins.                           *)

\* The least of some places of the files.
LEMMA LeastPlace ==
    ASSUME NEW S \in SUBSET (1 .. 8), S # {}
    PROVE  Min(S) \in S /\ \A k \in S : Min(S) <= k
<1>1. \E i \in S : \A k \in S : i <= k
  <2>1. CASE 1 \in S
    BY <2>1
  <2>2. CASE 1 \notin S /\ 2 \in S
    BY <2>2
  <2>3. CASE 1 \notin S /\ 2 \notin S /\ 3 \in S
    BY <2>3
  <2>4. CASE 1 \notin S /\ 2 \notin S /\ 3 \notin S /\ 4 \in S
    BY <2>4
  <2>5. CASE S \subseteq 5 .. 8 /\ 5 \in S
    BY <2>5
  <2>6. CASE S \subseteq 6 .. 8 /\ 6 \in S
    BY <2>6
  <2>7. CASE S \subseteq 7 .. 8
    <3>1. CASE 7 \in S
      BY <2>7, <3>1
    <3>2. CASE 7 \notin S
      <4>1. \A k \in 7 .. 8 : k = 7 \/ k = 8
        OBVIOUS
      <4>2. PICK i : i \in S
        OBVIOUS
      <4>3. \A k \in S : k = 8
        BY <2>7, <3>2, <4>1
      <4>4. i = 8 /\ \A k \in S : i <= k
        BY <4>2, <4>3
      <4> QED  BY <4>2, <4>4
    <3> QED  BY <3>1, <3>2
  <2>8. S \subseteq 5 .. 8 \/ 1 \in S \/ 2 \in S \/ 3 \in S \/ 4 \in S
    OBVIOUS
  <2>9. S \subseteq 5 .. 8 /\ 5 \notin S => S \subseteq 6 .. 8
    OBVIOUS
  <2>10. S \subseteq 6 .. 8 /\ 6 \notin S => S \subseteq 7 .. 8
    OBVIOUS
  <2> QED  BY <2>1, <2>2, <2>3, <2>4, <2>5, <2>6, <2>7, <2>8, <2>9, <2>10
<1> QED  BY <1>1 DEF Min

\* The files that _save_case_outputs writes; the parts of a report come before it.
LEMMA FilesInOrder ==
    /\ DOMAIN FileOrder = 1 .. 8
    /\ \A k \in 1 .. 8 : FileOrder[k] \in Range(FileOrder)
    /\ FileOrder[1] = "evidence" /\ FileOrder[2] = "arguments" /\ FileOrder[3] = "diagnostics"
    /\ \A k \in 1 .. 8 : FileOrder[k] = "report" <=> k = 5
    /\ {"evidence", "arguments", "diagnostics", "report"} \subseteq Range(FileOrder)
<1>1. DOMAIN FileOrder = 1 .. 8
  BY DEF FileOrder
<1>2. \A k \in 1 .. 8 : FileOrder[k] \in Range(FileOrder)
  BY <1>1 DEF Range
<1>3. FileOrder[1] = "evidence" /\ FileOrder[2] = "arguments" /\ FileOrder[3] = "diagnostics"
  BY DEF FileOrder
<1>4. FileOrder[4] = "trace" /\ FileOrder[5] = "report" /\ FileOrder[6] = "review"
      /\ FileOrder[7] = "updates" /\ FileOrder[8] = "log"
  BY DEF FileOrder
<1>5. \A k \in 1 .. 8 : k = 1 \/ k = 2 \/ k = 3 \/ k = 4 \/ k = 5 \/ k = 6 \/ k = 7 \/ k = 8
  OBVIOUS
<1>6. \A k \in 1 .. 8 : FileOrder[k] = "report" <=> k = 5
  BY <1>3, <1>4, <1>5
<1> QED  BY <1>1, <1>2, <1>3, <1>4, <1>6

\* Where every task is collected, each has that status.
LEMMA AllCollected ==
    ASSUME CaseTypeOK, Finished
    PROVE  \A i \in DOMAIN task : task[i] = "collected"
<1> DEFINE places == 1 .. Len(task)
           collected == {i \in places : task[i] = "collected"}
<1>1. DOMAIN task = places /\ Len(task) \in Nat
  BY DEF CaseTypeOK
<1>2. IsFiniteSet(places) /\ Cardinality(places) = Len(task)
  <2> DEFINE n == Len(task)
  <2>1. n \in Nat
    BY <1>1
  <2> HIDE DEF n
  <2>2. IsFiniteSet(1 .. n) /\ Cardinality(1 .. n) = IF 1 > n THEN 0 ELSE n - 1 + 1
    BY <2>1, FS_Interval
  <2>3. Cardinality(1 .. n) = n
    BY <2>1, <2>2
  <2> QED  BY <2>2, <2>3 DEF n
<1>3. Cardinality(collected) = Len(task)
  BY <1>1 DEF Finished, NumTasks
<1>4. collected \in SUBSET places
  OBVIOUS
<1>5. collected = places
  <2> HIDE DEF places, collected
  <2> QED  BY <1>2, <1>3, <1>4, FS_Subset
<1> QED  BY <1>1, <1>5

\* What the main thread joins is about claims that there are; about each claim
\* in its place where one thread works, or the claims have different names.
LEMMA JoinedInPlace ==
    ASSUME CaseTypeOK, Kept, stage \in Sections, Finished
    PROVE  /\ Joined \in [DOMAIN claims -> DOMAIN claims]
           /\ Sequential \/ Distinct => Joined = [i \in DOMAIN claims |-> i]
<1>1. \A i \in DOMAIN task : task[i] = "collected"
  BY AllCollected
<1>2. \A i \in DOMAIN claims : results[claims[i]] \in DOMAIN claims /\ claims[results[claims[i]]] = claims[i]
  BY <1>1 DEF Kept
<1>3. Joined \in [DOMAIN claims -> DOMAIN claims]
  BY <1>2 DEF Joined
<1>4. ASSUME Distinct
      PROVE  \A i \in DOMAIN claims : results[claims[i]] = i
  BY <1>2, <1>4 DEF Distinct
<1>5. Sequential \/ Distinct => Joined = [i \in DOMAIN claims |-> i]
  BY <1>4 DEF Joined
<1> QED  BY <1>3, <1>5

\* A sequence of members of a set is one of members of a larger set.
LEMMA SubsetSeq ==
    ASSUME NEW S, NEW T, S \subseteq T, NEW s \in Seq(S)
    PROVE  s \in Seq(T)
  OBVIOUS

\* What the assumption says of the setup of a case.
LEMMA SetupTyped ==
    ASSUME PipelineAssumption, setup \in DOMAIN Setups
    PROVE  /\ Types \in Seq(STRING) /\ MaxRuns \in Nat \ {0}
           /\ \A c \in Cases : c.claims \in Seq(STRING)
           /\ \A a \in Answers : a \in Seq(STRING)
BY DEF PipelineAssumption, MaxRuns, Cases, Answers

\* The claims of a case that was given none are in a sequence.
LEMMA CompletedSeq ==
    ASSUME PipelineAssumption, setup \in DOMAIN Setups, NEW a \in Answers
    PROVE  DOMAIN Completed(a) = 1 .. Len(Completed(a)) /\ Len(Completed(a)) \in Nat
<1> DEFINE missing == {k \in DOMAIN Types : Types[k] \notin Range(a)}
           nth(n) == CHOOSE k \in missing : Cardinality({j \in missing : j <= k}) = n
           more == [n \in 1 .. Cardinality(missing) |-> Types[nth(n)]]
           U == STRING \cup {more[n] : n \in 1 .. Cardinality(missing)}
<1>1. Types \in Seq(STRING) /\ a \in Seq(STRING)
  BY SetupTyped
<1>2. DOMAIN Types = 1 .. Len(Types) /\ Len(Types) \in Nat
  BY <1>1
<1>3. IsFiniteSet(DOMAIN Types)
  BY <1>2, FS_Interval
<1>4. missing \in SUBSET (DOMAIN Types)
  OBVIOUS
<1>5. Cardinality(missing) \in Nat
  <2> HIDE DEF missing
  <2> QED  BY <1>3, <1>4, FS_Subset, FS_CardinalityType
<1>6. Completed(a) = a \o more
  BY DEF Completed
<1> HIDE DEF missing, nth
<1>7. more \in Seq(U)
  BY <1>5
<1>8. a \in Seq(U)
  <2> HIDE DEF more
  <2>1. STRING \subseteq U
    OBVIOUS
  <2> HIDE DEF U
  <2> QED  BY <1>1, <2>1, SubsetSeq
<1> HIDE DEF more, U
<1>9. a \o more \in Seq(U)
  BY <1>7, <1>8
<1> QED  BY <1>6, <1>9

\* What the runs of a case have in common never changes.
LEMMA SameSetup ==
    ASSUME UNCHANGED setup
    PROVE  Cases' = Cases /\ Answers' = Answers /\ Workers' = Workers /\ MaxRuns' = MaxRuns
BY DEF Cases, Answers, Workers, MaxRuns

\* Each step is one of the same case and its setup.
LEMMA StepSetup ==
    ASSUME [CaseNext]_caseVars
    PROVE  /\ setup' = setup /\ Cases' = Cases /\ Answers' = Answers /\ Workers' = Workers
           /\ MaxRuns' = MaxRuns
<1>1. setup' = setup
  BY DEF CaseNext, CaseStep, RunAgain, caseVars
<1> QED  BY <1>1, SameSetup

-----------------------------------------------------------------------------
(* The steps keep what a step leaves behind: types, and the collected       *)
(* results.                                                                 *)

\* Where a run starts.
LEMMA CaseStarts ==
    ASSUME PipelineAssumption, CaseInit
    PROVE  CaseInvariant
<1>1. CaseTypeOK
  <2>1. 1 \in 1 .. MaxRuns /\ \A f \in Range(FileOrder) : 0 \in 0 .. MaxRuns
    BY SetupTyped DEF CaseInit
  <2>2. DOMAIN <<>> = 1 .. Len(<<>>) /\ Len(<<>>) \in Nat
    OBVIOUS
  <2>3. Range(<<>>) = {}
    BY DEF Range
  <2> QED  BY <2>1, <2>2, <2>3 DEF CaseTypeOK, CaseInit
<1>2. Kept
  BY DEF CaseInit, Kept, Sections
<1>3. ReportInvariant
  BY DEF CaseInit, ReportInvariant, Before, After, Sections
<1>4. FilesInvariant
  <2>1. \A f \in DOMAIN files : files[f] = 0
    BY DEF CaseInit
  <2>2. "report" \in DOMAIN files
    BY FilesInOrder DEF CaseInit
  <2> QED  BY <2>1, <2>2 DEF CaseInit, FilesInvariant
<1>5. GoldGuarded
  BY DEF CaseInit, GoldGuarded, GoldUnseen, LearnsOnlyWhereAllowed
<1>6. ParallelIsSequential
  BY DEF CaseInit, ParallelIsSequential
<1>7. ReportComplete
  <2>1. ReportAfterItsParts
    BY FilesInOrder DEF CaseInit, ReportAfterItsParts
  <2> QED  BY <1>1, <2>1 DEF CaseInit, ReportComplete, FallbacksReported
<1> QED  BY <1>1, <1>2, <1>3, <1>4, <1>5, <1>6, <1>7 DEF CaseInvariant

\* A parallel section that is entered has a task for each claim.
LEMMA EnterTyped ==
    ASSUME CaseTypeOK, NEW section \in Sections, Enter(section), UNCHANGED claims
    PROVE  /\ DOMAIN task' = 1 .. Len(task') /\ Len(task') \in Nat
           /\ Range(task') \subseteq {"queued", "running", "returned", "collected"}
           /\ Kept'
<1>1. DOMAIN claims = 1 .. Len(claims) /\ Len(claims) \in Nat
  BY DEF CaseTypeOK
<1>2. task' = [i \in DOMAIN claims |-> "queued"]
  BY DEF Enter
<1>3. Len(task') = Len(claims) /\ DOMAIN task' = DOMAIN claims
  BY <1>1, <1>2
<1>4. Range(task') \subseteq {"queued"}
  BY <1>2 DEF Range
<1>5. DOMAIN results' = Range(claims)
  BY DEF Enter
<1>6. \A i \in DOMAIN task' : task'[i] # "collected"
  BY <1>2
<1>7. DOMAIN task' = DOMAIN claims' /\ DOMAIN results' = Range(claims')
  BY <1>3, <1>5 DEF Range
<1>8. Kept'
  BY <1>6, <1>7 DEF Kept
<1> QED  BY <1>1, <1>3, <1>4, <1>8

\* The status of one task, or of several, changes.
LEMMA TaskTyped ==
    ASSUME CaseTypeOK, DOMAIN task' = DOMAIN task,
           \A i \in DOMAIN task : task'[i] = task[i] \/ task'[i] \in {"running", "returned", "collected"}
    PROVE  /\ Len(task') = Len(task) /\ DOMAIN task' = 1 .. Len(task')
           /\ Range(task') \subseteq {"queued", "running", "returned", "collected"}
<1>1. DOMAIN task = 1 .. Len(task) /\ Len(task) \in Nat
  BY DEF CaseTypeOK
<1>2. \A i \in DOMAIN task : task[i] \in {"queued", "running", "returned", "collected"}
  BY DEF CaseTypeOK, Range
<1>3. Len(task') = Len(task)
  BY <1>1
<1>4. \A i \in DOMAIN task' : task'[i] \in {"queued", "running", "returned", "collected"}
  BY <1>2
<1> QED  BY <1>1, <1>3, <1>4 DEF Range

\* One task is collected: its result is kept under the id of its claim.
LEMMA CollectKept ==
    ASSUME Kept, stage \in Sections, NEW i \in DOMAIN task,
           task' = [task EXCEPT ![i] = "collected"],
           results' = [results EXCEPT ![claims[i]] = i], UNCHANGED claims
    PROVE  Kept'
<1>1. DOMAIN task = DOMAIN claims /\ DOMAIN results = Range(claims)
  BY DEF Kept
<1>2. DOMAIN task' = DOMAIN claims' /\ DOMAIN results' = Range(claims')
  <2>1. DOMAIN task' = DOMAIN task /\ DOMAIN results' = DOMAIN results
    OBVIOUS
  <2>2. Range(claims') = Range(claims)
    BY DEF Range
  <2> QED  BY <1>1, <2>1, <2>2
<1>3. ASSUME NEW j \in DOMAIN task', task'[j] = "collected"
      PROVE  results'[claims'[j]] \in DOMAIN claims' /\ claims'[results'[claims'[j]]] = claims'[j]
  <2>1. j \in DOMAIN claims /\ i \in DOMAIN claims
    BY <1>1, <1>3
  <2>2. claims[j] \in DOMAIN results
    BY <1>1, <2>1 DEF Range
  <2>3. CASE claims[j] = claims[i]
    BY <2>1, <2>2, <2>3
  <2>4. CASE claims[j] # claims[i]
    <3>1. j # i /\ task[j] = "collected"
      BY <1>3, <2>4
    <3>2. results[claims[j]] \in DOMAIN claims /\ claims[results[claims[j]]] = claims[j]
      BY <3>1, <1>3 DEF Kept
    <3> QED  BY <2>2, <2>4, <3>2
  <2> QED  BY <2>3, <2>4
<1> QED  BY <1>2, <1>3 DEF Kept

\* Every step keeps the types, and what is kept under the id of a claim.
LEMMA StepKeepsTypes ==
    ASSUME PipelineAssumption, CaseInvariant, [CaseNext]_caseVars
    PROVE  CaseTypeOK' /\ Kept'
<1>s. /\ setup' = setup /\ Cases' = Cases /\ Answers' = Answers /\ Workers' = Workers
      /\ MaxRuns' = MaxRuns
  BY StepSetup
<1> USE <1>s
<1> USE DEF CaseInvariant, ReportComplete
<1> DEFINE Typed ==
             /\ DOMAIN task' = 1 .. Len(task') /\ Len(task') \in Nat
             /\ Range(task') \subseteq {"queued", "running", "returned", "collected"}
<1>0. CaseTypeOK /\ Kept /\ ReportInvariant
  OBVIOUS
<1>1. Len(task) \in Nat /\ DOMAIN task = 1 .. Len(task)
  BY DEF CaseTypeOK
<1>2. CASE UNCHANGED caseVars
  BY <1>2 DEF caseVars, pool, diagnostics, effects, CaseTypeOK, Kept, Range
<1>3. CASE Media
  <2>1. CaseTypeOK'
    BY <1>3 DEF Media, CaseTypeOK, pool, diagnostics, effects
  <2>2. stage' \notin Sections
    BY <1>3 DEF Media, Sections
  <2> QED  BY <2>1, <2>2 DEF Kept
<1>4. CASE Decompose
  <2>1. DOMAIN claims' = 1 .. Len(claims') /\ Len(claims') \in Nat
    <3>1. case.claims \in Seq(STRING) /\ Types \in Seq(STRING)
      BY SetupTyped DEF CaseTypeOK
    <3>2. \A a \in Answers : DOMAIN Completed(a) = 1 .. Len(Completed(a)) /\ Len(Completed(a)) \in Nat
      BY CompletedSeq DEF CaseTypeOK
    <3>3. claims' \in {case.claims, Types} \/ \E a \in Answers : claims' = Completed(a)
      BY <1>4 DEF Decompose, ClaimsOfBundle
    <3> QED  BY <3>1, <3>2, <3>3
  <2>2. report' = None
    BY <1>4 DEF Decompose, ReportInvariant, Before
  <2>3. events' \subseteq happened'
    BY <1>4 DEF Decompose, diagnostics, CaseTypeOK
  <2>4. CaseTypeOK'
    BY <1>4, <2>1, <2>2, <2>3 DEF Decompose, CaseTypeOK, effects
  <2>5. stage' \notin Sections
    BY <1>4 DEF Decompose, Sections
  <2> QED  BY <2>4, <2>5 DEF Kept
<1>5. CASE Memory \/ PlanDone \/ ResearchDone
  <2>1. PICK section \in Sections : Enter(section)
    BY <1>5 DEF Memory, PlanDone, ResearchDone, Sections
  <2>2. UNCHANGED <<run, case, claims, report, diagnostics, files>>
    BY <1>5 DEF Memory, PlanDone, ResearchDone
  <2>3. Typed /\ Kept'
    BY <2>1, <2>2, EnterTyped
  <2>4. CaseTypeOK'
    BY <2>2, <2>3 DEF CaseTypeOK, diagnostics
  <2> QED  BY <2>3, <2>4
<1>6. CASE Take
  <2>1. PICK i \in DOMAIN task : task' = [task EXCEPT ![i] = "running"]
    BY <1>6 DEF Take
  <2>2. Typed
    BY <1>1, <2>1, TaskTyped
  <2>3. CaseTypeOK'
    BY <1>6, <2>2 DEF Take, CaseTypeOK, diagnostics, effects
  <2>4. \A j \in DOMAIN task' : task'[j] = "collected" => task[j] = "collected"
    BY <2>1
  <2>5. UNCHANGED <<stage, claims, results>> /\ DOMAIN task' = DOMAIN task
    BY <1>6, <2>1 DEF Take
  <2> QED  BY <2>3, <2>4, <2>5 DEF Kept, Range
<1>7. CASE Return
  <2>1. PICK i \in DOMAIN task : /\ task' = [task EXCEPT ![i] = "returned"]
                                 /\ \/ UNCHANGED diagnostics
                                    \/ /\ happened' = happened \cup {<<stage, i>>}
                                       /\ events' = IF Sequential THEN events \cup {<<stage, i>>} ELSE events
    BY <1>7 DEF Return
  <2>2. Typed
    BY <1>1, <2>1, TaskTyped
  <2>3. events' \subseteq happened'
    BY <2>1 DEF diagnostics, CaseTypeOK
  <2>4. CaseTypeOK'
    BY <1>7, <2>2, <2>3 DEF Return, CaseTypeOK, effects
  <2>5. \A j \in DOMAIN task' : task'[j] = "collected" => task[j] = "collected"
    BY <2>1
  <2>6. UNCHANGED <<stage, claims, results>> /\ DOMAIN task' = DOMAIN task
    BY <1>7, <2>1 DEF Return
  <2> QED  BY <2>4, <2>5, <2>6 DEF Kept, Range
<1>8. CASE Collect
  <2>1. PICK i \in DOMAIN task : /\ task' = [task EXCEPT ![i] = "collected"]
                                 /\ results' = [results EXCEPT ![claims[i]] = i]
    BY <1>8 DEF Collect
  <2>2. Typed
    BY <1>1, <2>1, TaskTyped
  <2>3. CaseTypeOK'
    BY <1>8, <2>2 DEF Collect, CaseTypeOK, diagnostics, effects
  <2>4. stage \in Sections /\ UNCHANGED claims
    BY <1>8 DEF Collect
  <2> QED  BY <2>1, <2>3, <2>4, CollectKept
<1>9. CASE Raise
  <2>1. DOMAIN task' = DOMAIN task
    BY <1>9 DEF Raise
  <2>2. \A i \in DOMAIN task : task'[i] = task[i] \/ task'[i] \in {"running", "returned", "collected"}
    BY <1>9 DEF Raise
  <2>3. Typed
    BY <1>1, <2>1, <2>2, TaskTyped
  <2>4. events' \subseteq happened'
    BY <1>9 DEF Raise, CaseTypeOK
  <2>5. CaseTypeOK'
    BY <1>9, <2>3, <2>4 DEF Raise, CaseTypeOK, effects
  <2>6. CASE stage = "plan"
    <3>1. PICK i \in DOMAIN task : /\ task' = [task EXCEPT ![i] = "collected"]
                                   /\ results' = [results EXCEPT ![claims[i]] = i]
      BY <1>9, <2>6 DEF Raise
    <3>2. stage \in Sections /\ UNCHANGED claims
      BY <1>9, <2>6 DEF Raise, Sections
    <3> QED  BY <2>5, <3>1, <3>2, CollectKept
  <2>7. CASE stage # "plan"
    <3>1. stage' \notin Sections
      BY <1>9, <2>7 DEF Raise, Sections
    <3> QED  BY <2>5, <3>1 DEF Kept
  <2> QED  BY <2>6, <2>7
<1>10. CASE Fail \/ Review \/ Learn \/ Saved
  <2>1. UNCHANGED <<run, case, claims, task, report, diagnostics, files>>
    BY <1>10 DEF Fail, Review, Learn, Saved, pool
  <2>2. stage' \notin Sections
    BY <1>10 DEF Fail, Review, Learn, Saved, Sections
  <2>3. CaseTypeOK'
    BY <2>1 DEF CaseTypeOK, diagnostics, Range
  <2> QED  BY <2>2, <2>3 DEF Kept
<1>11. CASE Report
  <2>1. report' \in [DOMAIN claims -> DOMAIN claims]
    BY <1>11, JoinedInPlace DEF Report, Sections
  <2>2. CaseTypeOK'
    BY <1>11, <2>1 DEF Report, CaseTypeOK, pool, diagnostics
  <2>3. stage' \notin Sections
    BY <1>11 DEF Report, Sections
  <2> QED  BY <2>2, <2>3 DEF Kept
<1>12. CASE Save
  <2>1. run \in 0 .. MaxRuns
    BY SetupTyped DEF CaseTypeOK
  <2>2. files' \in [Range(FileOrder) -> 0 .. MaxRuns]
    BY <1>12, <2>1 DEF Save, CaseTypeOK
  <2>3. CaseTypeOK'
    BY <1>12, <2>2 DEF Save, CaseTypeOK, pool, diagnostics, effects
  <2>4. stage' \notin Sections
    BY <1>12 DEF Save, Sections
  <2> QED  BY <2>3, <2>4 DEF Kept
<1>13. CASE RunAgain
  <2>1. run' \in 1 .. MaxRuns
    BY <1>13, SetupTyped DEF RunAgain, CaseTypeOK
  <2>2. DOMAIN <<>> = 1 .. Len(<<>>) /\ Len(<<>>) \in Nat /\ Range(<<>>) = {}
    BY DEF Range
  <2>3. CaseTypeOK'
    BY <1>13, <2>1, <2>2 DEF RunAgain, CaseTypeOK
  <2>4. stage' \notin Sections
    BY <1>13 DEF RunAgain, Sections
  <2> QED  BY <2>3, <2>4 DEF Kept
<1> QED  BY <1>2, <1>3, <1>4, <1>5, <1>6, <1>7, <1>8, <1>9, <1>10, <1>11, <1>12, <1>13 DEF CaseNext, CaseStep

-----------------------------------------------------------------------------
(* What the report says, where gold is, and which fallbacks are known.      *)

\* A tuple of the evidence that was found is not the one that stands for gold.
LEMMA FoundIsNotGold ==
    ASSUME NEW S
    PROVE  <<"gold">> \notin {<<"found for", i>> : i \in S}
<1>1. \A i : Len(<<"gold">>) = 1 /\ Len(<<"found for", i>>) = 2
  OBVIOUS
<1> QED  BY <1>1

\* Every step keeps the report and the guards of gold and of learning.
LEMMA StepKeepsReport ==
    ASSUME PipelineAssumption, CaseInvariant, [CaseNext]_caseVars
    PROVE  ReportInvariant' /\ GoldGuarded' /\ ParallelIsSequential'
<1>s. /\ setup' = setup /\ Cases' = Cases /\ Answers' = Answers /\ Workers' = Workers
      /\ MaxRuns' = MaxRuns
  BY StepSetup
<1> USE <1>s
<1> DEFINE Reported == ReportInvariant /\ GoldGuarded /\ ParallelIsSequential
           found == <<report, staged, goldRead, evidence, case, claims>>
<1>0. CaseTypeOK /\ Kept /\ ReportInvariant /\ GoldUnseen /\ LearnsOnlyWhereAllowed /\ ParallelIsSequential
  BY DEF CaseInvariant, ReportComplete, GoldGuarded
<1>1. ASSUME UNCHANGED claims
      PROVE  (Sequential' <=> Sequential) /\ (Distinct' <=> Distinct)
  BY <1>1 DEF Sequential, MaxWorkers, Distinct
<1>2. ASSUME UNCHANGED found
      PROVE  GoldGuarded' /\ ParallelIsSequential'
  <2>1. GoldGuarded'
    BY <1>0, <1>2 DEF GoldGuarded, GoldUnseen, LearnsOnlyWhereAllowed, Supervised
  <2>2. ParallelIsSequential'
    BY <1>0, <1>1, <1>2 DEF ParallelIsSequential, AllFound
  <2> QED  BY <2>1, <2>2
<1>3. CASE UNCHANGED caseVars
  <2>1. UNCHANGED <<found, stage, happened, events>>
    BY <1>3 DEF caseVars, pool, diagnostics, effects
  <2>2. ReportInvariant'
    BY <1>0, <1>1, <2>1 DEF ReportInvariant, AllFound
  <2> QED  BY <1>2, <2>1, <2>2
<1>4. CASE Media
  <2>1. /\ stage = "start" /\ stage' \in {"refused", "claims"} /\ evidence' \in {{}, {<<"media">>}}
        /\ UNCHANGED <<case, claims, report, happened, events, staged, goldRead>>
    BY <1>4 DEF Media, pool, diagnostics, effects
  <2>2. report = None /\ ~goldRead /\ ~staged /\ events = happened
    BY <1>0, <2>1 DEF ReportInvariant, Before
  <2>3. <<"gold">> \notin evidence'
    BY <2>1
  <2>4. ReportInvariant'
    BY <2>1, <2>2 DEF ReportInvariant, Before, After, Sections
  <2> QED  BY <2>1, <2>2, <2>3, <2>4 DEF GoldGuarded, GoldUnseen, LearnsOnlyWhereAllowed, ParallelIsSequential
<1>5. CASE Decompose
  <2>1. /\ stage = "claims" /\ stage' = "memory"
        /\ UNCHANGED <<case, evidence, report, staged, goldRead>>
    BY <1>5 DEF Decompose, effects
  <2>2. report = None /\ ~goldRead /\ ~staged /\ events = happened
    BY <1>0, <2>1 DEF ReportInvariant, Before
  <2>3. events' = happened'
    BY <1>5, <2>2 DEF Decompose, diagnostics
  <2>4. ReportInvariant'
    BY <2>1, <2>2, <2>3 DEF ReportInvariant, Before, After, Sections
  <2> QED  BY <1>0, <2>1, <2>2, <2>4 DEF GoldGuarded, GoldUnseen, LearnsOnlyWhereAllowed, ParallelIsSequential
<1>6. CASE Memory
  <2>1. stage = "memory" /\ stage' = "plan" /\ UNCHANGED <<found, happened, events>>
    BY <1>6 DEF Memory, Enter, diagnostics, effects
  <2>2. ReportInvariant'
    BY <1>0, <1>1, <2>1 DEF ReportInvariant, Before, After, Sections
  <2> QED  BY <1>2, <2>1, <2>2
<1>7. CASE Take \/ Collect
  <2>1. UNCHANGED <<found, stage, happened, events>>
    BY <1>7 DEF Take, Collect, diagnostics, effects
  <2>2. ReportInvariant'
    BY <1>0, <1>1, <2>1 DEF ReportInvariant, AllFound
  <2> QED  BY <1>2, <2>1, <2>2
<1>8. CASE Return
  <2>1. stage \in Sections \cup {"failing"} /\ UNCHANGED <<found, stage>>
    BY <1>8 DEF Return, InSection, effects
  <2>2. Sequential /\ events = happened => events' = happened'
    BY <1>8 DEF Return, diagnostics
  <2>3. ReportInvariant'
    BY <1>0, <1>1, <2>1, <2>2 DEF ReportInvariant, AllFound, Before, After, Sections
  <2> QED  BY <1>2, <2>1, <2>3
<1>9. CASE Raise
  <2>1. stage \in Sections \cup {"failing"} /\ UNCHANGED found
    BY <1>9 DEF Raise, InSection, effects
  <2>2. \/ stage = "plan" /\ stage' = "plan" /\ (events = happened => events' = happened')
        \/ stage' = "failing"
    BY <1>9 DEF Raise
  <2>3. ReportInvariant'
    BY <1>0, <1>1, <2>1, <2>2 DEF ReportInvariant, AllFound, Before, After, Sections
  <2> QED  BY <1>2, <2>1, <2>3
<1>10. CASE Fail
  <2>1. stage = "failing" /\ stage' = "failed" /\ UNCHANGED found
    BY <1>10 DEF Fail, pool, effects
  <2>2. ReportInvariant'
    BY <1>0, <1>1, <2>1 DEF ReportInvariant, Before, After, Sections
  <2> QED  BY <1>2, <2>1, <2>2
<1>11. CASE PlanDone
  <2>1. /\ stage = "plan" /\ UNCHANGED <<found, happened, events>>
        /\ stage' = IF case.search THEN "research" ELSE "argue"
    BY <1>11 DEF PlanDone, Enter, diagnostics, effects
  <2>2. ReportInvariant'
    BY <1>0, <1>1, <2>1 DEF ReportInvariant, Before, After, Sections, AllFound
  <2> QED  BY <1>2, <2>1, <2>2
<1>12. CASE ResearchDone
  <2>1. /\ stage = "research" /\ stage' = "argue" /\ Finished
        /\ UNCHANGED <<case, claims, report, happened, events, staged, goldRead>>
        /\ evidence' = evidence \cup {<<"found for", i>> : i \in Range(Joined)}
    BY <1>12 DEF ResearchDone, Enter, diagnostics, effects
  <2>2. report = None /\ ~goldRead /\ ~staged
    BY <1>0, <2>1 DEF ReportInvariant, Before, Sections
  <2>3. Sequential \/ Distinct => Joined = [i \in DOMAIN claims |-> i]
    BY <1>0, <2>1, JoinedInPlace DEF Sections
  <2>4. Sequential \/ Distinct => AllFound'
    <3> SUFFICES ASSUME Sequential \/ Distinct, NEW i \in DOMAIN claims
                 PROVE  <<"found for", i>> \in evidence'
      BY <2>1 DEF AllFound
    <3>1. i \in Range(Joined)
      BY <2>3 DEF Range
    <3> QED  BY <2>1, <3>1
  <2>5. ReportInvariant'
    BY <1>0, <1>1, <2>1, <2>2, <2>4 DEF ReportInvariant, Before, After, Sections
  <2>6. <<"gold">> \notin evidence'
    BY <1>0, <2>1, FoundIsNotGold DEF GoldUnseen
  <2> QED  BY <2>1, <2>2, <2>5, <2>6 DEF GoldGuarded, GoldUnseen, LearnsOnlyWhereAllowed, ParallelIsSequential
<1>13. CASE Report
  <2>1. /\ stage = "argue" /\ stage' = "review" /\ Finished /\ report' = Joined
        /\ UNCHANGED <<case, claims, evidence, happened, events, staged, goldRead>>
    BY <1>13 DEF Report, pool, diagnostics
  <2>2. ~goldRead /\ ~staged
    BY <1>0, <2>1 DEF ReportInvariant, Before, Sections
  <2>3. Joined \in [DOMAIN claims -> DOMAIN claims]
    BY <1>0, <2>1, JoinedInPlace DEF Sections
  <2>4. Sequential \/ Distinct => Joined = [i \in DOMAIN claims |-> i]
    BY <1>0, <2>1, JoinedInPlace DEF Sections
  <2>5. report' # None
    <3> SUFFICES ASSUME Joined = None
                 PROVE  FALSE
      BY <2>1
    <3>1. DOMAIN None = {1} /\ None[1] = 0
      BY DEF None
    <3>2. 1 \in DOMAIN claims /\ 0 \in DOMAIN claims
      BY <2>3, <3>1
    <3> QED  BY <1>0, <3>2 DEF CaseTypeOK
  <2>6. Sequential \/ Distinct => AllFound
    BY <1>0, <2>1 DEF ReportInvariant
  <2>7. ReportInvariant'
    BY <1>0, <1>1, <2>1, <2>5 DEF ReportInvariant, Before, After, Sections
  <2>8. GoldGuarded'
    BY <1>0, <2>1, <2>2 DEF GoldGuarded, GoldUnseen, LearnsOnlyWhereAllowed
  <2>9. ParallelIsSequential'
    BY <1>1, <2>1, <2>4, <2>6 DEF ParallelIsSequential, AllFound
  <2> QED  BY <2>7, <2>8, <2>9
<1>14. CASE Review
  <2>1. /\ stage = "review" /\ stage' \in {"failed", "learn"} /\ UNCHANGED <<found, happened, events>>
    BY <1>14 DEF Review, pool, diagnostics
  <2>2. ReportInvariant'
    BY <1>0, <1>1, <2>1 DEF ReportInvariant, Before, After, Sections
  <2> QED  BY <1>2, <2>1, <2>2
<1>15. CASE Learn
  <2>1. /\ stage = "learn" /\ stage' = "save"
        /\ UNCHANGED <<case, claims, evidence, report, happened, events>>
    BY <1>15 DEF Learn, pool, diagnostics
  <2>2. report # None
    BY <1>0, <2>1 DEF ReportInvariant, After
  <2>3. ReportInvariant'
    BY <1>0, <1>1, <2>1, <2>2 DEF ReportInvariant, Before, After, Sections
  <2>4. LearnsOnlyWhereAllowed'
    <3>1. CASE case.mode \in Learning /\ Supervised
      <4>1. staged' => case.update /\ ~case.frozen
        BY <1>15, <3>1 DEF Learn
      <4> QED  BY <2>1, <2>2, <3>1, <4>1 DEF LearnsOnlyWhereAllowed, Supervised
    <3>2. CASE ~(case.mode \in Learning /\ Supervised)
      <4>1. UNCHANGED staged
        BY <1>15, <3>2 DEF Learn
      <4> QED  BY <1>0, <2>1, <4>1 DEF LearnsOnlyWhereAllowed, Supervised
    <3> QED  BY <3>1, <3>2
  <2>5. ParallelIsSequential'
    BY <1>0, <1>1, <2>1 DEF ParallelIsSequential, AllFound
  <2> QED  BY <1>0, <2>1, <2>2, <2>3, <2>4, <2>5 DEF GoldGuarded, GoldUnseen
<1>16. CASE Save \/ Saved
  <2>1. stage = "save" /\ stage' \in {"save", "done"} /\ UNCHANGED <<found, happened, events>>
    BY <1>16 DEF Save, Saved, pool, diagnostics, effects
  <2>2. ReportInvariant'
    BY <1>0, <1>1, <2>1 DEF ReportInvariant, Before, After, Sections
  <2> QED  BY <1>2, <2>1, <2>2
<1>17. CASE RunAgain
  <2>1. /\ stage' = "start" /\ evidence' = {} /\ report' = None /\ happened' = {} /\ events' = {}
        /\ ~staged' /\ ~goldRead'
    BY <1>17 DEF RunAgain
  <2>2. ReportInvariant'
    BY <2>1 DEF ReportInvariant, Before, After, Sections
  <2> QED  BY <2>1, <2>2 DEF GoldGuarded, GoldUnseen, LearnsOnlyWhereAllowed, ParallelIsSequential
<1> QED  BY <1>3, <1>4, <1>5, <1>6, <1>7, <1>8, <1>9, <1>10, <1>11, <1>12, <1>13, <1>14, <1>15, <1>16, <1>17
            DEF CaseNext, CaseStep

-----------------------------------------------------------------------------
(* What is saved.                                                           *)

\* The file that is written is the first of those that are missing: when it is
\* the report, the parts of the report are there.
LEMMA SavedInOrder ==
    ASSUME CaseTypeOK, NEW S, S = Unwritten, S # {}
    PROVE  /\ FileOrder[Min(S)] \in Range(FileOrder)
           /\ FileOrder[Min(S)] = "report" =>
                \A part \in {"evidence", "arguments", "diagnostics"} : files[part] = run
<1>1. S \in SUBSET (1 .. 8)
  BY FilesInOrder DEF Unwritten
<1>2. Min(S) \in S /\ \A k \in S : Min(S) <= k
  BY <1>1, LeastPlace
<1>3. FileOrder[Min(S)] \in Range(FileOrder)
  BY <1>1, <1>2, FilesInOrder
<1>4. {"evidence", "arguments", "diagnostics"} \subseteq Written(case)
  BY FilesInOrder DEF Written
<1>5. \A k \in 1 .. 3 : k \notin S => files[FileOrder[k]] = run
  <2>1. \A k \in 1 .. 3 : k = 1 \/ k = 2 \/ k = 3
    OBVIOUS
  <2>2. \A k \in 1 .. 3 : k \in 1 .. 8 /\ FileOrder[k] \in Written(case)
    BY <2>1, <1>4, FilesInOrder
  <2> QED  BY <2>2, FilesInOrder DEF Unwritten
<1>6. ASSUME FileOrder[Min(S)] = "report"
      PROVE  1 \notin S /\ 2 \notin S /\ 3 \notin S
  <2>1. Min(S) = 5
    BY <1>1, <1>2, <1>6, FilesInOrder
  <2> QED  BY <1>2, <2>1
<1>7. ASSUME FileOrder[Min(S)] = "report"
      PROVE  files["evidence"] = run /\ files["arguments"] = run /\ files["diagnostics"] = run
  BY <1>5, <1>6, <1>7, FilesInOrder
<1> QED  BY <1>3, <1>7

\* Every step keeps the files in their order.
LEMMA StepKeepsFiles ==
    ASSUME PipelineAssumption, CaseInvariant, [CaseNext]_caseVars
    PROVE  FilesInvariant' /\ ReportAfterItsParts'
<1>s. /\ setup' = setup /\ Cases' = Cases /\ Answers' = Answers /\ Workers' = Workers
      /\ MaxRuns' = MaxRuns
  BY StepSetup
<1> USE <1>s
<1> DEFINE parts == {"evidence", "arguments", "diagnostics"}
<1>0. CaseTypeOK /\ FilesInvariant /\ ReportAfterItsParts
  BY DEF CaseInvariant, ReportComplete
<1>1. /\ run \in Nat /\ DOMAIN files = Range(FileOrder) /\ \A f \in Range(FileOrder) : files[f] \in Nat
      /\ parts \subseteq Range(FileOrder) /\ "report" \in Range(FileOrder)
  BY <1>0, FilesInOrder DEF CaseTypeOK
<1>2. ASSUME UNCHANGED <<files, run>>, stage \in {"save", "done"} => stage' \in {"save", "done"}
      PROVE  FilesInvariant' /\ ReportAfterItsParts'
  BY <1>0, <1>2 DEF FilesInvariant, ReportAfterItsParts
<1>3. CASE UNCHANGED caseVars
  BY <1>2, <1>3 DEF caseVars
<1>4. CASE Media \/ Decompose \/ Memory \/ Take \/ Return \/ Collect \/ Raise \/ Fail
  <2>1. UNCHANGED <<files, run>> /\ stage \notin {"save", "done"}
    BY <1>4 DEF Media, Decompose, Memory, Take, Return, Collect, Raise, Fail, InSection, Sections
  <2> QED  BY <1>2, <2>1
<1>5. CASE PlanDone \/ ResearchDone \/ Report \/ Review \/ Learn
  <2>1. UNCHANGED <<files, run>> /\ stage \notin {"save", "done"}
    BY <1>5 DEF PlanDone, ResearchDone, Report, Review, Learn
  <2> QED  BY <1>2, <2>1
<1>6. CASE Saved
  <2>1. UNCHANGED <<files, run>> /\ stage' = "done"
    BY <1>6 DEF Saved
  <2> QED  BY <1>2, <2>1
<1>7. CASE Save
  <2>1. PICK f : f = FileOrder[Min(Unwritten)]
    OBVIOUS
  <2>2. /\ f \in Range(FileOrder)
        /\ f = "report" => \A part \in parts : files[part] = run
    <3>1. Unwritten # {}
      BY <1>7 DEF Save
    <3> QED  BY <1>0, <2>1, <3>1, SavedInOrder
  <2>3. files' = [files EXCEPT ![f] = run] /\ stage = "save" /\ UNCHANGED <<stage, run>>
    BY <1>7, <2>1 DEF Save
  <2>4. \A g \in Range(FileOrder) : files'[g] = IF g = f THEN run ELSE files[g]
    BY <1>1, <2>2, <2>3
  <2>5. \A g \in Range(FileOrder) : files[g] <= run
    BY <1>0, <1>1 DEF FilesInvariant
  <2>6. DOMAIN files' = Range(FileOrder) /\ \A g \in DOMAIN files' : files'[g] <= run'
    BY <1>1, <2>3, <2>4, <2>5
  <2>7. ASSUME NEW part \in parts
        PROVE  files'["report"] = run => files'[part] = run
    <3>1. part # "report" /\ part \in Range(FileOrder)
      BY <1>1
    <3>2. CASE f = "report"
      BY <1>1, <2>2, <2>4, <3>1, <3>2
    <3>3. CASE f # "report"
      BY <1>0, <1>1, <2>4, <3>1, <3>3 DEF FilesInvariant
    <3> QED  BY <3>2, <3>3
  <2>8. ASSUME NEW part \in parts
        PROVE  files'[part] >= files'["report"]
    <3>1. part # "report" /\ part \in Range(FileOrder)
      BY <1>1
    <3>2. CASE files'["report"] = run
      BY <1>1, <2>7, <3>2
    <3>3. CASE files'["report"] # run
      <4>1. files'["report"] = files["report"]
        BY <1>1, <2>4, <3>3
      <4>2. files[part] >= files["report"]
        BY <1>0 DEF ReportAfterItsParts
      <4>3. files'[part] \in {run, files[part]}
        BY <2>4, <3>1
      <4> QED  BY <1>1, <2>5, <3>1, <4>1, <4>2, <4>3
    <3> QED  BY <3>2, <3>3
  <2>9. FilesInvariant'
    BY <2>3, <2>6, <2>7 DEF FilesInvariant
  <2> QED  BY <2>8, <2>9 DEF ReportAfterItsParts
<1>8. CASE RunAgain
  <2>1. UNCHANGED files /\ run' = run + 1
    BY <1>8 DEF RunAgain
  <2>2. \A f \in DOMAIN files : files[f] <= run
    BY <1>0 DEF FilesInvariant
  <2>3. \A f \in DOMAIN files' : files'[f] < run'
    BY <1>1, <2>1, <2>2
  <2>4. FilesInvariant'
    <3>1. \A f \in DOMAIN files' : files'[f] <= run'
      BY <1>1, <2>1, <2>2
    <3>2. files'["report"] # run'
      BY <1>1, <2>1, <2>3
    <3> QED  BY <2>3, <3>1, <3>2 DEF FilesInvariant
  <2> QED  BY <1>0, <2>1, <2>4 DEF ReportAfterItsParts
<1> QED  BY <1>3, <1>4, <1>5, <1>6, <1>7, <1>8 DEF CaseNext, CaseStep

-----------------------------------------------------------------------------
(***************************************************************************)
(* The invariant holds of every case, however its threads are scheduled,   *)
(* whatever they raise, and wherever its runs are killed.                 *)
(***************************************************************************)
THEOREM CaseInvariantHolds ==
    ASSUME PipelineAssumption
    PROVE  CaseSpec => []CaseInvariant
<1>1. CaseInit => CaseInvariant
  BY CaseStarts
<1>2. CaseInvariant /\ [CaseNext]_caseVars => CaseInvariant'
  <2> SUFFICES ASSUME CaseInvariant, [CaseNext]_caseVars
               PROVE  CaseInvariant'
    OBVIOUS
  <2>1. CaseTypeOK' /\ Kept'
    BY StepKeepsTypes
  <2>2. ReportInvariant' /\ GoldGuarded' /\ ParallelIsSequential'
    BY StepKeepsReport
  <2>3. FilesInvariant' /\ ReportAfterItsParts'
    BY StepKeepsFiles
  <2>4. FallbacksReported'
    BY <2>2 DEF ReportInvariant, FallbacksReported
  <2> QED  BY <2>1, <2>2, <2>3, <2>4 DEF CaseInvariant, ReportComplete
<1> QED  BY <1>1, <1>2, PTL DEF CaseSpec

(***************************************************************************)
(* No prediction sees gold, whatever the bundle holds and in no mode, and  *)
(* nothing is staged but where the mode, the case and the memory allow it. *)
(***************************************************************************)
THEOREM GoldIsGuarded ==
    ASSUME PipelineAssumption
    PROVE  CaseSpec => []GoldGuarded
<1>1. CaseInvariant => GoldGuarded
  BY DEF CaseInvariant
<1> QED  BY <1>1, CaseInvariantHolds, PTL

(***************************************************************************)
(* The report of several threads is the one that a single thread makes,    *)
(* for any number of claims, of workers and of exceptions, if the claims   *)
(* have different names.                                                   *)
(***************************************************************************)
THEOREM ReportIsSequential ==
    ASSUME PipelineAssumption
    PROVE  CaseSpec => []ParallelIsSequential
<1>1. CaseInvariant => ParallelIsSequential
  BY DEF CaseInvariant
<1> QED  BY <1>1, CaseInvariantHolds, PTL

(***************************************************************************)
(* A report never lies beside parts older than itself, however many runs   *)
(* of the case are killed, and on one thread it names every fallback.      *)
(***************************************************************************)
THEOREM ReportIsComplete ==
    ASSUME PipelineAssumption
    PROVE  CaseSpec => []ReportComplete
<1>1. CaseInvariant => ReportComplete
  BY DEF CaseInvariant
<1> QED  BY <1>1, CaseInvariantHolds, PTL
==============================================================================
