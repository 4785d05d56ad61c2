---------------------------- MODULE Store_proofs -----------------------------
(***************************************************************************)
(* Proofs about MemoryUsage and SeedMemory: however many cases, arguments, *)
(* records, seeders and consolidators there are, and wherever they are     *)
(* killed, the counts of a record are those of the uses that training      *)
(* cases logged, every rule is in the file after seeding, and no record    *)
(* that was in it is lost.                                                 *)
(***************************************************************************)
EXTENDS MemoryUsage, SeedMemory, FiniteSetTheorems, SequenceTheorems, TLAPS

-----------------------------------------------------------------------------
(* Sets and sequences.                                                      *)

\* A sequence made of a finite set holds elements of it.
LEMMA SetToSeqType ==
    ASSUME NEW S, IsFiniteSet(S)
    PROVE  SetToSeq(S) \in Seq(S)
<1> DEFINE n == Cardinality(S)
           Enumerates(f) == f \in [1 .. n -> S] /\ IsInjective(f)
<1>1. n \in Nat /\ ExistsBijection(1 .. n, S)
  BY FS_CardinalityType
<1>2. PICK f \in Bijection(1 .. n, S) : TRUE
  BY <1>1 DEF ExistsBijection
<1>3. Enumerates(f)
  BY <1>2 DEF Bijection, Injection, IsInjective
<1>4. SetToSeq(S) = CHOOSE g \in [1 .. n -> S] : IsInjective(g)
  BY DEF SetToSeq
<1>5. SetToSeq(S) \in [1 .. n -> S]
  <2> HIDE DEF n
  <2> QED  BY <1>3, <1>4
<1> QED  BY <1>1, <1>5 DEF Seq

\* A sequence of elements of a set is one of elements of a larger set.
LEMMA SubsetSeq ==
    ASSUME NEW S, NEW T, S \subseteq T, NEW s \in Seq(S)
    PROVE  s \in Seq(T)
  BY DEF Seq

\* The same of a subset of a finite set.
LEMMA SubsetToSeqType ==
    ASSUME NEW T, IsFiniteSet(T), NEW S \in SUBSET T
    PROVE  SetToSeq(S) \in Seq(T)
<1>1. IsFiniteSet(S)  BY FS_Subset
<1>2. SetToSeq(S) \in Seq(S)  BY <1>1, SetToSeqType
<1> QED  BY <1>2, SubsetSeq

\* A case can log finitely many different events.
LEMMA EventsFinite ==
    ASSUME UsageAssumption, NEW c \in Cases
    PROVE  IsFiniteSet(EventsOf(c))
<1> DEFINE ArgNames == Args \cup {"none"}
           Values == (Memories \X Stages) \X (ArgNames \X OutcomeNames)
           f == [e \in EventsOf(c) |-> <<<<e.memory, e.stage>>, <<e.arg, e.outcome>>>>]
<1>1. IsFiniteSet(Stages) /\ IsFiniteSet(OutcomeNames) /\ IsFiniteSet({"none"})
  <2>1. /\ {"retrieved"} \cup {"planner_cited"} \cup {"argument_cited"} = Stages
        /\ {"unknown"} \cup {"contested"} \cup {"successful"} \cup {"unsuccessful"} = OutcomeNames
    BY DEF Stages, OutcomeNames
  <2>2. /\ IsFiniteSet({"retrieved"} \cup {"planner_cited"})
        /\ IsFiniteSet({"unknown"} \cup {"contested"})
    BY FS_Singleton, FS_AddElement
  <2>3. IsFiniteSet({"unknown"} \cup {"contested"} \cup {"successful"})
    BY <2>2, FS_AddElement
  <2> QED  BY <2>1, <2>2, <2>3, FS_AddElement, FS_Singleton
<1>2. IsFiniteSet(Memories) /\ IsFiniteSet(ArgNames)
  BY <1>1, FS_Union DEF UsageAssumption
<1>3. IsFiniteSet(Memories \X Stages) /\ IsFiniteSet(ArgNames \X OutcomeNames)
  BY <1>1, <1>2, FS_Product
<1>4. IsFiniteSet(Values)
  BY <1>3, FS_Product
<1>5. f \in [EventsOf(c) -> Values]
  BY DEF EventsOf
<1>6. \A d, e \in EventsOf(c) : f[d] = f[e] => d = e
  BY DEF EventsOf
<1>7. f \in Injection(EventsOf(c), Values)
  BY <1>5, <1>6 DEF Injection, IsInjective
<1> QED  BY <1>4, <1>7, FS_Injection

-----------------------------------------------------------------------------
(* Types.                                                                   *)

\* What a case has cited: by its planner, and by each of its arguments.
CitesType == [planner : SUBSET Memories, arguments : [Args -> SUBSET Memories]]

\* The plan of a run has the parts it should have.
LEMMA PlanTyped ==
    ASSUME UsageAssumption, plan \in DOMAIN Plans
    PROVE  /\ Apart \in BOOLEAN /\ MaxRuns \in [Cases -> Nat]
           /\ MaxCrashes \in Nat /\ MaxFailures \in Nat
  BY DEF UsageAssumption, Apart, MaxRuns, MaxCrashes, MaxFailures

\* They stay the same.
LEMMA SamePlan ==
    ASSUME UNCHANGED plan
    PROVE  /\ plan' = plan /\ Apart' = Apart /\ MaxRuns' = MaxRuns
           /\ MaxCrashes' = MaxCrashes /\ MaxFailures' = MaxFailures
  BY DEF Apart, MaxRuns, MaxCrashes, MaxFailures

\* What the stages of a case hand over to be logged are its own events.
LEMMA OutcomesType ==
    ASSUME UsageAssumption, NEW c \in Cases, NEW use \in CitesType,
           NEW args \in SUBSET Args, NEW outcome \in OutcomeNames
    PROVE  Outcomes(c, use, args, outcome) \in Seq(EventsOf(c))
<1> DEFINE S == UNION {{Event(c, m, "argument_cited", a, outcome) : m \in use.arguments[a]} : a \in args}
<1>1. S \subseteq EventsOf(c)
  <2>1. ASSUME NEW a \in args, NEW m \in use.arguments[a]
        PROVE  Event(c, m, "argument_cited", a, outcome) \in EventsOf(c)
    <3>1. m \in Memories /\ a \in Args  BY DEF CitesType
    <3> QED  BY <3>1 DEF Event, EventsOf, Stages
  <2> QED  BY <2>1
<1>2. SetToSeq(S) \in Seq(EventsOf(c))
  BY <1>1, EventsFinite, SubsetToSeqType
<1> QED  BY <1>2 DEF Outcomes

\* The same of what is logged after the prediction.
LEMMA CitationsType ==
    ASSUME UsageAssumption, NEW c \in Cases, NEW use \in CitesType
    PROVE  Citations(c, use) \in Seq(EventsOf(c))
<1> DEFINE R == {Event(c, m, "retrieved", "none", "unknown") : m \in Memories}
           P == {Event(c, m, "planner_cited", "none", "unknown") : m \in use.planner}
<1>1. R \subseteq EventsOf(c)
  BY DEF Event, EventsOf, Stages, OutcomeNames
<1>2. P \subseteq EventsOf(c)
  BY DEF Event, EventsOf, Stages, OutcomeNames, CitesType
<1>3. SetToSeq(R) \in Seq(EventsOf(c)) /\ SetToSeq(P) \in Seq(EventsOf(c))
  BY <1>1, <1>2, EventsFinite, SubsetToSeqType
<1>4. Outcomes(c, use, Args, "unknown") \in Seq(EventsOf(c))
  BY OutcomesType DEF OutcomeNames
<1>5. SetToSeq(R) \o SetToSeq(P) \in Seq(EventsOf(c))
  BY <1>3, ConcatProperties
<1>6. (SetToSeq(R) \o SetToSeq(P)) \o Outcomes(c, use, Args, "unknown") \in Seq(EventsOf(c))
  BY <1>4, <1>5, ConcatProperties
<1> QED  BY <1>6 DEF Citations

-----------------------------------------------------------------------------
(* Counting.                                                                *)

\* Parts of a set that have nothing in common are together no more than it is.
LEMMA ThreeParts ==
    ASSUME NEW N, IsFiniteSet(N), NEW A \in SUBSET N, NEW B \in SUBSET N, NEW C \in SUBSET N,
           A \cap B = {}, A \cap C = {}, B \cap C = {}
    PROVE  /\ Cardinality(A) \in Nat /\ Cardinality(B) \in Nat
           /\ Cardinality(C) \in Nat /\ Cardinality(N) \in Nat
           /\ Cardinality(A) + Cardinality(B) + Cardinality(C) <= Cardinality(N)
<1>1. IsFiniteSet(A) /\ IsFiniteSet(B) /\ IsFiniteSet(C)
  BY FS_Subset
<1>2. /\ Cardinality(A) \in Nat /\ Cardinality(B) \in Nat
      /\ Cardinality(C) \in Nat /\ Cardinality(N) \in Nat
  BY <1>1, FS_CardinalityType
<1>3. /\ IsFiniteSet(A \cup B)
      /\ Cardinality(A \cup B) = Cardinality(A) + Cardinality(B) - Cardinality(A \cap B)
  BY <1>1, FS_Union
<1>4. Cardinality((A \cup B) \cup C) = Cardinality(A \cup B) + Cardinality(C) - Cardinality((A \cup B) \cap C)
  BY <1>1, <1>3, FS_Union
<1>5. (A \cup B) \cap C = {}
  OBVIOUS
<1>6. Cardinality((A \cup B) \cup C) <= Cardinality(N)
  <2>1. (A \cup B) \cup C \in SUBSET N  OBVIOUS
  <2> QED  BY <2>1, FS_Subset
<1>7. Cardinality(A \cap B) = 0 /\ Cardinality((A \cup B) \cap C) = 0
  BY <1>5, FS_EmptySet
<1>8. Cardinality((A \cup B) \cup C) = Cardinality(A) + Cardinality(B) + Cardinality(C)
  BY <1>2, <1>3, <1>4, <1>7
<1> QED  BY <1>2, <1>6, <1>8

\* The size of a set that grows by what is not yet in it.
LEMMA Grown ==
    ASSUME NEW S, NEW T, IsFiniteSet(S), IsFiniteSet(T), S \cap T = {}
    PROVE  /\ Cardinality(S) \in Nat /\ Cardinality(T) \in Nat
           /\ Cardinality(S \cup T) = Cardinality(S) + Cardinality(T)
           /\ T # {} => Cardinality(T) >= 1
<1>1. Cardinality(S) \in Nat /\ Cardinality(T) \in Nat
  BY FS_CardinalityType
<1>2. Cardinality(S \cup T) = Cardinality(S) + Cardinality(T) - Cardinality(S \cap T)
  BY FS_Union
<1>3. Cardinality(S \cap T) = 0
  BY FS_EmptySet
<1>4. T # {} => Cardinality(T) # 0
  BY FS_EmptySet
<1> QED  BY <1>1, <1>2, <1>3, <1>4

\* The new uses are of training cases, and none of them was counted before.
LEMMA NewUsesType ==
    ASSUME UsageAssumption, TypeOK, NEW m \in LongTerm
    PROVE  /\ NewUses(m) \subseteq Cases /\ IsFiniteSet(NewUses(m))
           /\ records[m].uses \subseteq Cases /\ IsFiniteSet(records[m].uses)
           /\ records[m].uses \cap NewUses(m) = {}
           /\ \A c \in NewUses(m) : c \notin Frozen /\ Split[c] \notin EvaluationSplits
<1>1. /\ NewUses(m) \subseteq Cases
      /\ \A c \in NewUses(m) : c \notin Frozen /\ Split[c] \notin EvaluationSplits
  BY DEF NewUses, Eligible, TypeOK
<1>2. records[m].uses \subseteq Cases
  BY DEF TypeOK, Usage
<1>3. records[m].uses \cap NewUses(m) = {}
  BY DEF NewUses
<1>4. IsFiniteSet(Cases)
  BY DEF UsageAssumption
<1> QED  BY <1>1, <1>2, <1>3, <1>4, FS_Subset

\* The rolled-up record counts every use once, and each as one outcome.
LEMMA RollUpCounts ==
    ASSUME UsageAssumption, TypeOK, NEW m \in LongTerm, NewUses(m) # {},
           Counted(records[m]), FromTraining(records[m])
    PROVE  /\ RollUp(m) \in Usage /\ Counted(RollUp(m)) /\ FromTraining(RollUp(m))
           /\ records[m].uses \subseteq RollUp(m).uses
<1> DEFINE r == records[m]
           N == NewUses(m)
           Of(outcome) == {c \in N : Outcome(m, c) = outcome}
<1>1. r \in Usage
  BY DEF TypeOK
<1>2. /\ Cardinality(Of("successful")) \in Nat /\ Cardinality(Of("contested")) \in Nat
      /\ Cardinality(Of("unsuccessful")) \in Nat /\ Cardinality(N) \in Nat
      /\ Cardinality(Of("successful")) + Cardinality(Of("contested"))
            + Cardinality(Of("unsuccessful")) <= Cardinality(N)
  <2>1. IsFiniteSet(N)  BY NewUsesType
  <2>2. /\ Of("successful") \in SUBSET N /\ Of("contested") \in SUBSET N /\ Of("unsuccessful") \in SUBSET N
        /\ Of("successful") \cap Of("contested") = {} /\ Of("successful") \cap Of("unsuccessful") = {}
        /\ Of("contested") \cap Of("unsuccessful") = {}
    OBVIOUS
  <2> HIDE DEF N, Of
  <2> QED  BY <2>1, <2>2, ThreeParts
<1>3. /\ Cardinality(r.uses) \in Nat
      /\ Cardinality(r.uses \cup N) = Cardinality(r.uses) + Cardinality(N) /\ Cardinality(N) >= 1
  BY NewUsesType, Grown
<1>4. RollUp(m) = [uses |-> r.uses \cup N, version |-> r.version + 1, count |-> r.count + Cardinality(N),
                   successful |-> r.successful + Cardinality(Of("successful")),
                   contested |-> r.contested + Cardinality(Of("contested")),
                   unsuccessful |-> r.unsuccessful + Cardinality(Of("unsuccessful"))]
  BY DEF RollUp
<1>5. r.uses \cup N \subseteq Cases /\ FromTraining(RollUp(m))
  BY <1>4, NewUsesType DEF FromTraining
<1> HIDE DEF N, Of
<1>6. RollUp(m) \in Usage
  BY <1>1, <1>2, <1>4, <1>5 DEF Usage
<1>7. Counted(RollUp(m))
  <2>1. /\ r.count = Cardinality(r.uses) /\ r.successful + r.contested + r.unsuccessful <= r.count
        /\ r.version >= 1 /\ r.version <= r.count + 1
    BY <1>1 DEF Counted, Usage
  <2>2. {r.version, r.count, r.successful, r.contested, r.unsuccessful} \subseteq Nat
    BY <1>1 DEF Usage
  <2>3. RollUp(m).count = Cardinality(RollUp(m).uses)
    BY <1>3, <1>4, <2>1
  <2>4. RollUp(m).successful + RollUp(m).contested + RollUp(m).unsuccessful <= RollUp(m).count
    BY <1>2, <1>4, <2>1, <2>2
  <2>5. RollUp(m).version \in 1 .. RollUp(m).count + 1
    BY <1>2, <1>3, <1>4, <2>1, <2>2
  <2> QED  BY <2>3, <2>4, <2>5 DEF Counted
<1> QED  BY <1>4, <1>5, <1>6, <1>7

-----------------------------------------------------------------------------
(* The uses are accounted for.                                              *)

\* At first nothing was used.
LEMMA UsesInit ==
    ASSUME UsageAssumption, Init
    PROVE  UsesInvariant
<1>1. Cardinality({}) = 0
  BY FS_EmptySet
<1>2. MaxCrashes \in Nat /\ MaxFailures \in Nat /\ \A c \in Cases : MaxRuns[c] \in Nat
  BY PlanTyped DEF Init
<1>3. Unused \in Usage /\ Counted(Unused) /\ FromTraining(Unused)
  BY <1>1 DEF Unused, Usage, Counted, FromTraining
<1>4. NoCitation \in CitesType
  BY DEF NoCitation, CitesType
<1>5. DOMAIN toWrite = {}
  BY DEF Init
<1>6. TypeOK
  <2>1. crashes \in 0 .. MaxCrashes /\ failures \in 0 .. MaxFailures
    BY <1>2 DEF Init
  <2>2. /\ runs \in [Cases -> Nat] /\ \A c \in Cases : runs[c] <= MaxRuns[c]
        /\ cites \in [Cases -> CitesType]
    BY <1>2, <1>4 DEF Init
  <2>3. DOMAIN toLog = Cases /\ \A c \in Cases : toLog[c] \in Seq(EventsOf(c))
    BY DEF Init
  <2> QED  BY <1>3, <1>5, <2>1, <2>2, <2>3 DEF Init, TypeOK, CitesType
<1> QED  BY <1>3, <1>5, <1>6 DEF Init, UsesInvariant, UsesCounted, FrozenElsewhere, JournalTrue

\* A step that touches neither the log, nor the records, nor what is to be
\* written, leaves the account as it is.
LEMMA Untouched ==
    ASSUME UsesInvariant, TypeOK', UNCHANGED <<log, records, journal, toWrite, toNote>>, UNCHANGED plan
    PROVE  UsesInvariant'
<1>0. /\ plan' = plan /\ Apart' = Apart /\ MaxRuns' = MaxRuns
      /\ MaxCrashes' = MaxCrashes /\ MaxFailures' = MaxFailures
  BY SamePlan
<1> USE <1>0
<1> QED BY DEF UsesInvariant, UsesCounted, FrozenElsewhere, JournalTrue, Counted, FromTraining

\* A stage of a case leaves the log, the records and the consolidation alone.
LEMMA StageType ==
    ASSUME TypeOK, NEW c \in Cases, NEW from,
           NEW to \in {"new", "predicted", "reviewed", "supervised", "done"},
           NEW events \in Seq(EventsOf(c)), Stage(c, from, to, events),
           runs' \in [Cases -> Nat], \A d \in Cases : runs'[d] <= MaxRuns[d],
           cites' \in [Cases -> CitesType], UNCHANGED plan
    PROVE  TypeOK' /\ UNCHANGED <<log, records, journal, toWrite, toNote>>
<1>0. /\ plan' = plan /\ Apart' = Apart /\ MaxRuns' = MaxRuns
      /\ MaxCrashes' = MaxCrashes /\ MaxFailures' = MaxFailures
  BY SamePlan
<1> USE <1>0
<1>1. UNCHANGED <<log, external, records, journal, toWrite, toNote, locked, crashes, failures>>
  BY DEF Stage, consolidation
<1>2. pc' \in [Cases -> {"new", "predicted", "reviewed", "supervised", "done"}]
  BY DEF TypeOK, Stage
<1>3. DOMAIN toLog' = Cases /\ \A d \in Cases : toLog'[d] \in Seq(EventsOf(d))
  BY DEF TypeOK, Stage
<1> QED  BY <1>1, <1>2, <1>3 DEF TypeOK, CitesType

\* Each stage of a case keeps the account.
LEMMA StagesKeepUses ==
    ASSUME UsageAssumption, UsesInvariant, NEW c \in Cases,
           Predict(c) \/ Review(c) \/ Supervise(c) \/ Finish(c) \/ RunAgain(c), UNCHANGED plan
    PROVE  UsesInvariant'
<1>0. /\ plan' = plan /\ Apart' = Apart /\ MaxRuns' = MaxRuns
      /\ MaxCrashes' = MaxCrashes /\ MaxFailures' = MaxFailures
  BY SamePlan
<1> USE <1>0
<1>1. TypeOK /\ cites \in [Cases -> CitesType] /\ runs \in [Cases -> Nat]
      /\ \A d \in Cases : runs[d] <= MaxRuns[d]
  BY DEF UsesInvariant, TypeOK, CitesType
<1>2. <<>> \in Seq(EventsOf(c))
  OBVIOUS
<1>3. CASE Predict(c)
  <2>1. PICK planner \in SUBSET Memories, args \in [Args -> SUBSET Memories] :
          LET use == [planner |-> planner, arguments |-> args]
          IN  /\ cites' = [cites EXCEPT ![c] = use]
              /\ Stage(c, "new", "predicted", Citations(c, use))
    BY <1>3 DEF Predict
  <2> DEFINE use == [planner |-> planner, arguments |-> args]
  <2>2. use \in CitesType
    BY DEF CitesType
  <2>3. Citations(c, use) \in Seq(EventsOf(c))
    BY <2>2, CitationsType
  <2>4. cites' \in [Cases -> CitesType]
    BY <1>1, <2>1, <2>2
  <2>5. runs' \in [Cases -> Nat] /\ \A d \in Cases : runs'[d] <= MaxRuns[d]
    <3>1. runs[c] < MaxRuns[c] /\ runs' = [runs EXCEPT ![c] = @ + 1]
      BY <1>3 DEF Predict
    <3>2. MaxRuns[c] \in Nat
      BY <1>1, PlanTyped DEF TypeOK
    <3> QED  BY <1>1, <3>1, <3>2
  <2>6. Stage(c, "new", "predicted", Citations(c, use))
    BY <2>1
  <2> HIDE DEF use
  <2>7. TypeOK' /\ UNCHANGED <<log, records, journal, toWrite, toNote>>
    BY <1>1, <2>3, <2>4, <2>5, <2>6, StageType
  <2> QED  BY <2>7, Untouched
<1>4. CASE Review(c)
  <2>1. PICK contested \in SUBSET Args, revised \in [Args -> SUBSET Memories] :
          /\ cites' = [cites EXCEPT ![c].arguments = revised]
          /\ Stage(c, "predicted", "reviewed", Outcomes(c, cites[c], contested, "contested"))
          /\ UNCHANGED runs
    BY <1>4 DEF Review
  <2>2. cites[c] \in CitesType
    BY <1>1
  <2>3. Outcomes(c, cites[c], contested, "contested") \in Seq(EventsOf(c))
    BY <2>2, OutcomesType DEF OutcomeNames
  <2>4. cites' \in [Cases -> CitesType]
    BY <1>1, <2>1 DEF CitesType
  <2>5. TypeOK' /\ UNCHANGED <<log, records, journal, toWrite, toNote>>
    BY <1>1, <2>1, <2>3, <2>4, StageType
  <2> QED  BY <2>5, Untouched
<1>5. CASE Supervise(c)
  <2>1. PICK events \in Seq(EventsOf(c)) : Stage(c, "reviewed", "supervised", events)
    <3>1. \A outcome \in OutcomeNames : Outcomes(c, cites[c], Args, outcome) \in Seq(EventsOf(c))
      BY <1>1, OutcomesType
    <3> QED  BY <1>2, <1>5, <3>1 DEF Supervise, OutcomeNames
  <2>2. TypeOK' /\ UNCHANGED <<log, records, journal, toWrite, toNote>>
    BY <1>1, <1>5, <2>1, StageType DEF Supervise
  <2> QED  BY <2>2, Untouched
<1>6. CASE Finish(c)
  <2>1. cites' \in [Cases -> CitesType]
    BY <1>1, <1>6 DEF Finish, NoCitation, CitesType
  <2>2. TypeOK' /\ UNCHANGED <<log, records, journal, toWrite, toNote>>
    BY <1>1, <1>2, <1>6, <2>1, StageType DEF Finish
  <2> QED  BY <2>2, Untouched
<1>7. CASE RunAgain(c)
  <2>1. TypeOK' /\ UNCHANGED <<log, records, journal, toWrite, toNote>>
    BY <1>1, <1>2, <1>7, StageType DEF RunAgain
  <2> QED  BY <2>1, Untouched
<1> QED  BY <1>3, <1>4, <1>5, <1>6, <1>7

\* An event is logged, or dropped, or lost by a failure.
LEMMA LoggingKeepsUses ==
    ASSUME UsageAssumption, UsesInvariant, NEW c \in Cases, LogOne(c) \/ LogFails(c), UNCHANGED plan
    PROVE  UsesInvariant'
<1>0. /\ plan' = plan /\ Apart' = Apart /\ MaxRuns' = MaxRuns
      /\ MaxCrashes' = MaxCrashes /\ MaxFailures' = MaxFailures
  BY SamePlan
<1> USE <1>0
<1>1. TypeOK /\ UNCHANGED <<records, journal, toWrite, toNote, locked, crashes, runs, cites>>
  BY DEF UsesInvariant, LogOne, LogFails, consolidation
<1>2. CASE LogOne(c)
  <2>1. toLog[c] \in Seq(EventsOf(c)) /\ toLog[c] # <<>>
    BY <1>1, <1>2 DEF TypeOK, LogOne
  <2>2. Head(toLog[c]) \in EventsOf(c) /\ Tail(toLog[c]) \in Seq(EventsOf(c))
    BY <2>1, HeadTailProperties
  <2>3. DOMAIN toLog' = Cases /\ \A d \in Cases : toLog'[d] \in Seq(EventsOf(d))
    BY <1>1, <1>2, <2>2 DEF TypeOK, LogOne
  <2>4. Head(toLog[c]).case = c
    BY <2>2 DEF EventsOf
  <2>5. \A e \in log' \cup external' :
           e \in log \cup external \/ e = Head(toLog[c])
    BY <1>2 DEF LogOne, LogUsage
  <2>6. \A e \in log' \cup external' : e.case \in Cases /\ e \in EventsOf(e.case)
    BY <1>1, <2>2, <2>4, <2>5 DEF TypeOK
  <2>7. TypeOK'
    BY <1>1, <1>2, <2>3, <2>6 DEF TypeOK, LogOne
  <2>8. FrozenElsewhere'
    <3>1. \A e \in log' : e \in log \/ (e = Head(toLog[c]) /\ c \notin Frozen)
      BY <1>2 DEF LogOne, LogUsage
    <3> QED  BY <2>4, <3>1 DEF FrozenElsewhere, UsesInvariant
  <2> QED  BY <1>1, <2>7, <2>8 DEF UsesInvariant, UsesCounted, JournalTrue, Counted, FromTraining
<1>3. CASE LogFails(c)
  <2>1. UNCHANGED <<log, external>>
    BY <1>3 DEF LogFails
  <2>2. DOMAIN toLog' = Cases /\ \A d \in Cases : toLog'[d] \in Seq(EventsOf(d))
    BY <1>1, <1>3 DEF TypeOK, LogFails
  <2>3. pc' \in [Cases -> {"new", "predicted", "reviewed", "supervised", "done"}]
    BY <1>1, <1>3 DEF TypeOK, LogFails
  <2>4. failures' \in 0 .. MaxFailures
    BY <1>1, <1>3, PlanTyped DEF TypeOK, LogFails
  <2>5. TypeOK'
    BY <1>1, <2>1, <2>2, <2>3, <2>4 DEF TypeOK
  <2> QED  BY <1>1, <2>1, <2>5, Untouched
<1> QED  BY <1>2, <1>3

\* A consolidation computes records that count the uses so far.
LEMMA ConsolidateKeepsUses ==
    ASSUME UsageAssumption, UsesInvariant, Consolidate, UNCHANGED plan
    PROVE  UsesInvariant'
<1>0. /\ plan' = plan /\ Apart' = Apart /\ MaxRuns' = MaxRuns
      /\ MaxCrashes' = MaxCrashes /\ MaxFailures' = MaxFailures
  BY SamePlan
<1> USE <1>0
<1> DEFINE counted == {m \in LongTerm : NewUses(m) # {}}
<1>1. /\ toWrite' = [m \in counted |-> RollUp(m)]
      /\ toNote' = {[memory |-> m, uses |-> NewUses(m)] : m \in counted}
      /\ locked' = TRUE
      /\ UNCHANGED <<pc, runs, cites, toLog, log, external, records, journal, crashes, failures>>
  BY DEF Consolidate, cases
<1>2. TypeOK
  BY DEF UsesInvariant
<1>3. \A m \in counted : /\ RollUp(m) \in Usage /\ Counted(RollUp(m)) /\ FromTraining(RollUp(m))
                         /\ records[m].uses \subseteq RollUp(m).uses
  BY <1>2, RollUpCounts DEF UsesInvariant, UsesCounted
<1>4. \A m \in counted : NewUses(m) \subseteq Cases /\ NewUses(m) \subseteq RollUp(m).uses
  BY <1>2, NewUsesType DEF RollUp
<1>5. DOMAIN toWrite' = counted /\ \A m \in counted : toWrite'[m] = RollUp(m)
  BY <1>1
<1>6. toNote' \subseteq Notes
  BY <1>1, <1>4 DEF Notes
<1>7. \A n \in toNote' : n.memory \in counted /\ n.uses \subseteq RollUp(n.memory).uses
  BY <1>1, <1>4
<1>8. counted \subseteq LongTerm
  OBVIOUS
<1> HIDE DEF counted
<1>9. TypeOK'
  BY <1>1, <1>2, <1>3, <1>5, <1>6, <1>8 DEF TypeOK
<1>10. \A m \in DOMAIN toWrite' : /\ Counted(toWrite'[m]) /\ FromTraining(toWrite'[m])
                                  /\ records'[m].uses \subseteq toWrite'[m].uses
  BY <1>1, <1>3, <1>5
<1>11. \A n \in toNote' : n.memory \in DOMAIN toWrite' /\ n.uses \subseteq toWrite'[n.memory].uses
  BY <1>5, <1>7
<1>12. UsesCounted' /\ FrozenElsewhere' /\ JournalTrue'
  BY <1>1 DEF UsesInvariant, UsesCounted, FrozenElsewhere, JournalTrue
<1> QED  BY <1>9, <1>10, <1>11, <1>12 DEF UsesInvariant, Counted, FromTraining

\* A record that is written takes the place of one that counts less.
LEMMA WriteFileKeepsUses ==
    ASSUME UsageAssumption, UsesInvariant, NEW m \in LongTerm, WriteFile(m), UNCHANGED plan
    PROVE  UsesInvariant' /\ \A k \in LongTerm : records[k].uses \subseteq records'[k].uses
<1>0. /\ plan' = plan /\ Apart' = Apart /\ MaxRuns' = MaxRuns
      /\ MaxCrashes' = MaxCrashes /\ MaxFailures' = MaxFailures
  BY SamePlan
<1> USE <1>0
<1>1. /\ m \in DOMAIN toWrite
      /\ records' = [records EXCEPT ![m] = toWrite[m]]
      /\ toWrite' = [k \in DOMAIN toWrite \ {m} |-> toWrite[k]]
      /\ UNCHANGED <<pc, runs, cites, toLog, log, external, journal, toNote, locked, crashes, failures>>
  BY DEF WriteFile, cases, Restrict
<1>2. TypeOK
  BY DEF UsesInvariant
<1>3. toWrite[m] \in Usage /\ Counted(toWrite[m]) /\ FromTraining(toWrite[m])
      /\ records[m].uses \subseteq toWrite[m].uses
  BY <1>1, <1>2 DEF UsesInvariant, TypeOK
<1>4. DOMAIN toWrite' = DOMAIN toWrite \ {m} /\ \A k \in DOMAIN toWrite' : toWrite'[k] = toWrite[k]
  BY <1>1
<1>5. records' \in [LongTerm -> Usage] /\ records'[m] = toWrite[m]
      /\ \A k \in LongTerm \ {m} : records'[k] = records[k]
  BY <1>1, <1>2, <1>3 DEF TypeOK
<1>6. TypeOK'
  BY <1>1, <1>2, <1>4, <1>5 DEF TypeOK
<1>7. \A k \in LongTerm : records[k].uses \subseteq records'[k].uses
  BY <1>3, <1>5
<1>8. UsesCounted' /\ FrozenElsewhere'
  BY <1>1, <1>3, <1>5 DEF UsesInvariant, UsesCounted, FrozenElsewhere, Counted, FromTraining
<1>9. JournalTrue'
  BY <1>1, <1>2, <1>7 DEF UsesInvariant, JournalTrue, TypeOK, Notes
<1>10. \A k \in DOMAIN toWrite' : /\ Counted(toWrite'[k]) /\ FromTraining(toWrite'[k])
                                  /\ records'[k].uses \subseteq toWrite'[k].uses
  BY <1>2, <1>4, <1>5 DEF UsesInvariant, TypeOK
<1>11. \A n \in toNote' :
         n.uses \subseteq (IF n.memory \in DOMAIN toWrite' THEN toWrite'[n.memory].uses ELSE records'[n.memory].uses)
  BY <1>1, <1>2, <1>4, <1>5 DEF UsesInvariant, TypeOK, Notes
<1> QED  BY <1>6, <1>7, <1>8, <1>9, <1>10, <1>11 DEF UsesInvariant, Counted, FromTraining

\* What is noted was written before; a killed consolidation leaves the records
\* it wrote, and the notes it made.
LEMMA EndsKeepUses ==
    ASSUME UsageAssumption, UsesInvariant, Release \/ Crash \/ \E n \in toNote : Note(n), UNCHANGED plan
    PROVE  UsesInvariant' /\ UNCHANGED <<cases, log, records>>
<1>0. /\ plan' = plan /\ Apart' = Apart /\ MaxRuns' = MaxRuns
      /\ MaxCrashes' = MaxCrashes /\ MaxFailures' = MaxFailures
  BY SamePlan
<1> USE <1>0
<1>1. TypeOK
  BY DEF UsesInvariant
<1>2. CASE Release
  <2>1. UNCHANGED <<cases, log, external, records, journal, toWrite, toNote, crashes, failures>> /\ locked' = FALSE
    BY <1>2 DEF Release
  <2>2. TypeOK'
    BY <1>1, <2>1 DEF TypeOK, cases
  <2> QED  BY <2>1, <2>2, Untouched
<1>3. CASE Crash
  <2>1. /\ locked' = FALSE /\ toWrite' = <<>> /\ toNote' = {}
        /\ UNCHANGED <<pc, runs, cites, toLog, log, external, records, journal, failures>>
    BY <1>3 DEF Crash, cases
  <2>2. crashes' \in 0 .. MaxCrashes
    BY <1>1, <1>3, PlanTyped DEF Crash, TypeOK
  <2>3. DOMAIN toWrite' = {}
    BY <2>1
  <2>4. TypeOK'
    BY <1>1, <2>1, <2>2, <2>3 DEF TypeOK
  <2>5. UsesCounted' /\ FrozenElsewhere' /\ JournalTrue'
    BY <2>1 DEF UsesInvariant, UsesCounted, FrozenElsewhere, JournalTrue, Counted, FromTraining
  <2> QED  BY <2>1, <2>3, <2>4, <2>5 DEF UsesInvariant, cases
<1>4. ASSUME NEW n \in toNote, Note(n)
      PROVE  UsesInvariant' /\ UNCHANGED <<cases, log, records>>
  <2>1. /\ DOMAIN toWrite = {}
        /\ journal' = journal \cup {n} /\ toNote' = toNote \ {n}
        /\ UNCHANGED <<pc, runs, cites, toLog, log, external, records, toWrite, locked, crashes, failures>>
    BY <1>4 DEF Note, cases
  <2>2. TypeOK'
    BY <1>1, <2>1 DEF TypeOK
  <2>3. JournalTrue'
    BY <2>1 DEF UsesInvariant, JournalTrue
  <2>4. UsesCounted' /\ FrozenElsewhere'
    BY <2>1 DEF UsesInvariant, UsesCounted, FrozenElsewhere, Counted, FromTraining
  <2> QED  BY <2>1, <2>2, <2>3, <2>4 DEF UsesInvariant, cases
<1> QED  BY <1>2, <1>3, <1>4

\* Every step keeps the account, and no step takes back a use.
LEMMA StepKeepsUses ==
    ASSUME UsageAssumption, UsesInvariant, [Next]_vars
    PROVE  UsesInvariant' /\ \A m \in LongTerm : records[m].uses \subseteq records'[m].uses
<1>0. /\ UNCHANGED plan /\ MaxRuns' = MaxRuns
      /\ MaxCrashes' = MaxCrashes /\ MaxFailures' = MaxFailures
  BY SamePlan DEF Next, vars
<1>1. ASSUME NEW c \in Cases, Predict(c) \/ Review(c) \/ Supervise(c) \/ Finish(c) \/ RunAgain(c)
      PROVE  UsesInvariant' /\ UNCHANGED records
  BY <1>0, <1>1, StagesKeepUses DEF Predict, Review, Supervise, Finish, RunAgain, Stage
<1>2. ASSUME NEW c \in Cases, LogOne(c) \/ LogFails(c)
      PROVE  UsesInvariant' /\ UNCHANGED records
  BY <1>0, <1>2, LoggingKeepsUses DEF LogOne, LogFails
<1>3. CASE Consolidate
  BY <1>0, <1>3, ConsolidateKeepsUses DEF Consolidate
<1>4. ASSUME NEW m \in LongTerm, WriteFile(m)
      PROVE  UsesInvariant' /\ \A k \in LongTerm : records[k].uses \subseteq records'[k].uses
  BY <1>0, <1>4, WriteFileKeepsUses
<1>5. CASE Release \/ Crash \/ \E n \in toNote : Note(n)
  BY <1>0, <1>5, EndsKeepUses
<1>6. CASE UNCHANGED vars
  <2>1. TypeOK' /\ UNCHANGED <<log, records, journal, toWrite, toNote>>
    BY <1>0, <1>6 DEF vars, cases, consolidation, UsesInvariant, TypeOK
  <2> QED  BY <1>0, <2>1, Untouched
<1> QED  BY <1>1, <1>2, <1>3, <1>4, <1>5, <1>6 DEF Next, Case, Consolidator

-----------------------------------------------------------------------------
(* The contested uses, while no consolidation falls into a case.            *)

\* The new uses that are counted as contested are those an event says were.
LEMMA ContestedNew ==
    ASSUME UsageAssumption, TypeOK, NEW m \in LongTerm
    PROVE  {c \in NewUses(m) : Outcome(m, c) = "contested"} = Contested(m, NewUses(m))
<1>1. ASSUME NEW c \in NewUses(m)
      PROVE  Outcome(m, c) = "contested"
               <=> \E e \in log : e.memory = m /\ e.case = c /\ e.outcome = "contested"
  <2> DEFINE outcomes == {e.outcome : e \in {x \in Eligible : x.memory = m /\ x.case = c}}
  <2>1. Outcome(m, c) = "contested" <=> "contested" \in outcomes
    BY DEF Outcome
  <2>2. c \in Cases /\ c \notin Frozen /\ Split[c] \notin EvaluationSplits
    BY NewUsesType
  <2>3. ASSUME NEW e \in log, e.memory = m, e.case = c, e.outcome = "contested"
        PROVE  e \in Eligible
    <3>1. e \in EventsOf(c)
      BY <2>3 DEF TypeOK
    <3>2. e.stage = "argument_cited"
      BY <2>3, <3>1 DEF EventsOf
    <3> QED  BY <2>2, <2>3, <3>2 DEF Eligible
  <2>4. "contested" \in outcomes
          <=> \E e \in log : e.memory = m /\ e.case = c /\ e.outcome = "contested"
    BY <2>3 DEF Eligible
  <2> QED  BY <2>1, <2>4
<1> QED  BY <1>1 DEF Contested

\* The rolled-up record counts the contested uses.
LEMMA RollUpContested ==
    ASSUME UsageAssumption, TypeOK, NEW m \in LongTerm,
           records[m].contested = Cardinality(Contested(m, records[m].uses))
    PROVE  RollUp(m).contested = Cardinality(Contested(m, RollUp(m).uses))
<1> DEFINE A == Contested(m, records[m].uses)
           B == Contested(m, NewUses(m))
<1>1. RollUp(m).uses = records[m].uses \cup NewUses(m)
      /\ RollUp(m).contested = records[m].contested + Cardinality({c \in NewUses(m) : Outcome(m, c) = "contested"})
  BY DEF RollUp
<1>2. A \cap B = {} /\ A \cup B = Contested(m, records[m].uses \cup NewUses(m))
  BY NewUsesType DEF Contested
<1>3. IsFiniteSet(A) /\ IsFiniteSet(B)
  <2>1. A \in SUBSET records[m].uses /\ B \in SUBSET NewUses(m)
    BY DEF Contested
  <2> HIDE DEF A, B
  <2> QED  BY <2>1, NewUsesType, FS_Subset
<1>4. Cardinality(A \cup B) = Cardinality(A) + Cardinality(B)
  <2> HIDE DEF A, B
  <2> QED  BY <1>2, <1>3, Grown
<1> QED  BY <1>1, <1>2, <1>4, ContestedNew

\* A case that goes on is none whose use is counted.
LEMMA StageKeepsContested ==
    ASSUME TypeOK, ContestedInvariant, Apart, NEW c \in Cases, NEW from, NEW to, NEW events,
           Stage(c, from, to, events), from # "done", to # "new", to = "done" => events = <<>>, UNCHANGED plan
    PROVE  ContestedInvariant'
<1>0. /\ plan' = plan /\ Apart' = Apart /\ MaxRuns' = MaxRuns
      /\ MaxCrashes' = MaxCrashes /\ MaxFailures' = MaxFailures
  BY SamePlan
<1> USE <1>0
<1>1. /\ pc[c] = from /\ pc' = [pc EXCEPT ![c] = to] /\ toLog' = [toLog EXCEPT ![c] = events]
      /\ UNCHANGED <<log, records, toWrite>>
  BY DEF Stage, consolidation
<1>2. \A d \in Cases : pc'[d] \in {"new", "done"} => toLog'[d] = <<>>
  BY <1>1 DEF ContestedInvariant, TypeOK
<1>3. \A e \in log' : pc'[e.case] # "new"
  BY <1>1 DEF ContestedInvariant, TypeOK
<1>4. \A d \in Cases : pc[d] = "done" => pc'[d] = "done"
  BY <1>1 DEF TypeOK
<1>5. \A m \in LongTerm : \A d \in records'[m].uses : pc'[d] = "done"
  BY <1>1, <1>4 DEF ContestedInvariant, TypeOK, Usage
<1>6. \A m \in DOMAIN toWrite' : \A d \in toWrite'[m].uses : pc'[d] = "done"
  BY <1>1, <1>4 DEF ContestedInvariant, TypeOK, Usage
<1>7. /\ ContestedCounted'
      /\ (\A m \in DOMAIN toWrite : toWrite[m].contested = Cardinality(Contested(m, toWrite[m].uses)))'
  BY <1>1 DEF ContestedInvariant, ContestedCounted, Contested
<1> QED  BY <1>2, <1>3, <1>5, <1>6, <1>7 DEF ContestedInvariant

\* Events are logged only of cases that are under way, which no record counts.
LEMMA LoggingKeepsContested ==
    ASSUME UsesInvariant, ContestedInvariant, Apart, NEW c \in Cases, LogOne(c) \/ LogFails(c), UNCHANGED plan
    PROVE  ContestedInvariant'
<1>0. /\ plan' = plan /\ Apart' = Apart /\ MaxRuns' = MaxRuns
      /\ MaxCrashes' = MaxCrashes /\ MaxFailures' = MaxFailures
  BY SamePlan
<1> USE <1>0
<1>1. TypeOK /\ toLog[c] # <<>> /\ UNCHANGED <<records, toWrite>>
  BY DEF UsesInvariant, LogOne, LogFails, consolidation
<1>2. pc[c] \notin {"new", "done"}
  BY <1>1 DEF ContestedInvariant
<1>3. pc' \in {pc, [pc EXCEPT ![c] = "done"]} /\ (pc' = pc \/ toLog' = [toLog EXCEPT ![c] = <<>>])
      /\ \A d \in Cases \ {c} : toLog'[d] = toLog[d]
  BY <1>1 DEF LogOne, LogFails, TypeOK
<1>4. \A d \in Cases : pc'[d] \in {"new", "done"} => toLog'[d] = <<>>
  BY <1>1, <1>2, <1>3 DEF ContestedInvariant, TypeOK
<1>5. log \subseteq log' /\ \A e \in log' \ log : e.case = c
  <2>1. toLog[c] \in Seq(EventsOf(c)) /\ toLog[c] # <<>>
    BY <1>1 DEF TypeOK
  <2>2. Head(toLog[c]) \in EventsOf(c)
    BY <2>1, HeadTailProperties
  <2> QED  BY <2>2 DEF LogOne, LogFails, LogUsage, EventsOf
<1>6. \A e \in log' : pc'[e.case] # "new"
  BY <1>1, <1>2, <1>3, <1>5 DEF ContestedInvariant, TypeOK
<1>7. \A d \in Cases : pc[d] = "done" => pc'[d] = "done"
  BY <1>1, <1>3 DEF TypeOK
<1>8. \A m \in LongTerm : \A d \in records[m].uses : pc[d] = "done" /\ d \in Cases
  BY <1>1 DEF ContestedInvariant, TypeOK, Usage
<1>9. \A m \in DOMAIN toWrite : \A d \in toWrite[m].uses : pc[d] = "done" /\ d \in Cases
  BY <1>1 DEF ContestedInvariant, TypeOK, Usage
<1>10. ASSUME NEW m, NEW uses, c \notin uses
       PROVE  {d \in uses : \E e \in log' : e.memory = m /\ e.case = d /\ e.outcome = "contested"}
                = Contested(m, uses)
  BY <1>5, <1>10 DEF Contested
<1>11. ContestedCounted'
  <2>1. \A m \in LongTerm : c \notin records[m].uses
    BY <1>2, <1>8
  <2>2. ASSUME NEW m \in LongTerm
        PROVE  Contested(m, records[m].uses)' = Contested(m, records[m].uses)
    <3>1. records' = records /\ c \notin records[m].uses
      BY <1>1, <2>1
    <3>2. {d \in records[m].uses : \E e \in log' : e.memory = m /\ e.case = d /\ e.outcome = "contested"}
            = Contested(m, records[m].uses)
      BY <1>10, <3>1
    <3> QED  BY <3>1, <3>2 DEF Contested
  <2> QED  BY <1>1, <2>2 DEF ContestedInvariant, ContestedCounted
<1>12. (\A m \in DOMAIN toWrite : toWrite[m].contested = Cardinality(Contested(m, toWrite[m].uses)))'
  <2>1. \A m \in DOMAIN toWrite : c \notin toWrite[m].uses
    BY <1>2, <1>9
  <2>2. ASSUME NEW m \in DOMAIN toWrite
        PROVE  Contested(m, toWrite[m].uses)' = Contested(m, toWrite[m].uses)
    <3>1. toWrite' = toWrite /\ c \notin toWrite[m].uses
      BY <1>1, <2>1
    <3>2. {d \in toWrite[m].uses : \E e \in log' : e.memory = m /\ e.case = d /\ e.outcome = "contested"}
            = Contested(m, toWrite[m].uses)
      BY <1>10, <3>1
    <3> QED  BY <3>1, <3>2 DEF Contested
  <2> QED  BY <1>1, <2>2 DEF ContestedInvariant
<1> QED  BY <1>1, <1>4, <1>6, <1>7, <1>8, <1>9, <1>11, <1>12 DEF ContestedInvariant

\* What a consolidation finds in the log is of cases that are done.
LEMMA ConsolidateKeepsContested ==
    ASSUME UsageAssumption, UsesInvariant, ContestedInvariant, Apart, Consolidate, UNCHANGED plan
    PROVE  ContestedInvariant'
<1>0. /\ plan' = plan /\ Apart' = Apart /\ MaxRuns' = MaxRuns
      /\ MaxCrashes' = MaxCrashes /\ MaxFailures' = MaxFailures
  BY SamePlan
<1> USE <1>0
<1> DEFINE counted == {m \in LongTerm : NewUses(m) # {}}
<1>1. /\ \A c \in Cases : pc[c] \in {"new", "done"}
      /\ toWrite' = [m \in counted |-> RollUp(m)] /\ UNCHANGED <<pc, toLog, log, records>>
  BY DEF Consolidate, cases
<1>2. TypeOK
  BY DEF UsesInvariant
<1>3. DOMAIN toWrite' = counted /\ counted \subseteq LongTerm /\ \A m \in counted : toWrite'[m] = RollUp(m)
  BY <1>1
<1> HIDE DEF counted
<1>4. ASSUME NEW m \in counted
      PROVE  /\ \A c \in RollUp(m).uses : pc[c] = "done"
             /\ RollUp(m).contested = Cardinality(Contested(m, RollUp(m).uses))
  <2>1. m \in LongTerm
    BY <1>3
  <2>2. \A c \in NewUses(m) : c \in Cases /\ \E e \in log : e.case = c
    BY <1>2, <2>1, NewUsesType DEF NewUses, Eligible
  <2>3. \A c \in NewUses(m) : pc[c] = "done"
    BY <1>1, <2>2 DEF ContestedInvariant
  <2>4. \A c \in records[m].uses : pc[c] = "done"
    BY <2>1 DEF ContestedInvariant
  <2>5. records[m].contested = Cardinality(Contested(m, records[m].uses))
    BY <2>1 DEF ContestedInvariant, ContestedCounted
  <2>6. RollUp(m).uses = records[m].uses \cup NewUses(m)
    BY DEF RollUp
  <2> QED  BY <1>2, <2>1, <2>3, <2>4, <2>5, <2>6, RollUpContested
<1>5. (\A m \in DOMAIN toWrite : toWrite[m].contested = Cardinality(Contested(m, toWrite[m].uses)))'
  BY <1>1, <1>3, <1>4 DEF Contested
<1>6. \A m \in DOMAIN toWrite' : \A c \in toWrite'[m].uses : pc'[c] = "done"
  BY <1>1, <1>3, <1>4
<1>7. ContestedCounted'
  BY <1>1 DEF ContestedInvariant, ContestedCounted, Contested
<1> QED  BY <1>1, <1>5, <1>6, <1>7 DEF ContestedInvariant

\* Writing, noting and being killed move what was computed, or drop it.
LEMMA WritingKeepsContested ==
    ASSUME UsesInvariant, ContestedInvariant, Apart,
           Release \/ Crash \/ (\E m \in LongTerm : WriteFile(m)) \/ \E n \in toNote : Note(n), UNCHANGED plan
    PROVE  ContestedInvariant'
<1>0. /\ plan' = plan /\ Apart' = Apart /\ MaxRuns' = MaxRuns
      /\ MaxCrashes' = MaxCrashes /\ MaxFailures' = MaxFailures
  BY SamePlan
<1> USE <1>0
<1>1. TypeOK /\ UNCHANGED <<pc, toLog, log>>
  BY DEF UsesInvariant, Release, Crash, WriteFile, Note, cases
<1>2. ASSUME NEW m \in LongTerm, WriteFile(m)
      PROVE  ContestedInvariant'
  <2>1. /\ m \in DOMAIN toWrite
        /\ records' = [records EXCEPT ![m] = toWrite[m]]
        /\ toWrite' = [k \in DOMAIN toWrite \ {m} |-> toWrite[k]]
    BY <1>2 DEF WriteFile, Restrict
  <2>2. DOMAIN toWrite' = DOMAIN toWrite \ {m} /\ \A k \in DOMAIN toWrite' : toWrite'[k] = toWrite[k]
    BY <2>1
  <2>3. records'[m] = toWrite[m] /\ \A k \in LongTerm \ {m} : records'[k] = records[k]
    BY <1>1, <2>1 DEF TypeOK
  <2>4. ContestedCounted'
    <3>1. toWrite[m].contested = Cardinality(Contested(m, toWrite[m].uses))
      BY <2>1 DEF ContestedInvariant
    <3>2. \A k \in LongTerm : records[k].contested = Cardinality(Contested(k, records[k].uses))
      BY DEF ContestedInvariant, ContestedCounted
    <3>3. (records[m].contested = Cardinality(Contested(m, records[m].uses)))'
      BY <1>1, <2>3, <3>1 DEF Contested
    <3>4. ASSUME NEW k \in LongTerm \ {m}
          PROVE  (records[k].contested = Cardinality(Contested(k, records[k].uses)))'
      <4>1. records'[k] = records[k]
        BY <2>3
      <4>2. Contested(k, records[k].uses)' = Contested(k, records[k].uses)
        BY <1>1, <4>1 DEF Contested
      <4> QED  BY <3>2, <4>1, <4>2
    <3> QED  BY <3>3, <3>4 DEF ContestedCounted
  <2>5. \A k \in LongTerm : \A d \in records'[k].uses : pc'[d] = "done"
    BY <1>1, <2>1, <2>3 DEF ContestedInvariant
  <2>6. \A k \in DOMAIN toWrite' : \A d \in toWrite'[k].uses : pc'[d] = "done"
    BY <1>1, <2>2 DEF ContestedInvariant
  <2>7. (\A k \in DOMAIN toWrite : toWrite[k].contested = Cardinality(Contested(k, toWrite[k].uses)))'
    BY <1>1, <2>2 DEF ContestedInvariant, Contested
  <2> QED  BY <1>1, <2>4, <2>5, <2>6, <2>7 DEF ContestedInvariant
<1>3. CASE Crash
  <2>1. UNCHANGED records /\ DOMAIN toWrite' = {}
    BY <1>3 DEF Crash
  <2> QED  BY <1>1, <2>1 DEF ContestedInvariant, ContestedCounted, Contested
<1>4. CASE Release \/ \E n \in toNote : Note(n)
  <2>1. UNCHANGED <<records, toWrite>>
    BY <1>4 DEF Release, Note
  <2> QED  BY <1>1, <2>1 DEF ContestedInvariant, ContestedCounted, Contested
<1> QED  BY <1>2, <1>3, <1>4

\* At first no use is contested.
LEMMA ContestedInit ==
    ASSUME UsageAssumption, Init
    PROVE  ContestedInvariant
<1>1. Cardinality({}) = 0
  BY FS_EmptySet
<1>2. DOMAIN toWrite = {} /\ log = {} /\ \A c \in Cases : toLog[c] = <<>>
  BY DEF Init
<1>3. \A m \in LongTerm : records[m].uses = {} /\ records[m].contested = 0
  BY DEF Init, Unused
<1>4. ContestedCounted
  BY <1>1, <1>3 DEF ContestedCounted, Contested
<1> QED  BY <1>2, <1>3, <1>4 DEF ContestedInvariant

\* Every step keeps the account of contested uses.
LEMMA StepKeepsContested ==
    ASSUME UsageAssumption, UsesInvariant, ContestedInvariant, [Next]_vars
    PROVE  ContestedInvariant'
<1>0. UNCHANGED plan /\ Apart' = Apart
  BY SamePlan DEF Next, vars
<1> SUFFICES ASSUME Apart PROVE ContestedInvariant'
  BY <1>0 DEF ContestedInvariant
<1>1. TypeOK
  BY DEF UsesInvariant
<1>2. ASSUME NEW c \in Cases, Predict(c) \/ Review(c) \/ Supervise(c) \/ Finish(c) \/ RunAgain(c)
      PROVE  ContestedInvariant'
  <2>1. CASE Predict(c)
    <3>1. \E events : Stage(c, "new", "predicted", events)
      BY <2>1 DEF Predict
    <3> QED  BY <1>0, <1>1, <3>1, StageKeepsContested
  <2>2. CASE Review(c)
    <3>1. \E events : Stage(c, "predicted", "reviewed", events)
      BY <2>2 DEF Review
    <3> QED  BY <1>0, <1>1, <3>1, StageKeepsContested
  <2>3. CASE Supervise(c)
    <3>1. \E events : Stage(c, "reviewed", "supervised", events)
      BY <2>3 DEF Supervise
    <3> QED  BY <1>0, <1>1, <3>1, StageKeepsContested
  <2>4. CASE Finish(c)
    BY <1>0, <1>1, <2>4, StageKeepsContested DEF Finish
  <2>5. CASE RunAgain(c)
    BY <2>5 DEF RunAgain
  <2> QED  BY <1>2, <2>1, <2>2, <2>3, <2>4, <2>5
<1>3. ASSUME NEW c \in Cases, LogOne(c) \/ LogFails(c)
      PROVE  ContestedInvariant'
  BY <1>0, <1>3, LoggingKeepsContested
<1>4. CASE Consolidate
  BY <1>0, <1>4, ConsolidateKeepsContested
<1>5. CASE Release \/ Crash \/ (\E m \in LongTerm : WriteFile(m)) \/ \E n \in toNote : Note(n)
  BY <1>0, <1>5, WritingKeepsContested
<1>6. CASE UNCHANGED vars
  BY <1>6 DEF vars, cases, consolidation, ContestedInvariant, ContestedCounted, Contested
<1> QED  BY <1>2, <1>3, <1>4, <1>5, <1>6 DEF Next, Case, Consolidator

-----------------------------------------------------------------------------
(***************************************************************************)
(* The invariants hold of every state a store may come into, with any      *)
(* number of cases, records, failures and kills.                           *)
(***************************************************************************)
THEOREM UsesInvariantHolds ==
    ASSUME UsageAssumption
    PROVE  Spec => [](UsesInvariant /\ ContestedInvariant)
<1>1. Init => UsesInvariant /\ ContestedInvariant
  BY UsesInit, ContestedInit
<1>2. UsesInvariant /\ ContestedInvariant /\ [Next]_vars => (UsesInvariant /\ ContestedInvariant)'
  BY StepKeepsUses, StepKeepsContested
<1> QED  BY <1>1, <1>2, PTL DEF Spec

(***************************************************************************)
(* The counts of a record are those of the uses that training cases        *)
(* logged, each counted once and as one outcome, through kills, reruns and *)
(* repeated consolidations; what the journal tells of is in the records;   *)
(* and where no consolidation falls into a case the contested uses are     *)
(* those logged as contested.                                              *)
(***************************************************************************)
THEOREM UsesAreAccounted ==
    ASSUME UsageAssumption
    PROVE  Spec => []UsesAccounted
<1>1. UsesInvariant /\ ContestedInvariant => UsesAccounted
  BY DEF UsesInvariant, ContestedInvariant, UsesAccounted
<1> QED  BY <1>1, UsesInvariantHolds, PTL

(***************************************************************************)
(* A use that was counted stays counted: no consolidation writes a record  *)
(* that knows less than the one it replaces.                               *)
(***************************************************************************)
THEOREM UsesAreKept ==
    ASSUME UsageAssumption
    PROVE  Spec => NothingLost
<1>1. UsesInvariant /\ [Next]_vars => [\A m \in LongTerm : records[m].uses \subseteq records'[m].uses]_vars
  BY StepKeepsUses
<1>2. Spec => []UsesInvariant
  BY UsesInvariantHolds, PTL
<1> QED  BY <1>1, <1>2, PTL DEF Spec, NothingLost

-----------------------------------------------------------------------------
(* Places of a sequence.                                                    *)

\* Among finitely many places there is one of every rank, and only one.
LEMMA Ranks ==
    ASSUME NEW S \in SUBSET Nat, IsFiniteSet(S), NEW n \in 1 .. Cardinality(S)
    PROVE  /\ \E i \in S : Rank(S, i) = n
           /\ \A i, k \in S : Rank(S, i) = Rank(S, k) => i = k
<1> DEFINE upTo(i) == {j \in S : j <= i}
           rank == [i \in S |-> Cardinality(upTo(i))]
<1>1. Cardinality(S) \in Nat
  BY FS_CardinalityType
<1>2. \A i \in S : upTo(i) \in SUBSET S /\ i \in upTo(i)
  OBVIOUS
<1>3. \A i \in S : IsFiniteSet(upTo(i)) /\ Cardinality(upTo(i)) \in Nat /\ Cardinality(upTo(i)) <= Cardinality(S)
  BY <1>2, FS_Subset, FS_CardinalityType
<1>4. \A i \in S : Cardinality(upTo(i)) # 0
  BY <1>2, <1>3, FS_EmptySet
<1>5. \A i, k \in S : i < k => Cardinality(upTo(i)) # Cardinality(upTo(k))
  <2> SUFFICES ASSUME NEW i \in S, NEW k \in S, i < k, Cardinality(upTo(i)) = Cardinality(upTo(k))
               PROVE  FALSE
    OBVIOUS
  <2>1. upTo(i) \in SUBSET upTo(k) /\ k \in upTo(k) /\ k \notin upTo(i)
    <3>1. i \in Nat /\ k \in Nat /\ \A j \in S : j \in Nat
      OBVIOUS
    <3>2. \A j \in S : j <= i => j <= k
      BY <3>1
    <3>3. upTo(i) \subseteq upTo(k)
      BY <3>2
    <3>4. k \in upTo(k) /\ k \notin upTo(i)
      BY <3>1
    <3> QED  BY <3>3, <3>4
  <2>2. IsFiniteSet(upTo(k))
    BY <1>3
  <2> HIDE DEF upTo
  <2>3. upTo(k) = upTo(i)
    BY <2>1, <2>2, FS_Subset
  <2> QED  BY <2>1, <2>3
<1>6. \A i, k \in S : Cardinality(upTo(i)) = Cardinality(upTo(k)) => i = k
  <2> HIDE DEF upTo
  <2> QED  BY <1>5
<1>7. rank \in [S -> 1 .. Cardinality(S)]
  <2> HIDE DEF upTo
  <2> QED  BY <1>1, <1>3, <1>4
<1>8. rank \in Injection(S, 1 .. Cardinality(S))
  <2> HIDE DEF upTo
  <2> QED  BY <1>6, <1>7 DEF Injection, IsInjective
<1>9. IsFiniteSet(1 .. Cardinality(S)) /\ Cardinality(1 .. Cardinality(S)) = Cardinality(S)
  BY <1>1, FS_Interval
<1>10. rank \in Surjection(S, 1 .. Cardinality(S))
  <2> HIDE DEF rank
  <2> QED  BY <1>8, <1>9, FS_Injection
<1>11. \E i \in S : rank[i] = n
  <2> HIDE DEF rank
  <2> QED  BY <1>10 DEF Surjection
<1> QED  BY <1>6, <1>11 DEF Rank

\* The n-th of some places has that rank.
LEMMA NthPlace ==
    ASSUME NEW S \in SUBSET Nat, IsFiniteSet(S), NEW n \in 1 .. Cardinality(S)
    PROVE  /\ Nth(S, n) \in S /\ Rank(S, Nth(S, n)) = n
           /\ \A i \in S : Rank(S, i) = n => i = Nth(S, n)
<1>1. \E i \in S : Rank(S, i) = n
  BY Ranks
<1>2. Nth(S, n) \in S /\ Rank(S, Nth(S, n)) = n
  BY <1>1 DEF Nth
<1>3. \A i, k \in S : Rank(S, i) = Rank(S, k) => i = k
  BY Ranks
<1> QED  BY <1>2, <1>3

\* The last of some places comes after all of them.
LEMMA LastPlace ==
    ASSUME NEW S \in SUBSET Nat, IsFiniteSet(S), S # {}
    PROVE  /\ Nth(S, Cardinality(S)) \in S
           /\ \A i \in S : i <= Nth(S, Cardinality(S))
<1> DEFINE last == Nth(S, Cardinality(S))
<1>1. Cardinality(S) \in Nat /\ Cardinality(S) # 0
  BY FS_CardinalityType, FS_EmptySet
<1>2. last \in S /\ Rank(S, last) = Cardinality(S)
  <2>1. Cardinality(S) \in 1 .. Cardinality(S)
    BY <1>1
  <2> QED  BY <2>1, NthPlace
<1>3. {j \in S : j <= last} = S
  <2> DEFINE T == {j \in S : j <= last}
  <2>1. T \in SUBSET S /\ Cardinality(T) = Cardinality(S)
    BY <1>2 DEF Rank
  <2> HIDE DEF T
  <2>2. T = S
    BY <2>1, FS_Subset
  <2> QED  BY <2>2 DEF T
<1> QED  BY <1>2, <1>3

\* There is a first of some places.
LEMMA FirstPlace ==
    ASSUME NEW S \in SUBSET Nat, IsFiniteSet(S), S # {}
    PROVE  \E i \in S : \A j \in S : i <= j
<1>1. Cardinality(S) \in Nat /\ Cardinality(S) # 0
  BY FS_CardinalityType, FS_EmptySet
<1>2. PICK i \in S : Rank(S, i) = 1
  BY <1>1, Ranks
<1> DEFINE T == {j \in S : j <= i}
<1>3. T \in SUBSET S /\ i \in T
  OBVIOUS
<1>4. PICK x : T = {x}
  <2> HIDE DEF T
  <2>1. IsFiniteSet(T)
    BY <1>3, FS_Subset
  <2>2. Cardinality(T) = 1
    BY <1>2 DEF T, Rank
  <2> QED  BY <2>1, <2>2, FS_Singleton
<1>5. \A j \in S : j <= i => j = i
  BY <1>3, <1>4
<1> QED  BY <1>5

\* The places of a file are finitely many natural numbers.
LEMMA PlacesFinite ==
    ASSUME NEW rows \in Seq(Stored), NEW S, S \subseteq DOMAIN rows
    PROVE  S \in SUBSET Nat /\ IsFiniteSet(S)
<1>1. DOMAIN rows = 1 .. Len(rows) /\ Len(rows) \in Nat
  BY LenProperties
<1>2. IsFiniteSet(1 .. Len(rows))
  BY <1>1, FS_Interval
<1>3. S \in SUBSET (1 .. Len(rows))
  BY <1>1
<1>4. IsFiniteSet(S)
  BY <1>2, <1>3, FS_Subset
<1> QED  BY <1>1, <1>3, <1>4

\* The places of the rows with an identifier.
Places(rows, id) == {i \in DOMAIN rows : rows[i].id = id}

\* The last row with an identifier.
LastAt(rows, id) == rows[LastOf(rows, id)]

\* The last row with the identifier of a row is a row of the file.
LEMMA LastRow ==
    ASSUME NEW rows \in Seq(Stored), NEW i \in DOMAIN rows
    PROVE  \E k \in DOMAIN rows :
              /\ LastAt(rows, rows[i].id) = rows[k] /\ rows[k].id = rows[i].id
              /\ \A j \in DOMAIN rows : rows[j].id = rows[i].id => j <= k
<1> DEFINE P == Places(rows, rows[i].id)
           k == LastOf(rows, rows[i].id)
           IsLast(n) == n \in DOMAIN rows /\ rows[n].id = rows[i].id
                        /\ \A j \in n + 1 .. Len(rows) : rows[j].id # rows[i].id
<1>1. P \subseteq DOMAIN rows /\ i \in P
  BY DEF Places
<1>2. P \in SUBSET Nat /\ IsFiniteSet(P)
  <2> HIDE DEF P
  <2> QED  BY <1>1, PlacesFinite
<1>3. \E n \in P : \A j \in P : j <= n
  <2> HIDE DEF P
  <2> QED  BY <1>1, <1>2, LastPlace
<1>4. DOMAIN rows = 1 .. Len(rows) /\ Len(rows) \in Nat
  BY LenProperties
<1>5. \E n \in DOMAIN rows : IsLast(n)
  BY <1>3, <1>4 DEF Places
<1>6. IsLast(k)
  BY <1>5 DEF LastOf
<1> HIDE DEF k
<1>7. \A j \in DOMAIN rows : rows[j].id = rows[i].id => j <= k
  BY <1>4, <1>6
<1> QED  BY <1>6, <1>7 DEF LastAt, k

\* The rewritten file has the identifiers of the rows, each once and with the
\* last row that has it.
LEMMA ByIdRows ==
    ASSUME NEW rows \in Seq(Stored)
    PROVE  /\ ById(rows) \in Seq(Stored)
           /\ \A i \in DOMAIN rows : \E n \in DOMAIN ById(rows) : ById(rows)[n] = LastAt(rows, rows[i].id)
           /\ \A n \in DOMAIN ById(rows) : \E i \in DOMAIN rows : ById(rows)[n] = LastAt(rows, rows[i].id)
           /\ Unique(ById(rows))
<1> DEFINE F == Firsts(rows)
           size == Cardinality(F)
           at(n) == Nth(F, n)
<1>1. F \subseteq DOMAIN rows /\ F \in SUBSET Nat /\ IsFiniteSet(F)
  <2>1. F \subseteq DOMAIN rows
    BY DEF Firsts
  <2> HIDE DEF F
  <2> QED  BY <2>1, PlacesFinite
<1>2. size \in Nat
  <2> HIDE DEF F
  <2> QED  BY <1>1, FS_CardinalityType
<1>3. \A n \in 1 .. size : at(n) \in F /\ Rank(F, at(n)) = n /\ \A i \in F : Rank(F, i) = n => i = at(n)
  <2> HIDE DEF F
  <2> QED  BY <1>1, NthPlace
<1>4. ById(rows) = [n \in 1 .. size |-> LastAt(rows, rows[at(n)].id)]
  BY DEF ById, LastAt
<1>5. \A i \in DOMAIN rows : LastAt(rows, rows[i].id) \in Stored /\ LastAt(rows, rows[i].id).id = rows[i].id
  <2> SUFFICES ASSUME NEW i \in DOMAIN rows
               PROVE  LastAt(rows, rows[i].id) \in Stored /\ LastAt(rows, rows[i].id).id = rows[i].id
    OBVIOUS
  <2>1. PICK k \in DOMAIN rows : LastAt(rows, rows[i].id) = rows[k] /\ rows[k].id = rows[i].id
    BY LastRow
  <2>2. rows[k] \in Stored
    BY ElementOfSeq, LenProperties
  <2> QED  BY <2>1, <2>2
<1>6. \A n \in 1 .. size : at(n) \in DOMAIN rows
  BY <1>1, <1>3
<1> HIDE DEF F, size, at
<1>7. ById(rows) \in Seq(Stored)
  <2>1. ById(rows) \in [1 .. size -> Stored]
    BY <1>4, <1>5, <1>6
  <2> QED  BY <1>2, <2>1 DEF Seq
<1>8. DOMAIN ById(rows) = 1 .. size
  BY <1>4
<1>9. ASSUME NEW i \in DOMAIN rows
      PROVE  \E n \in DOMAIN ById(rows) : ById(rows)[n] = LastAt(rows, rows[i].id)
  <2> DEFINE P == Places(rows, rows[i].id)
  <2>1. P \subseteq DOMAIN rows /\ i \in P
    BY DEF Places
  <2>2. P \in SUBSET Nat /\ IsFiniteSet(P)
    <3> HIDE DEF P
    <3> QED  BY <2>1, PlacesFinite
  <2>3. PICK f \in P : \A j \in P : f <= j
    <3> HIDE DEF P
    <3> QED  BY <2>1, <2>2, FirstPlace
  <2>4. f \in DOMAIN rows /\ rows[f].id = rows[i].id /\ \A j \in DOMAIN rows : rows[j].id = rows[i].id => f <= j
    BY <2>3 DEF Places
  <2>5. f \in Firsts(rows)
    <3> SUFFICES ASSUME NEW j \in 1 .. f - 1, rows[j].id = rows[f].id
                 PROVE  FALSE
      BY <2>4 DEF Firsts
    <3>1. DOMAIN rows = 1 .. Len(rows) /\ Len(rows) \in Nat
      BY LenProperties
    <3>2. j \in DOMAIN rows /\ ~(f <= j)
      BY <2>4, <3>1
    <3> QED  BY <2>4, <3>2
  <2> DEFINE n == Rank(F, f)
  <2>6. f \in F
    BY <2>5 DEF F
  <2>7. n \in 1 .. size
    <3> DEFINE T == {j \in F : j <= f}
    <3>1. T \in SUBSET F /\ f \in T
      BY <1>1, <2>6
    <3>2. n = Cardinality(T)
      BY DEF Rank
    <3> HIDE DEF T, n
    <3>3. IsFiniteSet(T) /\ Cardinality(T) <= Cardinality(F) /\ Cardinality(T) \in Nat
      BY <1>1, <3>1, FS_Subset, FS_CardinalityType
    <3>4. Cardinality(T) # 0
      BY <3>1, <3>3, FS_EmptySet
    <3>5. size = Cardinality(F)
      BY DEF size
    <3> QED  BY <1>2, <3>2, <3>3, <3>4, <3>5
  <2>8. f = at(n)
    BY <1>3, <2>6, <2>7
  <2>9. ById(rows)[n] = LastAt(rows, rows[i].id)
    BY <1>4, <2>4, <2>7, <2>8
  <2> QED  BY <1>8, <2>7, <2>9
<1>10. \A n \in DOMAIN ById(rows) : \E i \in DOMAIN rows : ById(rows)[n] = LastAt(rows, rows[i].id)
  BY <1>4, <1>6, <1>8
<1>11. Unique(ById(rows))
  <2> SUFFICES ASSUME NEW n \in 1 .. size, NEW k \in 1 .. size, ById(rows)[n].id = ById(rows)[k].id
               PROVE  n = k
    BY <1>8 DEF Unique
  <2>1. rows[at(n)].id = rows[at(k)].id
    BY <1>4, <1>5, <1>6
  <2>2. at(n) \in Firsts(rows) /\ at(k) \in Firsts(rows) /\ at(n) \in Nat /\ at(k) \in Nat
    BY <1>1, <1>3 DEF F
  <2>3. at(n) = at(k)
    <3>1. ~(at(n) < at(k))
      BY <2>1, <2>2, LenProperties DEF Firsts
    <3>2. ~(at(k) < at(n))
      BY <2>1, <2>2, LenProperties DEF Firsts
    <3> QED  BY <2>2, <3>1, <3>2
  <2> QED  BY <1>3, <2>3
<1> QED  BY <1>7, <1>9, <1>10, <1>11

-----------------------------------------------------------------------------
(* Rewriting the file.                                                      *)

\* An append adds one place and changes no other.
LEMMA Appended ==
    ASSUME NEW rows \in Seq(Stored), NEW record \in Stored
    PROVE  /\ Append(rows, record) \in Seq(Stored)
           /\ DOMAIN Append(rows, record) = DOMAIN rows \cup {Len(rows) + 1}
           /\ Len(rows) \in Nat /\ DOMAIN rows = 1 .. Len(rows)
           /\ \A i \in DOMAIN rows : Append(rows, record)[i] = rows[i]
           /\ Append(rows, record)[Len(rows) + 1] = record
<1>1. /\ Append(rows, record) \in Seq(Stored) /\ Len(Append(rows, record)) = Len(rows) + 1
      /\ \A i \in 1 .. Len(rows) : Append(rows, record)[i] = rows[i]
      /\ Append(rows, record)[Len(rows) + 1] = record
  BY AppendProperties
<1>2. /\ Len(rows) \in Nat /\ DOMAIN rows = 1 .. Len(rows)
      /\ DOMAIN Append(rows, record) = 1 .. Len(Append(rows, record))
  BY <1>1, LenProperties
<1> QED  BY <1>1, <1>2

\* The file that is written holds what the old one did, with the record.
LEMMA RewrittenRows ==
    ASSUME NEW rows \in Seq(Stored), NEW record \in Stored
    PROVE  /\ WithRecord(rows, record) \in Seq(Stored) /\ Unique(WithRecord(rows, record))
           /\ record \in ToSet(WithRecord(rows, record))
           /\ ToSet(WithRecord(rows, record)) \subseteq ToSet(rows) \cup {record}
           /\ Ids(rows) \subseteq Ids(WithRecord(rows, record))
           /\ Unique(rows) => \A row \in ToSet(rows) :
                row.id # record.id => row \in ToSet(WithRecord(rows, record))
<1> DEFINE all == Append(rows, record)
           new == WithRecord(rows, record)
           end == Len(rows) + 1
<1>1. all \in Seq(Stored) /\ DOMAIN all = DOMAIN rows \cup {end} /\ all[end] = record
      /\ (\A i \in DOMAIN rows : all[i] = rows[i]) /\ Len(rows) \in Nat /\ DOMAIN rows = 1 .. Len(rows)
  BY Appended
<1>2. new = ById(all)
  BY DEF WithRecord
<1> HIDE DEF all, new
<1>3. /\ new \in Seq(Stored) /\ Unique(new)
      /\ \A i \in DOMAIN all : \E n \in DOMAIN new : new[n] = LastAt(all, all[i].id)
      /\ \A n \in DOMAIN new : \E i \in DOMAIN all : new[n] = LastAt(all, all[i].id)
  BY <1>1, <1>2, ByIdRows
<1>4. \A i \in DOMAIN all : \E k \in DOMAIN all :
         /\ LastAt(all, all[i].id) = all[k] /\ all[k].id = all[i].id
         /\ \A j \in DOMAIN all : all[j].id = all[i].id => j <= k
  BY <1>1, LastRow
<1>5. ToSet(new) \subseteq ToSet(rows) \cup {record}
  <2> SUFFICES ASSUME NEW n \in DOMAIN new
               PROVE  new[n] \in ToSet(rows) \cup {record}
    BY DEF ToSet
  <2>1. PICK i \in DOMAIN all : new[n] = LastAt(all, all[i].id)
    BY <1>3
  <2>2. PICK k \in DOMAIN all : new[n] = all[k]
    BY <1>4, <2>1
  <2> QED  BY <1>1, <2>2 DEF ToSet
<1>6. LastAt(all, record.id) = record
  <2>1. PICK k \in DOMAIN all : /\ LastAt(all, record.id) = all[k]
                                /\ \A j \in DOMAIN all : all[j].id = record.id => j <= k
    BY <1>1, <1>4
  <2>2. end <= k /\ k \in 1 .. end
    BY <1>1, <2>1
  <2>3. k = end
    BY <1>1, <2>2
  <2> QED  BY <1>1, <2>1, <2>3
<1>7. record \in ToSet(new)
  BY <1>1, <1>3, <1>6 DEF ToSet
<1>8. Ids(rows) \subseteq Ids(new)
  <2> SUFFICES ASSUME NEW i \in DOMAIN rows
               PROVE  \E n \in DOMAIN new : new[n].id = rows[i].id
    BY DEF Ids, ToSet
  <2>1. i \in DOMAIN all /\ all[i] = rows[i]
    BY <1>1
  <2>2. PICK n \in DOMAIN new : new[n] = LastAt(all, rows[i].id)
    BY <1>3, <2>1
  <2>3. LastAt(all, rows[i].id).id = rows[i].id
    BY <1>4, <2>1
  <2> QED  BY <2>2, <2>3
<1>9. ASSUME Unique(rows), NEW row \in ToSet(rows), row.id # record.id
      PROVE  row \in ToSet(new)
  <2>1. PICK i \in DOMAIN rows : row = rows[i]
    BY DEF ToSet
  <2>2. i \in DOMAIN all /\ all[i] = row
    BY <1>1, <2>1
  <2>3. PICK n \in DOMAIN new : new[n] = LastAt(all, row.id)
    BY <1>3, <2>2
  <2>4. PICK k \in DOMAIN all : LastAt(all, row.id) = all[k] /\ all[k].id = row.id
    BY <1>4, <2>2
  <2>5. k \in DOMAIN rows /\ rows[k].id = rows[i].id
    BY <1>1, <1>9, <2>1, <2>4
  <2>6. k = i
    BY <1>9, <2>1, <2>5 DEF Unique
  <2> QED  BY <2>2, <2>3, <2>4, <2>6 DEF ToSet
<1> QED  BY <1>3, <1>5, <1>7, <1>8, <1>9 DEF new

\* A revision keeps the text of every record.
LEMMA RevisionKeeps ==
    ASSUME SeedTypeOK, Named(file), NEW record \in Stored, Revision(record)
    PROVE  /\ \A row \in ToSet(file) : row.id = record.id => row.key = record.key
           /\ \A row \in ToSet(WithRecord(file, record)) :
                \/ \E old \in ToSet(file) : old.id = row.id /\ old.key = row.key
                \/ row \in Learned
           /\ Keys(file) \subseteq Keys(WithRecord(file, record))
<1> DEFINE new == WithRecord(file, record)
<1>1. file \in Seq(Stored)
  BY DEF SeedTypeOK
<1>2. \A row \in ToSet(file) : row \in Stored
  BY <1>1, ElementOfSeq, LenProperties DEF ToSet
<1>3. \/ \E old \in ToSet(file) : old.id = record.id /\ old.key = record.key
      \/ record \in Learned /\ record.id \notin Ids(file)
  BY <1>2 DEF Revision, Stored
<1>4. \A row, old \in ToSet(file) : row.id = old.id => row.key = old.key
  BY DEF Named, ToSet
<1>5. \A row \in ToSet(file) : row.id = record.id => row.key = record.key
  BY <1>3, <1>4 DEF Ids
<1>6. /\ ToSet(new) \subseteq ToSet(file) \cup {record} /\ record \in ToSet(new)
      /\ Ids(file) \subseteq Ids(new)
  BY <1>1, RewrittenRows
<1> HIDE DEF new
<1>7. \A row \in ToSet(new) :
         (\E old \in ToSet(file) : old.id = row.id /\ old.key = row.key) \/ row \in Learned
  BY <1>3, <1>6
<1>8. Keys(file) \subseteq Keys(new)
  <2> SUFFICES ASSUME NEW row \in ToSet(file)
               PROVE  \E other \in ToSet(new) : other.key = row.key
    BY DEF Keys
  <2>1. PICK other \in ToSet(new) : other.id = row.id
    BY <1>6 DEF Ids
  <2>2. other \in ToSet(file) \/ other = record
    BY <1>6
  <2> QED  BY <1>4, <1>5, <2>1, <2>2
<1> QED  BY <1>5, <1>7, <1>8 DEF new

-----------------------------------------------------------------------------
(* Who shares the file.                                                     *)

\* What the assumption says of those who share the file.
Crew ==
    /\ SeedAssumption /\ party \in DOMAIN Parties
    /\ IsFiniteSet(Seeders) /\ Seeders \cap Consolidators = {} /\ None \notin Processes
    /\ MaxDeaths \in Nat

\* They are those of one of the parties.
LEMMA CrewTyped ==
    ASSUME SeedAssumption, party \in DOMAIN Parties
    PROVE  Crew
BY DEF Crew, SeedAssumption, Processes, Seeders, Consolidators, MaxDeaths

\* They stay the same.
LEMMA SameParty ==
    ASSUME UNCHANGED party
    PROVE  /\ party' = party /\ Seeders' = Seeders /\ Consolidators' = Consolidators
           /\ Processes' = Processes /\ MaxDeaths' = MaxDeaths
BY DEF Processes, Seeders, Consolidators, MaxDeaths

-----------------------------------------------------------------------------
(* Each step keeps what the file and the processes are.                     *)

\* The rows of the rules are rows of a file, and no two rules share an identifier.
LEMMA RuleRow ==
    ASSUME SeedAssumption, NEW i \in DOMAIN Rules
    PROVE  /\ Row(Rules[i]) \in Stored /\ Row(Rules[i]).id = Rules[i].id /\ Row(Rules[i]).key = Rules[i].key
           /\ \A j \in DOMAIN Rules : j # i => Rules[j].id # Rules[i].id
           /\ DOMAIN Rules = 1 .. Len(Rules) /\ Len(Rules) \in Nat
<1>1. Rules[i] \in [id : STRING, key : STRING] /\ DOMAIN Rules = 1 .. Len(Rules) /\ Len(Rules) \in Nat
  <2>1. Rules \in Seq([id : STRING, key : STRING])
    BY DEF SeedAssumption
  <2> QED  BY <2>1, ElementOfSeq, LenProperties
<1>2. Row(Rules[i]) \in Stored /\ Row(Rules[i]).id = Rules[i].id /\ Row(Rules[i]).key = Rules[i].key
  BY <1>1 DEF Row, Stored
<1> QED  BY <1>1, <1>2 DEF SeedAssumption

\* The file and the processes at first.
LEMMA FileInit ==
    ASSUME SeedAssumption, SeedInit
    PROVE  FileInvariant
<1>0. Crew
  BY CrewTyped DEF SeedInit
<1>1. file \in Seq(Stored) /\ Unique(file)
  BY DEF SeedInit, SeedAssumption, Unique
<1>2. Len(Rules) \in Nat
  BY LenProperties DEF SeedAssumption
<1>3. SeedTypeOK
  <2>1. known \in [Processes -> Seq(Stored)]
    BY DEF SeedInit
  <2>2. place \in [Seeders -> 1 .. Len(Rules) + 1]
    BY <1>2 DEF SeedInit
  <2> QED  BY <1>0, <1>1, <2>1, <2>2 DEF SeedInit, SeedTypeOK, Crew, SeedAssumption, Processes
<1>4. HeldInvariant /\ SeedInvariant
  BY <1>0 DEF SeedInit, HeldInvariant, SeedInvariant, Processes, Crew, SeedAssumption
<1> QED  BY <1>1, <1>3, <1>4 DEF FileInvariant, Named, Unique

\* What a step leaves alone stays accounted for.
LEMMA SeederUntouched ==
    ASSUME SeedInvariant, NEW s \in Seeders, process[s] = "seed", NEW i \in DOMAIN Rules,
           UNCHANGED <<file, place[s], known[s]>>, UNCHANGED party
    PROVE  Accounted(s, i)'
  BY SameParty DEF SeedInvariant, Accounted, InFile, Present, Ids, Keys

\* A seeder reads what is there.
LEMMA LoadAllKeeps ==
    ASSUME Crew, FileInvariant, NEW s \in Seeders, LoadAll(s), UNCHANGED party
    PROVE  FileInvariant' /\ UNCHANGED file
<1>s. /\ party' = party /\ Seeders' = Seeders /\ Consolidators' = Consolidators
      /\ Processes' = Processes /\ MaxDeaths' = MaxDeaths
  BY SameParty
<1> USE <1>s
<1>1. SeedTypeOK /\ s \in Processes /\ s \notin Consolidators
  BY DEF FileInvariant, Processes, Crew, SeedAssumption
<1>2. /\ process' = [process EXCEPT ![s] = "seed"] /\ known' = [known EXCEPT ![s] = file]
      /\ place' = [place EXCEPT ![s] = 1] /\ starts < MaxStarts /\ starts' = starts + 1
      /\ UNCHANGED <<file, holder, changed, deaths>>
  BY DEF LoadAll
<1>3. Len(Rules) \in Nat /\ DOMAIN Rules = 1 .. Len(Rules)
  BY LenProperties DEF Crew, SeedAssumption
<1>4. SeedTypeOK'
  <2>1. place' \in [Seeders -> 1 .. Len(Rules) + 1] /\ starts' \in 0 .. MaxStarts
    BY <1>1, <1>2, <1>3 DEF SeedTypeOK, Crew, SeedAssumption
  <2> QED  BY <1>1, <1>2, <2>1 DEF SeedTypeOK, Processes
<1>5. HeldInvariant'
  BY <1>1, <1>2 DEF FileInvariant, HeldInvariant, Revision, SeedTypeOK, Processes
<1>6. SeedInvariant'
  <2> SUFFICES ASSUME NEW t \in Seeders, process'[t] = "seed", NEW i \in DOMAIN Rules
               PROVE  Accounted(t, i)'
    BY DEF SeedInvariant
  <2>1. CASE t = s
    <3>1. place'[t] = 1 /\ known'[t] = file /\ file' = file /\ ~(i < 1)
      BY <1>1, <1>2, <1>3, <2>1 DEF SeedTypeOK
    <3> QED  BY <3>1 DEF Accounted, InFile, Present, Ids, Keys
  <2>2. CASE t # s
    <3>1. process[t] = "seed" /\ place'[t] = place[t] /\ known'[t] = known[t] /\ file' = file
      BY <1>1, <1>2, <2>2 DEF SeedTypeOK, Processes
    <3> QED  BY <3>1, SeederUntouched DEF FileInvariant
  <2> QED  BY <2>1, <2>2
<1> QED  BY <1>2, <1>4, <1>5, <1>6 DEF FileInvariant, Named, Unique

\* A seeder comes past a rule that it found when it began.
LEMMA SkippingKeeps ==
    ASSUME Crew, FileInvariant, NEW s \in Seeders, process[s] = "seed", More(s),
           Present(s, Rules[place[s]]), place' = [place EXCEPT ![s] = @ + 1],
           UNCHANGED <<file, holder, process, known, changed, starts, deaths>>, UNCHANGED party
    PROVE  FileInvariant'
<1>s. /\ party' = party /\ Seeders' = Seeders /\ Consolidators' = Consolidators
      /\ Processes' = Processes /\ MaxDeaths' = MaxDeaths
  BY SameParty
<1> USE <1>s
<1>1. SeedTypeOK /\ place[s] \in 1 .. Len(Rules) + 1 /\ place[s] <= Len(Rules)
  BY DEF FileInvariant, SeedTypeOK, More
<1>2. Len(Rules) \in Nat /\ DOMAIN Rules = 1 .. Len(Rules)
  BY LenProperties DEF Crew, SeedAssumption
<1>3. place' \in [Seeders -> 1 .. Len(Rules) + 1] /\ place'[s] = place[s] + 1
  BY <1>1, <1>2 DEF SeedTypeOK
<1>4. SeedTypeOK' /\ HeldInvariant'
  BY <1>1, <1>3 DEF FileInvariant, HeldInvariant, Revision, SeedTypeOK
<1>5. ASSUME NEW t \in Seeders, process[t] = "seed", NEW i \in DOMAIN Rules
      PROVE  Accounted(t, i)'
  <2>1. CASE t # s
    <3>1. place'[t] = place[t]
      BY <1>1, <2>1 DEF SeedTypeOK
    <3> QED  BY <1>5, <3>1, SeederUntouched DEF FileInvariant
  <2>2. CASE t = s
    <3>1. Accounted(s, i) /\ (i < place[s] + 1 => i < place[s] \/ i = place[s])
      BY <1>1, <1>2, <1>5, <2>2 DEF FileInvariant, SeedInvariant
    <3> QED  BY <1>1, <1>2, <1>3, <2>2, <3>1 DEF Accounted, InFile, Present, Ids, Keys
  <2> QED  BY <2>1, <2>2
<1>6. SeedInvariant'
  BY <1>5 DEF SeedInvariant
<1> QED  BY <1>4, <1>6 DEF FileInvariant, Named, Unique

\* A seeder appends a rule, while no consolidation holds the lock.
LEMMA AppendingKeeps ==
    ASSUME Crew, FileInvariant, NEW s \in Seeders, process[s] = "seed", More(s),
           AppendRule(s), place' = [place EXCEPT ![s] = @ + 1],
           UNCHANGED <<holder, process, known, changed, starts, deaths>>, UNCHANGED party
    PROVE  FileInvariant' /\ Kept
<1>s. /\ party' = party /\ Seeders' = Seeders /\ Consolidators' = Consolidators
      /\ Processes' = Processes /\ MaxDeaths' = MaxDeaths
  BY SameParty
<1> USE <1>s
<1> DEFINE here == place[s]
           row == Row(Rules[here])
<1>1. SeedTypeOK /\ here \in 1 .. Len(Rules) + 1 /\ here <= Len(Rules)
  BY DEF FileInvariant, SeedTypeOK, More
<1>2. Len(Rules) \in Nat /\ DOMAIN Rules = 1 .. Len(Rules) /\ here \in DOMAIN Rules
  <2>1. Len(Rules) \in Nat /\ DOMAIN Rules = 1 .. Len(Rules)
    BY LenProperties DEF Crew, SeedAssumption
  <2> QED  BY <1>1, <2>1
<1>3. place' \in [Seeders -> 1 .. Len(Rules) + 1] /\ place'[s] = here + 1
      /\ \A t \in Seeders \ {s} : place'[t] = place[t]
  BY <1>1, <1>2 DEF SeedTypeOK
<1>4. /\ row \in Stored /\ row.id = Rules[here].id /\ row.key = Rules[here].key
      /\ \A j \in DOMAIN Rules : j # here => Rules[j].id # Rules[here].id
  BY <1>2, RuleRow DEF Crew
<1>5. file' = Append(file, row) /\ ~Present(s, Rules[here]) /\ holder = None /\ file \in Seq(Stored)
  BY <1>1 DEF AppendRule, MayLock, SeedTypeOK
<1> HIDE DEF row
<1>6. /\ file' \in Seq(Stored) /\ DOMAIN file' = DOMAIN file \cup {Len(file) + 1}
      /\ Len(file) \in Nat /\ DOMAIN file = 1 .. Len(file)
      /\ \A i \in DOMAIN file : file'[i] = file[i]
      /\ file'[Len(file) + 1] = row
  BY <1>4, <1>5, Appended
<1>7. ToSet(file') = ToSet(file) \cup {row}
  BY <1>6 DEF ToSet
<1>8. Accounted(s, here)
  BY <1>2 DEF FileInvariant, SeedInvariant
<1>9. \A old \in ToSet(file) : old.id = row.id => old.key = row.key /\ Cardinality(Seeders) # 1
  BY <1>1, <1>2, <1>4, <1>5, <1>8 DEF Accounted
<1>10. Named(file')
  <2> SUFFICES ASSUME NEW i \in DOMAIN file', NEW j \in DOMAIN file', file'[i].id = file'[j].id
               PROVE  file'[i].key = file'[j].key
    BY DEF Named
  <2>1. CASE i \in DOMAIN file /\ j \in DOMAIN file
    BY <1>6, <2>1 DEF FileInvariant, Named
  <2>2. CASE i \notin DOMAIN file \/ j \notin DOMAIN file
    <3>1. \A k \in DOMAIN file : file'[k] \in ToSet(file)
      BY <1>6 DEF ToSet
    <3> QED  BY <1>6, <1>9, <2>2, <3>1
  <2> QED  BY <2>1, <2>2
<1>11. Cardinality(Seeders) = 1 => Unique(file')
  <2> SUFFICES ASSUME Cardinality(Seeders) = 1, NEW i \in DOMAIN file', NEW j \in DOMAIN file', i # j
               PROVE  file'[i].id # file'[j].id
    BY DEF Unique
  <2>1. \A k \in DOMAIN file : file'[k] \in ToSet(file) /\ file'[k].id # row.id
    BY <1>6, <1>9 DEF ToSet
  <2>2. CASE i \in DOMAIN file /\ j \in DOMAIN file
    BY <1>6, <2>2 DEF FileInvariant, Unique
  <2>3. CASE i \notin DOMAIN file \/ j \notin DOMAIN file
    BY <1>6, <2>1, <2>3
  <2> QED  BY <2>2, <2>3
<1>12. ASSUME NEW t \in Seeders, process[t] = "seed", NEW i \in DOMAIN Rules
       PROVE  Accounted(t, i)'
  <2>1. Accounted(t, i) /\ Present(t, Rules[i])' = Present(t, Rules[i])
    BY <1>12 DEF FileInvariant, SeedInvariant, Present, Ids, Keys
  <2>2. InFile(i) => InFile(i)'
    BY <1>7 DEF InFile, Ids, Keys
  <2>3. Rules[here].id \in Ids(file')
    BY <1>4, <1>7 DEF Ids
  <2>4. i < place'[t] \/ Present(t, Rules[i])' => InFile(i)'
    <3>1. CASE i = here
      BY <2>3, <3>1 DEF InFile
    <3>2. CASE i # here
      <4>1. i < place'[t] => i < place[t]
        BY <1>1, <1>2, <1>3, <3>2
      <4> QED  BY <2>1, <2>2, <4>1 DEF Accounted
    <3> QED  BY <3>1, <3>2
  <2>5. ASSUME i >= place'[t], ~Present(t, Rules[i]), NEW new \in ToSet(file'), new.id = Rules[i].id
        PROVE  new.key = Rules[i].key /\ Cardinality(Seeders) # 1
    <3>1. i >= place[t]
      BY <1>1, <1>2, <1>3, <2>5 DEF SeedTypeOK
    <3>2. CASE new \in ToSet(file)
      BY <2>1, <2>5, <3>1, <3>2 DEF Accounted
    <3>3. CASE new = row
      <4>1. i = here
        BY <1>4, <2>5, <3>3
      <4>2. t # s
        BY <1>1, <1>2, <1>3, <2>5, <4>1
      <4>3. Cardinality(Seeders) # 1
        BY <4>2, FS_Singleton DEF Crew, SeedAssumption
      <4> QED  BY <1>4, <3>3, <4>1, <4>3
    <3> QED  BY <1>7, <3>2, <3>3
  <2> QED  BY <2>1, <2>4, <2>5 DEF Accounted
<1>13. SeedInvariant'
  BY <1>12 DEF SeedInvariant
<1>14. HeldInvariant'
  <2>1. \A c \in Consolidators : holder # c
    BY <1>5 DEF Crew, SeedAssumption, Processes
  <2>2. \A c \in Consolidators : process[c] \notin {"upsert", "replace"}
    BY <2>1 DEF FileInvariant, HeldInvariant
  <2> QED  BY <2>1, <2>2 DEF HeldInvariant
<1>15. SeedTypeOK'
  BY <1>1, <1>3, <1>6 DEF SeedTypeOK
<1>16. Kept
  <2>1. \A old \in ToSet(file) : old.version >= old.version
    <3>1. \A old \in ToSet(file) : old \in Stored
      BY <1>5, ElementOfSeq, LenProperties DEF ToSet
    <3> QED  BY <3>1 DEF Stored
  <2> QED  BY <1>7, <2>1 DEF Kept, RecordsKept, NothingOlder, Ids
<1> QED  BY <1>10, <1>11, <1>13, <1>14, <1>15, <1>16 DEF FileInvariant

\* A consolidation takes the lock and revises a record, or promotes one.
LEMMA ConsolidateKeeps ==
    ASSUME Crew, FileInvariant, NEW c \in Consolidators, Revise(c), UNCHANGED party
    PROVE  FileInvariant' /\ UNCHANGED file
<1>s. /\ party' = party /\ Seeders' = Seeders /\ Consolidators' = Consolidators
      /\ Processes' = Processes /\ MaxDeaths' = MaxDeaths
  BY SameParty
<1> USE <1>s
<1>1. SeedTypeOK /\ c \in Processes /\ c \notin Seeders
  BY DEF FileInvariant, Processes, Crew, SeedAssumption
<1>2. /\ holder = None /\ holder' = c /\ known' = [known EXCEPT ![c] = file]
      /\ process' = [process EXCEPT ![c] = "upsert"] /\ starts < MaxStarts /\ starts' = starts + 1
      /\ UNCHANGED <<file, place, deaths>>
  BY DEF Revise, Begin, Lock, MayLock
<1>3. PICK record :
        /\ changed' = [changed EXCEPT ![c] = record] /\ record \in Stored /\ Revision(record)
  <2>1. PICK row \in ToSet(file) \cup {new \in Learned : new.id \notin Ids(file)} :
          changed' = [changed EXCEPT ![c] =
             IF row \in ToSet(file) THEN [row EXCEPT !.version = @ + 1] ELSE row]
    BY DEF Revise
  <2>2. CASE row \in ToSet(file)
    <3>1. row \in Stored
      BY <1>1, <2>2, ElementOfSeq, LenProperties DEF SeedTypeOK, ToSet
    <3>2. [row EXCEPT !.version = @ + 1] \in Stored
      BY <3>1 DEF Stored
    <3>3. Revision([row EXCEPT !.version = @ + 1])
      BY <2>2 DEF Revision
    <3> QED  BY <2>1, <2>2, <3>2, <3>3
  <2>3. CASE row \notin ToSet(file)
    <3>1. row \in Learned /\ row.id \notin Ids(file)
      BY <2>1, <2>3
    <3>2. row \in Stored /\ Revision(row)
      BY <3>1 DEF Revision, Crew, SeedAssumption
    <3> QED  BY <2>1, <2>3, <3>2
  <2> QED  BY <2>2, <2>3
<1>4. \A d \in Consolidators : process[d] \notin {"upsert", "replace"} /\ d # None
  BY <1>2 DEF FileInvariant, HeldInvariant, Crew, SeedAssumption, Processes
<1>5. changed'[c] = record /\ DOMAIN changed' = Consolidators
  BY <1>1, <1>3 DEF SeedTypeOK
<1>6. process'[c] = "upsert" /\ \A p \in Processes \ {c} : process'[p] = process[p]
  BY <1>1, <1>2 DEF SeedTypeOK
<1>7. SeedTypeOK'
  <2>1. starts' \in 0 .. MaxStarts
    BY <1>1, <1>2 DEF SeedTypeOK, Crew, SeedAssumption
  <2>2. process' \in [Processes -> {"down", "seed", "upsert", "replace"}]
        /\ (\A s \in Seeders : process'[s] \in {"down", "seed"}) /\ \A d \in Consolidators : process'[d] # "seed"
    BY <1>1, <1>2, <1>6 DEF SeedTypeOK, Processes
  <2>3. \A d \in Consolidators : process'[d] \in {"upsert", "replace"} => changed'[d] \in Stored
    BY <1>3, <1>4, <1>5, <1>6 DEF Processes
  <2> QED  BY <1>1, <1>2, <1>5, <2>1, <2>2, <2>3 DEF SeedTypeOK
<1>8. \A d \in Consolidators : process'[d] \in {"upsert", "replace"} => d = c
  BY <1>4, <1>6 DEF Processes
<1>9. Revision(changed[c])'
  BY <1>2, <1>3, <1>5 DEF Revision
<1>10. HeldInvariant'
  BY <1>2, <1>6, <1>8, <1>9 DEF HeldInvariant
<1>11. \A s \in Seeders : process'[s] = process[s] /\ known'[s] = known[s] /\ s \in Processes
  BY <1>1, <1>2, <1>6 DEF SeedTypeOK, Processes
<1>12. SeedInvariant'
  BY <1>2, <1>11, SeederUntouched DEF FileInvariant, SeedInvariant
<1> QED  BY <1>2, <1>7, <1>10, <1>12 DEF FileInvariant, Named, Unique

\* It reads the file once more and writes another.
LEMMA WriteTemporaryKeeps ==
    ASSUME Crew, FileInvariant, NEW c \in Consolidators, WriteTemporary(c), UNCHANGED party
    PROVE  FileInvariant' /\ UNCHANGED file
<1>s. /\ party' = party /\ Seeders' = Seeders /\ Consolidators' = Consolidators
      /\ Processes' = Processes /\ MaxDeaths' = MaxDeaths
  BY SameParty
<1> USE <1>s
<1>1. SeedTypeOK /\ c \in Processes /\ c \notin Seeders /\ process[c] = "upsert"
  BY DEF FileInvariant, Processes, Crew, SeedAssumption, WriteTemporary
<1>2. /\ known' = [known EXCEPT ![c] = WithRecord(file, changed[c])]
      /\ process' = [process EXCEPT ![c] = "replace"]
      /\ UNCHANGED <<file, holder, place, changed, starts, deaths>>
  BY DEF WriteTemporary
<1>3. changed[c] \in Stored /\ file \in Seq(Stored)
  BY <1>1 DEF SeedTypeOK
<1>4. WithRecord(file, changed[c]) \in Seq(Stored)
  BY <1>3, RewrittenRows
<1>5. process'[c] = "replace" /\ known'[c] = WithRecord(file, changed[c])
      /\ \A p \in Processes \ {c} : process'[p] = process[p] /\ known'[p] = known[p]
  BY <1>1, <1>2 DEF SeedTypeOK
<1>6. SeedTypeOK'
  <2>1. known' \in [Processes -> Seq(Stored)]
    BY <1>1, <1>2, <1>4 DEF SeedTypeOK
  <2>2. process' \in [Processes -> {"down", "seed", "upsert", "replace"}]
        /\ (\A s \in Seeders : process'[s] \in {"down", "seed"}) /\ \A d \in Consolidators : process'[d] # "seed"
    BY <1>1, <1>2, <1>5 DEF SeedTypeOK, Processes
  <2>3. \A d \in Consolidators : process'[d] \in {"upsert", "replace"} => changed'[d] \in Stored
    BY <1>1, <1>2, <1>3, <1>5 DEF SeedTypeOK, Processes
  <2> QED  BY <1>1, <1>2, <2>1, <2>2, <2>3 DEF SeedTypeOK
<1>7. HeldInvariant'
  <2>1. Revision(changed[c]) /\ holder = c
    BY <1>1 DEF FileInvariant, HeldInvariant
  <2>2. ASSUME NEW d \in Consolidators, d # c
        PROVE  d # holder /\ process'[d] = process[d] /\ process[d] \notin {"upsert", "replace"}
    BY <1>5, <2>1, <2>2 DEF FileInvariant, HeldInvariant, Processes
  <2>3. Revision(changed[c])' /\ (known'[c] = WithRecord(file', changed'[c])) /\ holder' = c
    BY <1>2, <1>5, <2>1 DEF Revision
  <2> QED  BY <1>2, <1>5, <2>2, <2>3 DEF HeldInvariant
<1>8. \A s \in Seeders : process'[s] = process[s] /\ known'[s] = known[s]
  BY <1>1, <1>5 DEF Processes
<1>9. SeedInvariant'
  BY <1>2, <1>8, SeederUntouched DEF FileInvariant, SeedInvariant
<1> QED  BY <1>2, <1>6, <1>7, <1>9 DEF FileInvariant, Named, Unique

\* It replaces the file, which is the one it read, and lets others in.
LEMMA ReplaceKeeps ==
    ASSUME Crew, FileInvariant, NEW c \in Consolidators, Replace(c), UNCHANGED party
    PROVE  FileInvariant' /\ Kept
<1>s. /\ party' = party /\ Seeders' = Seeders /\ Consolidators' = Consolidators
      /\ Processes' = Processes /\ MaxDeaths' = MaxDeaths
  BY SameParty
<1> USE <1>s
<1> DEFINE record == changed[c]
<1>1. SeedTypeOK /\ c \in Processes /\ c \notin Seeders /\ process[c] = "replace" /\ Named(file)
  BY DEF FileInvariant, Processes, Crew, SeedAssumption, Replace
<1>2. holder = c /\ Revision(record) /\ known[c] = WithRecord(file, record)
  BY <1>1 DEF FileInvariant, HeldInvariant
<1>3. /\ file' = WithRecord(file, record) /\ holder' = None
      /\ process' = [process EXCEPT ![c] = "down"]
      /\ UNCHANGED <<known, place, changed, starts, deaths>>
  BY <1>2 DEF Replace, Unlock
<1>4. record \in Stored /\ file \in Seq(Stored) /\ \A row \in ToSet(file) : row \in Stored
  BY <1>1, ElementOfSeq, LenProperties DEF SeedTypeOK, ToSet
<1> HIDE DEF record
<1>5. /\ file' \in Seq(Stored) /\ Unique(file') /\ record \in ToSet(file')
      /\ Ids(file) \subseteq Ids(file')
      /\ Unique(file) => \A row \in ToSet(file) : row.id # record.id => row \in ToSet(file')
  BY <1>3, <1>4, RewrittenRows
<1>6. /\ \A row \in ToSet(file') :
           (\E old \in ToSet(file) : old.id = row.id /\ old.key = row.key) \/ row \in Learned
      /\ Keys(file) \subseteq Keys(file')
  BY <1>1, <1>2, <1>3, <1>4, RevisionKeeps
<1>7. process'[c] = "down" /\ \A p \in Processes \ {c} : process'[p] = process[p]
  BY <1>1, <1>3 DEF SeedTypeOK
<1>8. SeedTypeOK'
  <2>1. process' \in [Processes -> {"down", "seed", "upsert", "replace"}]
        /\ (\A s \in Seeders : process'[s] \in {"down", "seed"}) /\ \A d \in Consolidators : process'[d] # "seed"
    BY <1>1, <1>3, <1>7 DEF SeedTypeOK, Processes
  <2>2. \A d \in Consolidators : process'[d] \in {"upsert", "replace"} => changed'[d] \in Stored
    BY <1>1, <1>3, <1>7 DEF SeedTypeOK, Processes
  <2> QED  BY <1>1, <1>3, <1>5, <2>1, <2>2 DEF SeedTypeOK
<1>9. HeldInvariant'
  <2>1. ASSUME NEW d \in Consolidators
        PROVE  process'[d] \notin {"upsert", "replace"} /\ d # None
    BY <1>2, <1>7 DEF FileInvariant, HeldInvariant, Processes, Crew, SeedAssumption
  <2> QED  BY <1>3, <2>1 DEF HeldInvariant
<1>10. ASSUME NEW s \in Seeders, process'[s] = "seed", NEW i \in DOMAIN Rules
       PROVE  Accounted(s, i)'
  <2>1. process[s] = "seed" /\ Accounted(s, i)
    BY <1>1, <1>7, <1>10 DEF FileInvariant, SeedInvariant, Processes
  <2>2. Present(s, Rules[i])' = Present(s, Rules[i]) /\ place'[s] = place[s]
    BY <1>3 DEF Present, Ids, Keys
  <2>3. InFile(i) => InFile(i)'
    BY <1>5, <1>6 DEF InFile
  <2>4. ASSUME NEW row \in ToSet(file'), row.id = Rules[i].id
        PROVE  \E old \in ToSet(file) : old.id = row.id /\ old.key = row.key
    BY <1>6, <2>4 DEF Crew, SeedAssumption
  <2> QED  BY <2>1, <2>2, <2>3, <2>4 DEF Accounted
<1>11. SeedInvariant'
  BY <1>10 DEF SeedInvariant
<1>12. Named(file')
  BY <1>5 DEF Named, Unique
<1>13. RecordsKept
  BY <1>5 DEF RecordsKept
<1>14. ASSUME Cardinality(Seeders) = 1, NEW row \in ToSet(file)
       PROVE  \E new \in ToSet(file') : new.id = row.id /\ new.version >= row.version
  <2>1. Unique(file)
    BY <1>14 DEF FileInvariant
  <2>2. CASE row.id # record.id
    <3>1. row.version >= row.version
      BY <1>4 DEF Stored
    <3> QED  BY <1>5, <2>1, <2>2, <3>1
  <2>3. CASE row.id = record.id
    <3>1. PICK old \in ToSet(file) : record = [old EXCEPT !.version = @ + 1]
      BY <1>2, <2>3 DEF Revision, Ids
    <3>2. old \in Stored /\ record.id = old.id /\ record.version = old.version + 1
      BY <1>4, <3>1 DEF Stored
    <3>3. old = row
      BY <2>1, <2>3, <3>2 DEF Unique, ToSet
    <3>4. record.version >= row.version
      BY <3>2, <3>3 DEF Stored
    <3> QED  BY <1>5, <2>3, <3>4
  <2> QED  BY <2>2, <2>3
<1> QED  BY <1>5, <1>8, <1>9, <1>11, <1>12, <1>13, <1>14 DEF FileInvariant, Kept, NothingOlder

\* A seeder ends, or any process is killed: the lock it held is free.
LEMMA EndingKeeps ==
    ASSUME Crew, FileInvariant,
           (\E s \in Seeders : Inserted(s)) \/ (\E p \in Processes : Die(p)), UNCHANGED party
    PROVE  FileInvariant' /\ UNCHANGED file
<1>s. /\ party' = party /\ Seeders' = Seeders /\ Consolidators' = Consolidators
      /\ Processes' = Processes /\ MaxDeaths' = MaxDeaths
  BY SameParty
<1> USE <1>s
<1>1. SeedTypeOK
  BY DEF FileInvariant
<1>2. PICK p \in Processes :
        /\ process' = [process EXCEPT ![p] = "down"]
        /\ holder' = holder \/ holder' = None
        /\ p \in Seeders => holder' = holder
        /\ p \in Consolidators => holder' = IF holder = p THEN None ELSE holder
        /\ UNCHANGED <<file, known, place, changed, starts>>
        /\ deaths' \in 0 .. MaxDeaths
  <2>1. ASSUME NEW s \in Seeders, Inserted(s)
        PROVE  s \in Processes /\ s \notin Consolidators /\ deaths \in 0 .. MaxDeaths
    BY <1>1 DEF SeedTypeOK, Processes, Crew, SeedAssumption
  <2>2. ASSUME NEW p \in Processes, Die(p)
        PROVE  deaths' \in 0 .. MaxDeaths /\ (p \in Seeders => holder # p)
    BY <1>1, <2>2 DEF SeedTypeOK, Die, Processes, Crew, SeedAssumption
  <2> QED  BY <2>1, <2>2 DEF Inserted, Die, Unlock
<1>3. process'[p] = "down" /\ \A q \in Processes \ {p} : process'[q] = process[q]
  BY <1>1, <1>2 DEF SeedTypeOK
<1>4. SeedTypeOK'
  <2>1. process' \in [Processes -> {"down", "seed", "upsert", "replace"}]
        /\ (\A s \in Seeders : process'[s] \in {"down", "seed"}) /\ \A d \in Consolidators : process'[d] # "seed"
    BY <1>1, <1>2, <1>3 DEF SeedTypeOK, Processes
  <2>2. \A d \in Consolidators : process'[d] \in {"upsert", "replace"} => changed'[d] \in Stored
    BY <1>1, <1>2, <1>3 DEF SeedTypeOK, Processes
  <2> QED  BY <1>1, <1>2, <2>1, <2>2 DEF SeedTypeOK
<1>5. HeldInvariant'
  <2> SUFFICES ASSUME NEW c \in Consolidators
               PROVE  (/\ process[c] \in {"upsert", "replace"} <=> holder = c
                       /\ process[c] \in {"upsert", "replace"} => Revision(changed[c])
                       /\ process[c] = "replace" => known[c] = WithRecord(file, changed[c]))'
    BY DEF HeldInvariant
  <2>1. /\ process[c] \in {"upsert", "replace"} <=> holder = c
        /\ process[c] \in {"upsert", "replace"} => Revision(changed[c])
        /\ process[c] = "replace" => known[c] = WithRecord(file, changed[c])
    BY DEF FileInvariant, HeldInvariant
  <2>2. c # None /\ c \in Processes /\ c \notin Seeders
    BY DEF Crew, SeedAssumption, Processes
  <2>3. CASE c = p
    BY <1>2, <1>3, <2>2, <2>3
  <2>4. CASE c # p
    <3>1. process'[c] = process[c] /\ (holder' = c <=> holder = c)
      BY <1>2, <1>3, <2>2, <2>4 DEF Processes
    <3> QED  BY <1>2, <2>1, <3>1 DEF Revision
  <2> QED  BY <2>3, <2>4
<1>6. SeedInvariant'
  <2> SUFFICES ASSUME NEW s \in Seeders, process'[s] = "seed", NEW i \in DOMAIN Rules
               PROVE  Accounted(s, i)'
    BY DEF SeedInvariant
  <2>1. process[s] = "seed"
    BY <1>3 DEF Processes
  <2> QED  BY <1>2, <2>1, SeederUntouched DEF FileInvariant
<1> QED  BY <1>2, <1>4, <1>5, <1>6 DEF FileInvariant, Named, Unique

\* Every step keeps the invariant, and what is in the file.
LEMMA StepKeepsFile ==
    ASSUME SeedAssumption, FileInvariant, [SeedNext]_seedVars
    PROVE  FileInvariant' /\ [Kept]_file
<1>1. Crew /\ party' = party
  BY CrewTyped DEF FileInvariant, SeedTypeOK, SeedNext, seedVars
<1>2. ASSUME NEW s \in Seeders, SeedRule(s)
      PROVE  FileInvariant' /\ [Kept]_file
  <2>1. /\ process[s] = "seed" /\ More(s) /\ place' = [place EXCEPT ![s] = @ + 1]
        /\ UNCHANGED <<holder, process, known, changed, starts, deaths>>
        /\ AppendRule(s) \/ (Present(s, Rules[place[s]]) /\ UNCHANGED file)
    BY <1>2 DEF SeedRule
  <2> QED  BY <1>1, <2>1, AppendingKeeps, SkippingKeeps
<1>3. ASSUME NEW s \in Seeders, LoadAll(s)
      PROVE  FileInvariant' /\ [Kept]_file
  BY <1>1, <1>3, LoadAllKeeps
<1>4. ASSUME NEW c \in Consolidators, ConsolidatorStep(c)
      PROVE  FileInvariant' /\ [Kept]_file
  BY <1>1, <1>4, ConsolidateKeeps, WriteTemporaryKeeps, ReplaceKeeps DEF ConsolidatorStep
<1>5. CASE (\E s \in Seeders : Inserted(s)) \/ (\E p \in Processes : Die(p))
  BY <1>1, <1>5, EndingKeeps
<1>6. CASE UNCHANGED seedVars
  <2>1. /\ UNCHANGED <<file, holder, process, known, place, changed, starts, deaths, party>>
        /\ Seeders' = Seeders /\ Consolidators' = Consolidators
        /\ Processes' = Processes /\ MaxDeaths' = MaxDeaths
    BY <1>1, <1>6, SameParty DEF seedVars
  <2>2. SeedTypeOK' /\ HeldInvariant'
    BY <2>1 DEF FileInvariant, SeedTypeOK, HeldInvariant, Revision
  <2>3. SeedInvariant'
    BY <2>1 DEF FileInvariant, SeedInvariant, Accounted, InFile, Present, Ids, Keys
  <2> QED  BY <2>1, <2>2, <2>3 DEF FileInvariant, Named, Unique
<1> QED  BY <1>2, <1>3, <1>4, <1>5, <1>6 DEF SeedNext, SeederStep

-----------------------------------------------------------------------------
(***************************************************************************)
(* The invariant holds of every file, however many processes share it and  *)
(* wherever they are killed.                                               *)
(***************************************************************************)
THEOREM FileInvariantHolds ==
    ASSUME SeedAssumption
    PROVE  SeedSpec => []FileInvariant
<1>1. SeedInit => FileInvariant
  BY FileInit
<1>2. FileInvariant /\ [SeedNext]_seedVars => FileInvariant'
  BY StepKeepsFile
<1> QED  BY <1>1, <1>2, PTL DEF SeedSpec

(***************************************************************************)
(* A seeder that came through its rules leaves each of them in the file,   *)
(* whatever others wrote meanwhile, and one seeder leaves none twice.      *)
(***************************************************************************)
THEOREM RulesAreSeeded ==
    ASSUME SeedAssumption
    PROVE  SeedSpec => []SeededOnce
<1>1. ASSUME FileInvariant
      PROVE  SeedingComplete
  <2> SUFFICES ASSUME NEW s \in Seeders, process[s] = "seed", ~More(s), NEW i \in DOMAIN Rules
               PROVE  InFile(i)
    BY DEF SeedingComplete, ToSet, InFile
  <2>1. Accounted(s, i)
    BY <1>1 DEF FileInvariant, SeedInvariant
  <2>2. Rules \in Seq([id : STRING, key : STRING])
    BY DEF SeedAssumption
  <2>3. DOMAIN Rules = 1 .. Len(Rules) /\ Len(Rules) \in Nat
    BY <2>2, LenProperties
  <2>4. place[s] \in 1 .. Len(Rules) + 1
    BY <1>1 DEF FileInvariant, SeedTypeOK
  <2>5. i < place[s]
    BY <2>3, <2>4 DEF More
  <2> QED  BY <2>1, <2>5 DEF Accounted
<1>2. FileInvariant => SeededOnce
  BY <1>1 DEF FileInvariant, SeededOnce, RulesOnce
<1> QED  BY <1>2, FileInvariantHolds, PTL

(***************************************************************************)
(* No write takes back what another process wrote: every record stays in   *)
(* the file, and with one seeder none gets older.                          *)
(***************************************************************************)
THEOREM RecordsAreKept ==
    ASSUME SeedAssumption
    PROVE  SeedSpec => NothingOverwritten
<1>1. FileInvariant /\ [SeedNext]_seedVars => [Kept]_file
  BY StepKeepsFile
<1> QED  BY <1>1, FileInvariantHolds, PTL DEF SeedSpec, NothingOverwritten
==============================================================================
