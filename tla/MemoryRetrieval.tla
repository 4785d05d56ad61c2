--------------------------- MODULE MemoryRetrieval ---------------------------
(***************************************************************************)
(* What a case is given to remember: the rows of memory, scored for the    *)
(* claim of the case, the best ones first and none twice, while other      *)
(* cases leave lessons, consolidation promotes and retires them, and their *)
(* uses are judged. Source: src/memory/memory_retriever.py, memory_query_  *)
(* builder.py, the retrieval of memory_service.py and its call in main.py. *)
(*                                                                         *)
(* Numbers between 0 and 1 are percentages; the score is in 1/10000.       *)
(***************************************************************************)
EXTENDS Integers, FiniteSets, FiniteSetsExt

CONSTANTS
    Cases, Query,    \* per case: claim, task, subtask, scope, and its evidence
    Ids, Row,        \* per row: what the lesson says and where it applies
    Source,          \* per row: the case it was learned from
    Unset,           \* a field that is missing
    Semantic,        \* similarity of a case and a row (external)
    Equivalent,      \* pairs of rows the similarity backend finds equivalent
    Seeded,          \* rows there from the start
    TopK, MinSemantic, MinFinal, ActiveOnly, StagedVisible,   \* memory.yaml
    MaxUses, MaxRuns                                          \* bounds

ASSUME RetrievalAssumption ==
    /\ Seeded \subseteq Ids /\ Ids \subseteq Nat /\ IsFiniteSet(Ids)
    /\ TopK \in Nat \ {0} /\ MaxUses \in Nat /\ MaxRuns \in Nat
    /\ {MinSemantic, MinFinal} \subseteq Nat /\ {ActiveOnly, StagedVisible} \subseteq BOOLEAN
    /\ \A c \in Cases, m \in Ids : Semantic[c][m] \in 0 .. 100
    /\ \A m, n \in Ids : <<m, n>> \in Equivalent => <<n, m>> \in Equivalent
    /\ \A c \in Cases : Query[c].provenance \in 0 .. 100 /\ Query[c].uncertainty \in 0 .. 100
    /\ \A m \in Ids : /\ Row[m].confidence \in 0 .. 100 /\ Row[m].support \in Nat
                       /\ IsFiniteSet(Row[m].pattern)

VARIABLES
    place,     \* per row: not there, staged, or in long-term memory
    status,    \* of a row in long-term memory
    uses,      \* per row: uses that went well, badly, or were contested
    given,     \* per case: the rows its last run was given, a set
    learning,  \* per case: whether that run was one that learns
    runs

retrievalVars == <<place, status, uses, given, learning, runs>>

NoUses == [good |-> 0, bad |-> 0, contested |-> 0]

RetrievalInit ==
    /\ place = [m \in Ids |-> IF m \in Seeded THEN "long" ELSE "none"]
    /\ status = [m \in Ids |-> "active"]
    /\ uses = [m \in Ids |-> NoUses]
    /\ given = [c \in Cases |-> {}]
    /\ learning = [c \in Cases |-> FALSE]
    /\ runs = [c \in Cases |-> 0]

-----------------------------------------------------------------------------
\* MemoryRetriever._score_components: the parts of the score.

\* A part of 50, 25, 15 or 10 for what the row and the claim agree about; a
\* staged row carries no scope, no subtask and no list of compatible claims.
\* A field of the row or of the query that is unset agrees with anything.
Agree(a, b) == a = Unset \/ b = Unset \/ a = b

Compatibility == [c \in Cases |-> [m \in Ids |-> [long \in BOOLEAN |->
    LET q == Query[c]
        r == Row[m]
        part(points, agreed) == IF agreed THEN points ELSE 0
    IN  part(50, \/ r.claim = q.claim
                 \/ long /\ r.claim \in {Unset, "general"} /\ q.claim \in r.claims)
          + part(25, Agree(r.task, q.task))
          + part(15, ~long \/ Agree(r.subtask, q.subtask))
          + part(10, ~long \/ Agree(r.scope, q.scope) \/ q.scope \in r.scopes)]]]

EvidencePattern == [c \in Cases |-> [m \in Ids |->
    LET q == Query[c]
        pattern == Row[m].pattern
        overlap == IF pattern = {} THEN 0
                   ELSE (100 * Cardinality(pattern \cap q.tokens)) \div Cardinality(pattern)
        fit == IF q.claim \in q.supported THEN 100 ELSE 0
    IN  (5 * overlap + 2 * fit + 2 * q.provenance + 100 - q.uncertainty) \div 10]]

\* Mutant: a use somebody contested is counted as a good one.
UsageContested(m, use) ==
    LET all == use[m].good + use[m].bad + use[m].contested
    IN  IF place[m] # "long" \/ all = 0 THEN 0 ELSE (100 * (use[m].good + use[m].contested)) \div all

Usage(m, use) ==
    LET all == use[m].good + use[m].bad + use[m].contested
    IN  IF place[m] # "long" \/ all = 0 THEN 0 ELSE (100 * use[m].good) \div all

Support(m) == IF place[m] = "long" THEN 20 * Min({5, Row[m].support}) ELSE 20

\* The score the row would have with these uses.
FinalScore(c, m, use) ==
    55 * Semantic[c][m] + 15 * Compatibility[c][m][place[m] = "long"] + 10 * EvidencePattern[c][m]
        + 10 * Row[m].confidence + 5 * Support(m) + 5 * Usage(m, use)

-----------------------------------------------------------------------------
\* MemoryRetriever._retrieve_ranked, and the choice of rows of MemoryService.

\* Mutant: staged rows are shown to every run.
StagedRowsAlways(learns) == {m \in Ids : place[m] = "staged"}

StagedRows(learns) == {m \in Ids : learns /\ StagedVisible /\ place[m] = "staged"}

LongRows == {m \in Ids : place[m] = "long" /\ (ActiveOnly => status[m] = "active")}

Passes(c, m, use) == Semantic[c][m] >= MinSemantic /\ FinalScore(c, m, use) >= MinFinal

\* Mutant: rows stay in the order of the files.
BeforeByFile(c, m, n, use) == m < n

\* Of equal scores the greater id comes first; the id of a staged row begins
\* with stm.
Before(c, m, n, use) ==
    LET ahead == FinalScore(c, m, use) - FinalScore(c, n, use)
    IN  \/ ahead > 0
        \/ ahead = 0 /\ place[m] = "staged" /\ place[n] # "staged"
        \/ ahead = 0 /\ (place[m] = "staged" <=> place[n] = "staged") /\ m > n

Rows(c, learns, use) == {m \in LongRows \cup StagedRows(learns) : Passes(c, m, use)}

\* Mutant: only the words of the key are compared.
SameKeys(m, n) == Row[m].key = Row[n].key

SameRow(m, n) == Row[m].key = Row[n].key \/ <<m, n>> \in Equivalent

\* The pass over the ranked rows: a row is kept if none of those kept before it
\* says the same, and there is room.
Keeps(c, S, m, use) ==
    /\ \A k \in S : SameRow(m, k) => ~Before(c, k, m, use)
    /\ Cardinality({k \in S : Before(c, k, m, use)}) < TopK

Retrieved(c, learns, use) ==
    LET rows == Rows(c, learns, use)
    IN  CHOOSE S \in SUBSET rows : \A m \in rows : m \in S <=> Keeps(c, S, m, use)

-----------------------------------------------------------------------------
\* A run of a case, in a mode that learns or in one that does not.
RetrieveForClaims(c) ==
    /\ runs[c] < MaxRuns
    /\ \E learns \in BOOLEAN :
         /\ given' = [given EXCEPT ![c] = Retrieved(c, learns, uses)]
         /\ learning' = [learning EXCEPT ![c] = learns]
    /\ runs' = [runs EXCEPT ![c] = @ + 1]
    /\ UNCHANGED <<place, status, uses>>

\* After the prediction the case leaves its lesson, drawn with its gold label
\* (Reflection and MemoryConsolidation).
Reflect(c) ==
    /\ learning[c] /\ runs[c] > 0
    /\ \E m \in Ids : Source[m] = c /\ place[m] = "none" /\ place' = [place EXCEPT ![m] = "staged"]
    /\ UNCHANGED <<status, uses, given, learning, runs>>

\* Consolidation promotes a staged row, or changes the status of another; of
\* the statuses that are not active one stands for all.
Promote(m) ==
    /\ place[m] = "staged"
    /\ place' = [place EXCEPT ![m] = "long"]
    /\ UNCHANGED <<status, uses, given, learning, runs>>

ChangeStatus(m) ==
    /\ place[m] = "long"
    /\ \E s \in {"active", "under_review"} \ {status[m]} : status' = [status EXCEPT ![m] = s]
    /\ UNCHANGED <<place, uses, given, learning, runs>>

\* The outcome of a use of a row (MemoryUsage).
Outcome(m, outcome) ==
    /\ place[m] = "long"
    /\ \E c \in Cases : learning[c] /\ m \in given[c]
    /\ uses[m].good + uses[m].bad + uses[m].contested < MaxUses
    /\ uses' = [uses EXCEPT ![m][outcome] = @ + 1]
    /\ UNCHANGED <<place, status, given, learning, runs>>

RetrievalNext ==
    \/ \E c \in Cases : RetrieveForClaims(c) \/ Reflect(c)
    \/ \E m \in Ids : Promote(m) \/ ChangeStatus(m)
    \/ \E m \in Ids, outcome \in {"good", "bad", "contested"} : Outcome(m, outcome)

RetrievalSpec == RetrievalInit /\ [][RetrievalNext]_retrievalVars

-----------------------------------------------------------------------------
(***************************************************************************)
(* A row that passes both gates and is not given has given way: to a row   *)
(* that says the same with at least its score, or to as many rows as may   *)
(* be given, all with at least its score.                                  *)
(***************************************************************************)
NothingBetterLeft ==
    [][\A c \in Cases : runs'[c] # runs[c] =>
          LET best(m) == {k \in given'[c] : FinalScore(c, k, uses) >= FinalScore(c, m, uses)}
          IN  \A m \in Rows(c, learning'[c], uses) \ given'[c] :
                 \/ \E k \in best(m) : Row[k].key = Row[m].key \/ <<m, k>> \in Equivalent
                 \/ Cardinality(best(m)) = TopK]_runs

(***************************************************************************)
(* No two rows that are given say the same, although sameness is not       *)
(* transitive: not a staged lesson and its promoted twin either            *)
(* (test_memory_retrieval.py:136).                                         *)
(***************************************************************************)
NoTwice ==
    \A c \in Cases : \A m, n \in given[c] :
        m # n => Row[m].key # Row[n].key /\ <<m, n>> \notin Equivalent

(***************************************************************************)
(* A good outcome of a row never takes it from a case that would be given  *)
(* it, and a bad or contested one never brings it to a case that would     *)
(* not: with all the others unchanged, experience moves a row one way.     *)
(***************************************************************************)
UseTeaches ==
    [][\A m \in Ids, c \in Cases :
          uses'[m] # uses[m] =>
              LET before == m \in Retrieved(c, FALSE, uses)
                  after == m \in Retrieved(c, FALSE, uses')
              IN  IF uses'[m].good > uses[m].good THEN before => after ELSE after => before]_uses

(***************************************************************************)
(* "Even then, only bootstrap-phase retrieval sees" staged rows            *)
(* (test_memory_lifecycle_config.py:248): what a frozen run was given had  *)
(* been promoted.                                                          *)
(***************************************************************************)
FrozenSeesPromoted ==
    \A c \in Cases : ~learning[c] => \A m \in given[c] : place[m] = "long"

(***************************************************************************)
(* What a case is given is right: it repeats nothing                       *)
(* (memory_retriever.py:96-102) and, in a frozen run, has been promoted    *)
(* (memory_service.py:98-148); a row that passes both gates and is not     *)
(* given has given way to an equal one or to as many as may be given, with *)
(* at least its score; and a good outcome never takes a row from a case, a *)
(* bad one never brings it.                                                *)
(***************************************************************************)
GivenIsRight == [](NoTwice /\ FrozenSeesPromoted) /\ NothingBetterLeft /\ UseTeaches
=============================================================================
