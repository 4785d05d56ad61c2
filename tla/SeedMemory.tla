----------------------------- MODULE SeedMemory -----------------------------
(***************************************************************************)
(* One file of long-term memory, shared by processes: seeders that insert  *)
(* the rules the program is delivered with, and consolidators that rewrite *)
(* the file. Source: src/memory/seed_memory.py and src/memory/             *)
(* memory_store.py.                                                        *)
(*                                                                         *)
(* A row is [id, key, version]: key is the canonical key, the version says *)
(* how often consolidation revised the record. Every process has a store   *)
(* of its own; what they share is the file and its lock.                   *)
(***************************************************************************)
EXTENDS Naturals, Sequences, FiniteSets, SequencesExt

CONSTANTS
    Parties,      \* name -> who shares the file, see party
    Rules,        \* sequence of [id, key]: SEED_SEMANTIC_RULES
    Learned,      \* rows consolidation may promote
    FirstFiles,   \* contents of the file before
    None,
    MaxStarts     \* bound

Stored == [id : STRING, key : STRING, version : Nat]

\* The rules have ids of their own, and promoted records other ones
\* (memory_consolidator.py:763); a file has a record once.
SeedAssumption ==
    /\ \A p \in DOMAIN Parties :
         /\ IsFiniteSet(Parties[p].seeders)
         /\ Parties[p].seeders \cap Parties[p].consolidators = {}
         /\ None \notin Parties[p].seeders \cup Parties[p].consolidators
         /\ Parties[p].deaths \in Nat
    /\ Rules \in Seq([id : STRING, key : STRING])
    /\ \A i, j \in DOMAIN Rules : i # j => Rules[i].id # Rules[j].id
    /\ Learned \subseteq Stored /\ \A row \in Learned, i \in DOMAIN Rules : row.id # Rules[i].id
    /\ \A rows \in FirstFiles :
         /\ rows \in Seq(Stored)
         /\ \A i, j \in DOMAIN rows : i # j => rows[i].id # rows[j].id
    /\ MaxStarts \in Nat

VARIABLES
    file,      \* semantic_rules.jsonl
    holder,    \* who holds .memory.lock
    process, known,   \* per process: where it is, and the rows it has read
    place,     \* per seeder: the rule it is at
    changed,   \* per consolidator: the record it revised or promoted
    starts, deaths,
    party      \* name of who shares the file

seedVars == <<file, holder, process, known, place, changed, starts, deaths, party>>

Seeders == Parties[party].seeders
Consolidators == Parties[party].consolidators
Processes == Seeders \cup Consolidators

\* Bound.
MaxDeaths == Parties[party].deaths

SeedInit ==
    /\ party \in DOMAIN Parties
    /\ file \in FirstFiles /\ holder = None
    /\ process = [p \in Processes |-> "down"]
    /\ known = [p \in Processes |-> <<>>]
    /\ place = [s \in Seeders |-> 1]
    /\ changed = [c \in Consolidators |-> None]
    /\ starts = 0 /\ deaths = 0

Ids(rows) == {row.id : row \in ToSet(rows)}
Keys(rows) == {row.key : row \in ToSet(rows)}
Row(rule) == [id |-> rule.id, key |-> rule.key, version |-> 0]

-----------------------------------------------------------------------------
\* MemoryStore.transaction: the lock of the file system, released by exit.

\* Mutant: a row is appended whoever holds the lock.
MayLockAlways(p) == TRUE

MayLock(p) == holder = None
Lock(p) == MayLock(p) /\ holder' = p

\* Mutant: the end of the inner transaction leaves the outer one open.
UnlockNever(p) == UNCHANGED holder

Unlock(p) == holder' = IF holder = p THEN None ELSE holder

-----------------------------------------------------------------------------
\* seed_semantic_rules: what is there is read once, without the lock.

LoadAll(s) ==
    /\ process[s] = "down" /\ starts < MaxStarts
    /\ process' = [process EXCEPT ![s] = "seed"]
    /\ known' = [known EXCEPT ![s] = file]
    /\ place' = [place EXCEPT ![s] = 1]
    /\ starts' = starts + 1
    /\ UNCHANGED <<file, holder, changed, deaths>>

\* Mutant: a memory that is not empty is taken for a seeded one.
PresentAny(s, rule) == known[s] # <<>>

\* The loop compares with the rows read at the start, not with what it adds.
Present(s, rule) == rule.id \in Ids(known[s]) \/ rule.key \in Keys(known[s])

\* MemoryStore.append takes the lock for this one row.
AppendRule(s) ==
    /\ ~Present(s, Rules[place[s]])
    /\ MayLock(s)
    /\ file' = Append(file, Row(Rules[place[s]]))

More(s) == place[s] <= Len(Rules)

SeedRule(s) ==
    /\ process[s] = "seed" /\ More(s)
    /\ \/ AppendRule(s)
       \/ Present(s, Rules[place[s]]) /\ UNCHANGED file
    /\ place' = [place EXCEPT ![s] = @ + 1]
    /\ UNCHANGED <<holder, process, known, changed, starts, deaths>>

Inserted(s) ==
    /\ process[s] = "seed" /\ ~More(s)
    /\ process' = [process EXCEPT ![s] = "down"]
    /\ UNCHANGED <<file, holder, known, place, changed, starts, deaths>>

-----------------------------------------------------------------------------
\* MemoryConsolidator.consolidate: one transaction around reading and writing.

\* Mutant: the lock is taken after the records were read.
BeginLate(c) ==
    /\ process[c] = "down" /\ starts < MaxStarts
    /\ UNCHANGED holder
    /\ known' = [known EXCEPT ![c] = file]

Begin(c) ==
    /\ process[c] = "down" /\ starts < MaxStarts
    /\ Lock(c)
    /\ known' = [known EXCEPT ![c] = file]

\* The record is revised in memory, or a new one is promoted.
Revise(c) ==
    /\ Begin(c)
    /\ \E row \in ToSet(file) \cup {new \in Learned : new.id \notin Ids(file)} :
          changed' = [changed EXCEPT ![c] =
             IF row \in ToSet(file) THEN [row EXCEPT !.version = @ + 1] ELSE row]
    /\ process' = [process EXCEPT ![c] = "upsert"]
    /\ starts' = starts + 1
    /\ UNCHANGED <<file, place, deaths>>

Firsts(rows) == {i \in DOMAIN rows : \A j \in 1 .. i - 1 : rows[j].id # rows[i].id}
Rank(places, i) == Cardinality({j \in places : j <= i})
Nth(places, n) == CHOOSE i \in places : Rank(places, i) = n

LastOf(rows, id) ==
    CHOOSE i \in DOMAIN rows : rows[i].id = id /\ \A j \in i + 1 .. Len(rows) : rows[j].id # id

\* Of rows with one id the last is kept, in the place of the first.
ById(rows) ==
    LET firsts == Firsts(rows)
    IN  [n \in 1 .. Cardinality(firsts) |-> rows[LastOf(rows, rows[Nth(firsts, n)].id)]]

\* Mutant: a revised record is appended.
WithRecordAppended(rows, record) == Append(rows, record)

WithRecord(rows, record) == ById(Append(rows, record))

\* upsert_long_term reads the file once more and writes another; the backup it
\* makes is never read.
WriteTemporary(c) ==
    /\ process[c] = "upsert"
    /\ known' = [known EXCEPT ![c] = WithRecord(file, changed[c])]
    /\ process' = [process EXCEPT ![c] = "replace"]
    /\ UNCHANGED <<file, holder, place, changed, starts, deaths>>

\* os.replace, and the end of the transaction.
Replace(c) ==
    /\ process[c] = "replace"
    /\ file' = known[c]
    /\ Unlock(c)
    /\ process' = [process EXCEPT ![c] = "down"]
    /\ UNCHANGED <<known, place, changed, starts, deaths>>

-----------------------------------------------------------------------------
\* A process ends between two steps: the lock it held is free.
Die(p) ==
    /\ process[p] # "down" /\ deaths < MaxDeaths
    /\ process' = [process EXCEPT ![p] = "down"]
    /\ Unlock(p)
    /\ deaths' = deaths + 1
    /\ UNCHANGED <<file, known, place, changed, starts>>

SeederStep(s) == LoadAll(s) \/ SeedRule(s) \/ Inserted(s)
ConsolidatorStep(c) == Revise(c) \/ WriteTemporary(c) \/ Replace(c)

SeedNext ==
    /\ \/ \E s \in Seeders : SeederStep(s)
       \/ \E c \in Consolidators : ConsolidatorStep(c)
       \/ \E p \in Processes : Die(p)
    /\ UNCHANGED party

\* A process that is started runs on; starts and deaths are finitely many.
SeederGoesOn(s) == s \in Seeders /\ (SeedRule(s) \/ Inserted(s)) /\ UNCHANGED party
ConsolidatorGoesOn(c) == c \in Consolidators /\ (WriteTemporary(c) \/ Replace(c)) /\ UNCHANGED party

Fairness ==
    /\ \A s \in UNION {Parties[p].seeders : p \in DOMAIN Parties} : WF_seedVars(SeederGoesOn(s))
    /\ \A c \in UNION {Parties[p].consolidators : p \in DOMAIN Parties} :
         WF_seedVars(ConsolidatorGoesOn(c))

SeedSpec == SeedInit /\ [][SeedNext]_seedVars /\ Fairness

-----------------------------------------------------------------------------
SeedTypeOK ==
    /\ party \in DOMAIN Parties
    /\ file \in Seq(Stored) /\ holder \in Consolidators \cup {None}
    /\ process \in [Processes -> {"down", "seed", "upsert", "replace"}]
    /\ \A s \in Seeders : process[s] \in {"down", "seed"}
    /\ \A c \in Consolidators : process[c] # "seed"
    /\ known \in [Processes -> Seq(Stored)]
    /\ place \in [Seeders -> 1 .. Len(Rules) + 1]
    /\ DOMAIN changed = Consolidators
    /\ \A c \in Consolidators : process[c] \in {"upsert", "replace"} => changed[c] \in Stored
    /\ starts \in 0 .. MaxStarts /\ deaths \in 0 .. MaxDeaths

Unique(rows) == \A i, j \in DOMAIN rows : i # j => rows[i].id # rows[j].id

(***************************************************************************)
(* No rule is in the file twice, however often the memory is seeded and    *)
(* whatever consolidation writes in between (test_memory_store.py:70).     *)
(***************************************************************************)
RulesOnce == Unique(file)

(***************************************************************************)
(* A seeder that came through its rules leaves every one in the file,      *)
(* under its own name or as a record with the same text, also when the     *)
(* seeder before it did not get to the end.                                *)
(***************************************************************************)
SeedingComplete ==
    \A s \in Seeders : process[s] = "seed" /\ ~More(s) =>
        \A rule \in ToSet(Rules) : rule.id \in Ids(file) \/ rule.key \in Keys(file)

(***************************************************************************)
(* Every rule is there after seeding, and once where there is one seeder.  *)
(***************************************************************************)
SeededOnce == SeedingComplete /\ (Cardinality(Seeders) = 1 => RulesOnce)

\* Whoever rewrites the file keeps every record that others put there.
RecordsKept == Ids(file) \subseteq Ids(file')

\* The newest version of a record never gets older.
NothingOlder ==
    \A row \in ToSet(file) :
        \E new \in ToSet(file') : new.id = row.id /\ new.version >= row.version

Kept == RecordsKept /\ (Cardinality(Seeders) = 1 => NothingOlder)

(***************************************************************************)
(* Nothing that another process wrote is lost: a seeder that appends waits *)
(* for the transaction of a consolidation to end; and with one seeder what *)
(* consolidation learned about a record is not undone.                     *)
(***************************************************************************)
NothingOverwritten == [][Kept]_file

-----------------------------------------------------------------------------
\* Records with one id have one text.
Named(rows) == \A i, j \in DOMAIN rows : rows[i].id = rows[j].id => rows[i].key = rows[j].key

\* What the holder of the lock is about to write is of the file as it is.
Revision(record) ==
    \/ \E row \in ToSet(file) : record = [row EXCEPT !.version = @ + 1]
    \/ record \in Learned /\ record.id \notin Ids(file)

HeldInvariant ==
    \A c \in Consolidators :
        /\ process[c] \in {"upsert", "replace"} <=> holder = c
        /\ process[c] \in {"upsert", "replace"} => Revision(changed[c])
        /\ process[c] = "replace" => known[c] = WithRecord(file, changed[c])

\* The rules a seeder came past, or found when it began, are in the file; the
\* others are not there, or another seeder appended them.
InFile(i) == Rules[i].id \in Ids(file) \/ Rules[i].key \in Keys(file)

Accounted(s, i) ==
    /\ i < place[s] \/ Present(s, Rules[i]) => InFile(i)
    /\ i >= place[s] /\ ~Present(s, Rules[i]) =>
         \A row \in ToSet(file) : row.id = Rules[i].id =>
            row.key = Rules[i].key /\ Cardinality(Seeders) # 1

SeedInvariant == \A s \in Seeders : process[s] = "seed" => \A i \in DOMAIN Rules : Accounted(s, i)

FileInvariant ==
    /\ SeedTypeOK /\ Named(file) /\ HeldInvariant /\ SeedInvariant
    /\ Cardinality(Seeders) = 1 => Unique(file)
=============================================================================
