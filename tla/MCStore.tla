------------------------------ MODULE MCStore -------------------------------
(***************************************************************************)
(* An instance of MemoryUsage, what becomes of citations, with four plans  *)
(* of running cases, and one of SeedMemory, how seeders and consolidators  *)
(* share a file of the store, with two parties.  They share no state: one  *)
(* is at rest while the other is explored.                                 *)
(***************************************************************************)
EXTENDS MemoryUsage, SeedMemory

\* Two training cases; a test case, a frozen run of another that logs into its
\* snapshot, and a frozen run of a training case that logs nowhere.
MCCases == {"c1", "c2", "c3", "c4", "c5"}
MCArgs == {"a1"}
MCMemories == {"m1"}
MCSplit == [c \in MCCases |-> IF c \in {"c3", "c4"} THEN "test" ELSE "train"]
MCFrozen == {"c4", "c5"}
MCOverride == [c \in MCCases |-> IF c = "c4" THEN "inside" ELSE "none"]

Once(some) == [c \in MCCases |-> IF c \in some THEN 1 ELSE 0]

\* The training cases, with consolidations between them that may be killed, or
\* at any time; one of them run twice; and those that teach nothing.
MCPlans ==
    [between |-> [apart |-> TRUE, runs |-> Once({"c1", "c2"}), crashes |-> 1, failures |-> 1],
     beside |-> [apart |-> FALSE, runs |-> Once({"c1", "c2"}), crashes |-> 0, failures |-> 0],
     again |-> [apart |-> FALSE, runs |-> [Once({"c1"}) EXCEPT !["c1"] = 2], crashes |-> 1, failures |-> 1],
     evaluated |-> [apart |-> FALSE, runs |-> Once({"c3", "c4", "c5"}), crashes |-> 0, failures |-> 0]]

-----------------------------------------------------------------------------
\* A seeder beside two consolidators, and two seeders beside one.
MCParties ==
    [one |-> [seeders |-> {"s1"}, consolidators |-> {"k1", "k2"}, deaths |-> 2],
     two |-> [seeders |-> {"s1", "s2"}, consolidators |-> {"k1"}, deaths |-> 1]]

MCRules == <<[id |-> "when", key |-> "bound"], [id |-> "why", key |-> "intent"]>>

\* A lesson of its own, and one with the words of a rule.
MCLearned == {[id |-> "sem1", key |-> "lesson", version |-> 0],
              [id |-> "sem2", key |-> "intent", version |-> 0]}

MCFirstFiles == {<<>>, <<[id |-> "sem2", key |-> "intent", version |-> 1]>>}

VARIABLE explored

ASSUME UsageAssumption /\ SeedAssumption

-----------------------------------------------------------------------------
StoreInit ==
    /\ Init /\ SeedInit
    /\ \/ explored = "usage" /\ party = "one" /\ file = <<>>
       \/ explored = "seeding" /\ plan = "between"

UsageStep == explored = "usage" /\ Next /\ UNCHANGED <<explored, seedVars>>
SeedStep == explored = "seeding" /\ SeedNext /\ UNCHANGED <<explored, vars>>

\* A case that is running goes on, consolidation is run again and again, and a
\* process that is started runs on.
Trained == explored = "usage" /\ plan = "between" /\ UNCHANGED <<plan, explored, seedVars>>
Shared == explored = "seeding" /\ party = "two" /\ UNCHANGED <<explored, vars>>

storeVars == <<vars, seedVars, explored>>

StoreSpec ==
    /\ StoreInit /\ [][UsageStep \/ SeedStep]_storeVars
    /\ WF_storeVars(Trained /\ Consolidator)
    /\ \A c \in {"c1", "c2"} : WF_storeVars(Trained /\ pc[c] # "done" /\ Case(c))
    /\ \A s \in {"s1", "s2"} : WF_storeVars(Shared /\ SeederGoesOn(s))
    /\ WF_storeVars(Shared /\ ConsolidatorGoesOn("k1"))

-----------------------------------------------------------------------------
At(s, at) == explored = "seeding" /\ party = "two" /\ process[s] = at

\* What was logged of a training case is counted in the end, and no seeder waits
\* for ever for the lock of a consolidation (memory_store.py:200-219).
StoreGoesOn ==
    /\ explored = "usage" /\ plan = "between" => LoggedCounted
    /\ \A s \in {"s1", "s2"} : At(s, "seed") ~> At(s, "down")
=============================================================================
