-------------------------- MODULE SimilarityBackend --------------------------
(***************************************************************************)
(* What two lessons are to each other: decided from their fields and words *)
(* where that is sure, asked of an LLM where it is not, and remembered for *)
(* both orders of the pair as long as the process lives. The retriever,    *)
(* the verifier and the consolidator of a process share one backend.       *)
(* Source: src/memory/memory_similarity.py; its callers in                 *)
(* src/memory/memory_verifier.py, memory_consolidator.py and               *)
(* memory_retriever.py.                                                    *)
(*                                                                         *)
(* An item is what _identity hashes: a candidate and a record with the     *)
(* same fields are the same item. No code fills the compatible_... lists   *)
(* of the metadata, which are left out. Similarities are percentages.      *)
(***************************************************************************)
EXTENDS Integers, FiniteSets, FiniteSetsExt

CONSTANTS
    Items,
    Item,        \* [Items -> fields of the lesson], see ItemType
    Similar,     \* [Items \X Items -> 0 .. 100], lexical or of embeddings
    ActAlike,    \* pairs with similar triggers or recommended actions
    Duplicate, Contradiction,    \* similarity.duplicate_similarity, contradiction_similarity
    UseLlm,      \* similarity.use_llm_relation_check
    Shortlist,   \* similarity.lexical_shortlist_k
    FirstActive, \* items of the records in memory at the start
    None,
    MaxVerified, MaxRestarts     \* bounds

Relations == {"equivalent", "a_entails_b", "b_entails_a", "contradicts", "unrelated"}
\* task, subtask: None if they are missing; words: the content tokens.
ItemFields == {"type", "task", "subtask", "claim", "failure", "scope", "polarity", "words", "text"}

ASSUME SimilarityAssumption ==
    /\ \A a, b \in Items : Similar[a, b] \in Int /\ Similar[a, b] = Similar[b, a]
    /\ \A a, b \in Items : <<a, b>> \in ActAlike <=> <<b, a>> \in ActAlike
    /\ Contradiction \in Int /\ Duplicate \in Int
ASSUME BackendAssumption ==
    /\ \A a \in Items : DOMAIN Item[a] = ItemFields
    /\ IsFiniteSet(Items) /\ FirstActive \subseteq Items /\ None \notin Items /\ UseLlm \in BOOLEAN
    /\ Shortlist \in Nat /\ MaxVerified \in Nat /\ MaxRestarts \in Nat

VARIABLES
    cache,       \* _relation_cache: a function on pairs of items
    active,      \* the items of the active records
    candidate,   \* the candidate that is verified, None if there is none
    todo,        \* the records it is still to be compared with
    against,     \* the record it was found to contradict, None if there is none
    staged,      \* verified observations: [item, against]
    failed,      \* history: pairs whose answer stands for a failure of the LLM
    verified, restarts

vars == <<cache, active, candidate, todo, against, staged, failed, verified, restarts>>

-----------------------------------------------------------------------------
\* The relation of two items.

Given(a, b, field) == Item[a][field] # None /\ Item[b][field] # None
Equal(a, b, field) == Item[a][field] = Item[b][field]

Compatible(a, b) ==
    /\ Equal(a, b, "type") /\ Equal(a, b, "claim") /\ Equal(a, b, "failure") /\ Equal(a, b, "scope")
    /\ Given(a, b, "task") => Equal(a, b, "task")
    /\ Given(a, b, "subtask") => Equal(a, b, "subtask")

\* canonical_key holds the type, the claim type, the task type and the text.
SameKey(a, b) ==
    Equal(a, b, "type") /\ Equal(a, b, "claim") /\ Equal(a, b, "task") /\ Equal(a, b, "text")

StructuredMatch(a, b) ==
    /\ Equal(a, b, "task") /\ Equal(a, b, "claim") /\ Equal(a, b, "failure") /\ Equal(a, b, "scope")
    /\ <<a, b>> \in ActAlike

Contradicting(a, b) ==
    /\ ~Equal(a, b, "polarity")
    /\ \/ Similar[a, b] >= Contradiction
       \/ StructuredMatch(a, b) /\ 10 * Similar[a, b] >= 6 * Contradiction

\* All the words of b and more.
SaysMore(a, b) ==
    /\ Item[b].words # {} /\ Item[b].words \subseteq Item[a].words /\ Item[b].words # Item[a].words
    /\ Equal(a, b, "polarity") /\ 10 * Similar[a, b] >= 6 * Contradiction

\* Mutant: the sides of an entailment are not told apart.
DeterministicOneWay(a, b) ==
    IF ~Compatible(a, b) THEN "unrelated"
    ELSE IF SameKey(a, b) THEN "equivalent"
    ELSE IF Similar[a, b] >= Duplicate /\ Equal(a, b, "polarity") THEN "equivalent"
    ELSE IF Contradicting(a, b) THEN "contradicts"
    ELSE IF SaysMore(a, b) \/ SaysMore(b, a) THEN "a_entails_b"
    ELSE IF Similar[a, b] >= Contradiction /\ UseLlm THEN "ask"
    ELSE "unrelated"

\* _deterministic; "ask" is the None of the code.
Deterministic(a, b) ==
    IF ~Compatible(a, b) THEN "unrelated"
    ELSE IF SameKey(a, b) THEN "equivalent"
    ELSE IF Similar[a, b] >= Duplicate /\ Equal(a, b, "polarity") THEN "equivalent"
    ELSE IF Contradicting(a, b) THEN "contradicts"
    ELSE IF SaysMore(a, b) THEN "a_entails_b"
    ELSE IF SaysMore(b, a) THEN "b_entails_a"
    ELSE IF Similar[a, b] >= Contradiction /\ UseLlm THEN "ask"
    ELSE "unrelated"

Reverse(relation) ==
    CASE relation = "a_entails_b" -> "b_entails_a"
      [] relation = "b_entails_a" -> "a_entails_b"
      [] OTHER -> relation

Swap(pair) == <<pair[2], pair[1]>>

\* _cache, for every pair that was answered.
Remembered(answers) ==
    [p \in DOMAIN cache \cup DOMAIN answers \cup {Swap(q) : q \in DOMAIN answers} |->
        IF p \in DOMAIN answers THEN answers[p]
        ELSE IF Swap(p) \in DOMAIN answers THEN Reverse(answers[Swap(p)])
        ELSE cache[p]]

Uncached(S, a) == {<<a, b>> : b \in S} \ DOMAIN cache
Asked(pairs) == {p \in pairs : Deterministic(p[1], p[2]) = "ask"}

\* relations_batch(a with each of S), and relation for a single one: what the
\* cache does not hold is decided or asked, in one call, which may fail.
Ask(a, S) ==
    LET new == Uncached(S, a)
    IN  \E said \in [Asked(new) -> Relations], ok \in BOOLEAN :
            /\ ~ok => Asked(new) # {} /\ \A p \in Asked(new) : said[p] = "unrelated"
            /\ cache' = Remembered([p \in new |-> IF p \in Asked(new) THEN said[p]
                                                 ELSE Deterministic(p[1], p[2])])
            /\ failed' = IF ok THEN failed ELSE failed \cup Asked(new) \cup {Swap(p) : p \in Asked(new)}

-----------------------------------------------------------------------------
Init ==
    /\ cache = <<>> /\ active = FirstActive
    /\ candidate = None /\ todo = {} /\ against = None
    /\ staged = {} /\ failed = {} /\ verified = 0 /\ restarts = 0

\* Mutant: the least similar records are taken.
ShortlistedLeast(a, S) ==
    {T \in SUBSET S :
        /\ Cardinality(T) = Min({Shortlist, Cardinality(S)})
        /\ \A b \in T, c \in S \ T : Similar[a, b] <= Similar[a, c]}

\* shortlist: the most similar records; what ties may come in either order.
Shortlisted(a, S) ==
    {T \in SUBSET S :
        /\ Cardinality(T) = Min({Shortlist, Cardinality(S)})
        /\ \A b \in T, c \in S \ T : Similar[a, b] >= Similar[a, c]}

\* Stage 4 of the verification begins: _find_contradiction.
BeginVerification(c) ==
    /\ candidate = None /\ verified < MaxVerified
    /\ candidate' = c /\ verified' = verified + 1
    /\ \E T \in Shortlisted(c, active) : todo' = T
    /\ UNCHANGED <<cache, active, against, staged, failed, restarts>>

\* The next record, most similar first; the first contradiction is the last question.
CompareWithRecord(m) ==
    /\ candidate # None /\ against = None /\ m \in todo
    /\ \A b \in todo : Similar[candidate, m] >= Similar[candidate, b]
    /\ Ask(candidate, {m})
    /\ IF cache'[<<candidate, m>>] = "contradicts"
       THEN against' = m /\ todo' = {}
       ELSE against' = against /\ todo' = todo \ {m}
    /\ UNCHANGED <<active, candidate, staged, verified, restarts>>

\* Mutant: the candidate is judged and staged without what it was found to contradict.
JudgeUntyped ==
    /\ candidate # None /\ todo = {}
    /\ \E accepted \in BOOLEAN :
          staged' = IF accepted THEN staged \cup {[item |-> candidate, against |-> None]} ELSE staged
    /\ candidate' = None /\ against' = None
    /\ UNCHANGED <<cache, active, todo, failed, verified, restarts>>

\* _llm_verify: only "verified" is staged to be consolidated; a rejection, an
\* unclear answer and a failure of this call are not.
Judge ==
    /\ candidate # None /\ todo = {}
    /\ \E accepted \in BOOLEAN :
          staged' = IF accepted THEN staged \cup {[item |-> candidate, against |-> against]} ELSE staged
    /\ candidate' = None /\ against' = None
    /\ UNCHANGED <<cache, active, todo, failed, verified, restarts>>

\* _best_ltm_relation and what follows from it: support and conflict change
\* records that are there, a conflict may retire one; what is related to none
\* may be promoted.
SameType(s) == {m \in active : Equal(s.item, m, "type")}

Typed(s) ==
    /\ candidate = None /\ s.against \in active
    /\ active' \in {active, active \ {s.against}}
    /\ staged' = staged \ {s}
    /\ UNCHANGED <<cache, candidate, todo, against, failed, verified, restarts>>

Compared(s) ==
    /\ candidate = None /\ s.against \notin active
    /\ \E T \in Shortlisted(s.item, SameType(s)) :
          /\ Ask(s.item, T)
          /\ LET of(relation) == {m \in T : cache'[<<s.item, m>>] = relation}
             IN  active' \in IF of("equivalent") # {} THEN {active}
                             ELSE IF of("contradicts") # {}
                             THEN {active} \cup {active \ {m} : m \in of("contradicts")}
                             ELSE IF of("a_entails_b") \cup of("b_entails_a") # {} THEN {active}
                             ELSE {active, active \cup {s.item}}
    /\ staged' = staged \ {s}
    /\ UNCHANGED <<candidate, todo, against, verified, restarts>>

\* _cluster asks of staged rows with one signature, the retriever of active records.
Cluster(s, t) ==
    /\ candidate = None /\ s # t
    /\ \A field \in {"type", "claim", "task", "failure", "polarity", "scope"} : Equal(s.item, t.item, field)
    /\ Ask(s.item, {t.item})
    /\ UNCHANGED <<active, candidate, todo, against, staged, verified, restarts>>

Retrieve(a, b) ==
    /\ candidate = None /\ a # b
    /\ Ask(a, {b})
    /\ UNCHANGED <<active, candidate, todo, against, staged, verified, restarts>>

\* Another process: an empty cache.
Restart ==
    /\ restarts < MaxRestarts
    /\ restarts' = restarts + 1
    /\ cache' = <<>> /\ failed' = {}
    /\ candidate' = None /\ todo' = {} /\ against' = None
    /\ UNCHANGED <<active, staged, verified>>

Next ==
    \/ \E c \in Items : BeginVerification(c)
    \/ \E m \in todo : CompareWithRecord(m)
    \/ Judge
    \/ \E s \in staged : Typed(s) \/ Compared(s)
    \/ \E s, t \in staged : Cluster(s, t)
    \/ \E a, b \in active : Retrieve(a, b)
    \/ Restart

Spec == Init /\ [][Next]_vars

-----------------------------------------------------------------------------
\* The cache answers a pair in both orders, and the answers fit: what entails in
\* one order is entailed in the other, whoever asked first and in which order
\* (memory_similarity.py:150-162).
CacheIsMutual ==
    /\ DOMAIN cache \subseteq Items \X Items
    /\ \A p \in DOMAIN cache : /\ cache[p] \in Relations
                               /\ Swap(p) \in DOMAIN cache
                               /\ cache[Swap(p)] = Reverse(cache[p])

\* What the fields and words decide is never overruled: not by an answer of the
\* LLM in the same batch, nor by what was remembered for the other order.
DecidedStays ==
    \A p \in DOMAIN cache : Deterministic(p[1], p[2]) \in {"ask", cache[p]}

\* As long as the process lives a pair has one answer: retriever, verifier and
\* consolidator never disagree about it.
AnswersStand ==
    [][restarts' = restarts => \A p \in DOMAIN cache : p \in DOMAIN cache' /\ cache'[p] = cache[p]]_vars

Accepted == staged' \ staged

\* So many other active records are as similar that m finds no room on the shortlist.
Crowded(a, m) ==
    Cardinality({b \in active \ {m} : Similar[a, b] >= Similar[a, m]}) >= Shortlist

\* A candidate accepted as no contradiction contradicts, as far as fields and words
\* decide it, no active record but one that others as similar to the candidate,
\* of whatever type, keep from the shortlist.  The docstring promises more: a
\* grounded contradiction "is always typed evidence against its related memory"
\* (memory_verifier.py:33-35); only the shortlist is looked at (:197-203).
ContradictionTyped ==
    [][\A s \in Accepted : s.against = None =>
          \A m \in active : Deterministic(s.item, m) = "contradicts" => Crowded(s.item, m)]_vars
=============================================================================
