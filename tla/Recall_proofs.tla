---------------------------- MODULE Recall_proofs ----------------------------
(***************************************************************************)
(* Proofs about SimilarityBackend and MemoryRetrieval: the backend gives   *)
(* consistent answers whatever lessons there are and whatever the LLM says *)
(* of them, and a case is given what is best of any rows, none twice.      *)
(***************************************************************************)
EXTENDS SimilarityBackend, MemoryRetrieval, FiniteSetTheorems, WellFoundedInduction, TLAPS

-----------------------------------------------------------------------------
(* The similarity backend.                                                  *)

Answer == Relations \cup {"ask"}

\* What the items are and what the cache holds: pairs of items in both orders,
\* with answers that fit and that no sure answer contradicts.
CacheInvariant ==
    /\ restarts \in Nat /\ active \subseteq Items
    /\ candidate \in Items \cup {None} /\ todo \subseteq Items
    /\ \A s \in staged : s.item \in Items
    /\ cache = [p \in DOMAIN cache |-> cache[p]]
    /\ CacheIsMutual
    /\ DecidedStays

-----------------------------------------------------------------------------
\* The rules that decide a relation.

LEMMA DeterministicType ==
    ASSUME NEW a \in Items, NEW b \in Items
    PROVE  Deterministic(a, b) \in Answer
  BY DEF Deterministic, Answer, Relations

LEMMA ReverseType == \A r \in Relations : Reverse(r) \in Relations /\ Reverse(Reverse(r)) = r
  BY DEF Reverse, Relations

\* None of the conditions depends on the order of the items but entailment.
LEMMA ConditionsSymmetric ==
    ASSUME NEW a \in Items, NEW b \in Items
    PROVE  /\ Compatible(a, b) <=> Compatible(b, a)
           /\ SameKey(a, b) <=> SameKey(b, a)
           /\ Equal(a, b, "polarity") <=> Equal(b, a, "polarity")
           /\ Contradicting(a, b) <=> Contradicting(b, a)
           /\ Similar[a, b] = Similar[b, a]
<1>1. Similar[a, b] = Similar[b, a] /\ (<<a, b>> \in ActAlike <=> <<b, a>> \in ActAlike)
  BY SimilarityAssumption DEF SimilarityAssumption
<1>2. StructuredMatch(a, b) <=> StructuredMatch(b, a)
  BY <1>1 DEF StructuredMatch, Equal
<1>3. Contradicting(a, b) <=> Contradicting(b, a)
  BY <1>1, <1>2 DEF Contradicting, Equal
<1>4. Compatible(a, b) <=> Compatible(b, a)
  BY DEF Compatible, Equal, Given
<1>. QED  BY <1>1, <1>3, <1>4 DEF SameKey, Equal

\* Two items cannot each say more than the other.
LEMMA SaysMoreOneWay ==
    ASSUME NEW a \in Items, NEW b \in Items, SaysMore(a, b)
    PROVE  ~SaysMore(b, a)
  BY DEF SaysMore

\* The other order of a pair gets the reverse of its relation.
LEMMA DeterministicReverse ==
    ASSUME NEW a \in Items, NEW b \in Items
    PROVE  Deterministic(b, a) = Reverse(Deterministic(a, b))
<1>. DEFINE Near == Similar[a, b] >= Duplicate /\ Equal(a, b, "polarity")
            Ambiguous == Similar[a, b] >= Contradiction /\ UseLlm
<1>1. Deterministic(a, b) =
        IF ~Compatible(a, b) THEN "unrelated" ELSE IF SameKey(a, b) THEN "equivalent"
        ELSE IF Near THEN "equivalent" ELSE IF Contradicting(a, b) THEN "contradicts"
        ELSE IF SaysMore(a, b) THEN "a_entails_b" ELSE IF SaysMore(b, a) THEN "b_entails_a"
        ELSE IF Ambiguous THEN "ask" ELSE "unrelated"
  BY DEF Deterministic
<1>2. Deterministic(b, a) =
        IF ~Compatible(a, b) THEN "unrelated" ELSE IF SameKey(a, b) THEN "equivalent"
        ELSE IF Near THEN "equivalent" ELSE IF Contradicting(a, b) THEN "contradicts"
        ELSE IF SaysMore(b, a) THEN "a_entails_b" ELSE IF SaysMore(a, b) THEN "b_entails_a"
        ELSE IF Ambiguous THEN "ask" ELSE "unrelated"
  BY ConditionsSymmetric DEF Deterministic
<1>3. ~(SaysMore(a, b) /\ SaysMore(b, a))
  BY SaysMoreOneWay
<1>. HIDE DEF Near, Ambiguous
<1>. QED  BY <1>1, <1>2, <1>3 DEF Reverse

LEMMA SelfIsDecided == \A a \in Items : Deterministic(a, a) = "equivalent"
  BY DEF Deterministic, Compatible, SameKey, Equal, Given

-----------------------------------------------------------------------------
\* What a call adds to the cache.

\* A call about one item keeps the cache consistent, whatever the LLM says, and
\* changes no answer that is there.
LEMMA AskKeeps ==
    ASSUME CacheInvariant, NEW a \in Items, NEW S \in SUBSET Items, Ask(a, S)
    PROVE  /\ cache' = [p \in DOMAIN cache' |-> cache'[p]]
           /\ CacheIsMutual' /\ DecidedStays'
           /\ \A p \in DOMAIN cache : p \in DOMAIN cache' /\ cache'[p] = cache[p]
<1>. DEFINE new == Uncached(S, a)
<1>1. PICK said \in [Asked(new) -> Relations] :
        cache' = Remembered([p \in new |-> IF p \in Asked(new) THEN said[p] ELSE Deterministic(p[1], p[2])])
  BY DEF Ask
<1>. DEFINE answers == [p \in new |-> IF p \in Asked(new) THEN said[p] ELSE Deterministic(p[1], p[2])]
            swapped == {Swap(q) : q \in new}
<1>2. /\ cache' = [p \in DOMAIN cache \cup new \cup swapped |->
                     IF p \in new THEN answers[p]
                     ELSE IF Swap(p) \in new THEN Reverse(answers[Swap(p)])
                     ELSE cache[p]]
      /\ DOMAIN cache' = DOMAIN cache \cup new \cup swapped
  BY <1>1 DEF Remembered
<1>3. \A p \in new : /\ p \in Items \X Items /\ p = <<a, p[2]>> /\ p[2] \in Items
                     /\ p \notin DOMAIN cache
  BY DEF Uncached
<1>4. \A p \in new : answers[p] \in Relations /\ Deterministic(p[1], p[2]) \in {"ask", answers[p]}
  BY <1>3, DeterministicType DEF Asked, Answer
<1>5. \A p \in Items \X Items : Swap(p) \in Items \X Items /\ Swap(Swap(p)) = p
  BY DEF Swap
<1>6. \A p \in swapped : p \in Items \X Items /\ Swap(p) \in new
  BY <1>3, <1>5
<1>7. DOMAIN cache \subseteq Items \X Items
  BY DEF CacheInvariant, CacheIsMutual
<1>8. \A p \in DOMAIN cache : p \notin new /\ Swap(p) \notin new
  BY <1>3 DEF CacheInvariant, CacheIsMutual
<1>9. \A p \in new : Swap(p) \in new => p = <<a, a>> /\ Swap(p) = p /\ answers[p] = "equivalent"
  <2>. SUFFICES ASSUME NEW p \in new, Swap(p) \in new
                PROVE  p = <<a, a>> /\ Swap(p) = p /\ answers[p] = "equivalent"
    OBVIOUS
  <2>1. p = <<a, a>>
    BY <1>3 DEF Swap
  <2>2. Deterministic(p[1], p[2]) = "equivalent"
    BY <2>1, SelfIsDecided
  <2>. QED  BY <2>1, <2>2, <1>4 DEF Swap
<1>10. \A p \in new : cache'[p] = answers[p]
  BY <1>2
<1>11. \A p \in new : Swap(p) \in DOMAIN cache' /\ cache'[Swap(p)] = Reverse(answers[p])
  <2>. SUFFICES ASSUME NEW p \in new
                PROVE  Swap(p) \in DOMAIN cache' /\ cache'[Swap(p)] = Reverse(answers[p])
    OBVIOUS
  <2>1. Swap(p) \in swapped /\ Swap(Swap(p)) = p
    BY <1>3, <1>5
  <2>2. CASE Swap(p) \in new
    BY <2>1, <2>2, <1>2, <1>9 DEF Reverse
  <2>3. CASE Swap(p) \notin new
    BY <2>1, <2>3, <1>2
  <2>. QED  BY <2>2, <2>3
<1>12. \A p \in DOMAIN cache : p \in DOMAIN cache' /\ cache'[p] = cache[p]
  BY <1>2, <1>8
<1>13. CacheIsMutual'
  <2>1. DOMAIN cache' \subseteq Items \X Items
    BY <1>2, <1>3, <1>6, <1>7
  <2>2. ASSUME NEW p \in DOMAIN cache'
        PROVE  cache'[p] \in Relations /\ Swap(p) \in DOMAIN cache' /\ cache'[Swap(p)] = Reverse(cache'[p])
    <3>1. CASE p \in new
      BY <3>1, <1>4, <1>10, <1>11
    <3>2. CASE p \in swapped
      <4>1. Swap(p) \in new /\ Swap(Swap(p)) = p
        BY <3>2, <1>5, <1>6
      <4>2. cache'[p] = Reverse(answers[Swap(p)]) /\ cache'[Swap(p)] = answers[Swap(p)]
        BY <4>1, <1>10, <1>11
      <4>3. Swap(p) \in DOMAIN cache'
        BY <4>1, <1>2
      <4>. QED  BY <4>1, <4>2, <4>3, <1>4, ReverseType
    <3>3. CASE p \in DOMAIN cache
      BY <3>3, <1>12 DEF CacheInvariant, CacheIsMutual
    <3>. QED  BY <3>1, <3>2, <3>3, <1>2
  <2>. QED  BY <2>1, <2>2 DEF CacheIsMutual
<1>14. DecidedStays'
  <2>. SUFFICES ASSUME NEW p \in DOMAIN cache'
                PROVE  Deterministic(p[1], p[2]) \in {"ask", cache'[p]}
    BY DEF DecidedStays
  <2>1. CASE p \in new
    BY <2>1, <1>4, <1>10
  <2>2. CASE p \in swapped
    <3>1. Swap(p) \in new /\ Swap(Swap(p)) = p /\ p \in Items \X Items
      BY <2>2, <1>5, <1>6
    <3>2. p[1] \in Items /\ p[2] \in Items /\ Swap(p) = <<p[2], p[1]>>
      BY <3>1 DEF Swap
    <3>3. Deterministic(p[2], p[1]) \in {"ask", answers[Swap(p)]}
      BY <3>1, <3>2, <1>4
    <3>4. Deterministic(p[1], p[2]) = Reverse(Deterministic(p[2], p[1]))
      BY <3>2, DeterministicReverse
    <3>5. cache'[p] = Reverse(answers[Swap(p)])
      BY <3>1, <1>11
    <3>6. Reverse("ask") = "ask"
      BY DEF Reverse
    <3>. QED  BY <3>3, <3>4, <3>5, <3>6
  <2>3. CASE p \in DOMAIN cache
    BY <2>3, <1>12 DEF CacheInvariant, DecidedStays
  <2>. QED  BY <2>1, <2>2, <2>3, <1>2
<1>15. cache' = [p \in DOMAIN cache' |-> cache'[p]]
  BY <1>2
<1>. QED  BY <1>12, <1>13, <1>14, <1>15

-----------------------------------------------------------------------------
\* Every step.

LEMMA ShortlistedSubset == \A a, S, T : T \in Shortlisted(a, S) => T \subseteq S
  BY DEF Shortlisted

\* A step that leaves the cache alone and knows only items.
LEMMA QuietStep ==
    ASSUME CacheInvariant, cache' = cache, restarts' = restarts, active' \subseteq Items,
           candidate' \in Items \cup {None}, todo' \subseteq Items, \A s \in staged' : s.item \in Items
    PROVE  /\ CacheInvariant'
           /\ \A p \in DOMAIN cache : p \in DOMAIN cache' /\ cache'[p] = cache[p]
  BY DEF CacheInvariant, CacheIsMutual, DecidedStays

LEMMA StepKeeps ==
    ASSUME CacheInvariant, [Next]_vars
    PROVE  /\ CacheInvariant'
           /\ restarts' = restarts => \A p \in DOMAIN cache : p \in DOMAIN cache' /\ cache'[p] = cache[p]
<1>. DEFINE Kept == \A p \in DOMAIN cache : p \in DOMAIN cache' /\ cache'[p] = cache[p]
<1>. USE DEF CacheInvariant
<1>1. ASSUME NEW c \in Items, BeginVerification(c)  PROVE CacheInvariant' /\ Kept
  BY <1>1, QuietStep, ShortlistedSubset DEF BeginVerification
<1>2. ASSUME NEW m \in todo, CompareWithRecord(m)  PROVE CacheInvariant' /\ Kept
  <2>1. candidate \in Items /\ {m} \in SUBSET Items /\ Ask(candidate, {m})
    BY <1>2 DEF CompareWithRecord
  <2>2. /\ active' = active /\ candidate' = candidate /\ staged' = staged /\ todo' \subseteq todo
        /\ restarts' = restarts
    BY <1>2 DEF CompareWithRecord
  <2>. QED  BY <2>1, <2>2, AskKeeps
<1>3. CASE Judge
  <2>1. \A s \in staged' : s.item \in Items
    BY <1>3 DEF Judge
  <2>. QED  BY <1>3, <2>1, QuietStep DEF Judge
<1>4. ASSUME NEW s \in staged, Typed(s)  PROVE CacheInvariant' /\ Kept
  BY <1>4, QuietStep DEF Typed
<1>5. ASSUME NEW s \in staged, Compared(s)  PROVE CacheInvariant' /\ Kept
  <2>1. PICK T \in Shortlisted(s.item, SameType(s)) : Ask(s.item, T)
    BY <1>5 DEF Compared
  <2>2. T \in SUBSET Items /\ s.item \in Items
    BY <2>1, ShortlistedSubset DEF SameType
  <2>3. active' \subseteq active \cup {s.item} /\ staged' \subseteq staged
    BY <1>5 DEF Compared
  <2>4. candidate' = candidate /\ todo' = todo /\ restarts' = restarts
    BY <1>5 DEF Compared
  <2>5. cache' = [p \in DOMAIN cache' |-> cache'[p]] /\ CacheIsMutual' /\ DecidedStays' /\ Kept
    BY <2>1, <2>2, AskKeeps
  <2>6. active' \subseteq Items /\ \A t \in staged' : t.item \in Items
    BY <2>2, <2>3
  <2>. QED  BY <2>4, <2>5, <2>6
<1>6. ASSUME NEW s \in staged, NEW t \in staged, Cluster(s, t)  PROVE CacheInvariant' /\ Kept
  BY <1>6, AskKeeps DEF Cluster
<1>7. ASSUME NEW a \in active, NEW b \in active, Retrieve(a, b)  PROVE CacheInvariant' /\ Kept
  BY <1>7, AskKeeps DEF Retrieve
<1>8. CASE Restart
  <2>1. restarts' # restarts
    BY <1>8 DEF Restart
  <2>. QED  BY <1>8, <2>1 DEF Restart, CacheIsMutual, DecidedStays
<1>9. CASE UNCHANGED vars
  BY <1>9, QuietStep DEF vars
<1>. QED  BY <1>1, <1>2, <1>3, <1>4, <1>5, <1>6, <1>7, <1>8, <1>9 DEF Next

THEOREM CacheInvariantHolds == Spec => []CacheInvariant
<1>1. Init => CacheInvariant
  BY BackendAssumption DEF Init, CacheInvariant, CacheIsMutual, DecidedStays, BackendAssumption
<1>. QED  BY <1>1, StepKeeps, PTL DEF Spec

\* The cache answers in both orders (memory_similarity.py:149-159).
THEOREM CacheMutual == Spec => []CacheIsMutual
  BY CacheInvariantHolds, PTL DEF CacheInvariant

\* What fields and words decide is never overruled (memory_similarity.py:193-222).
THEOREM DecidedIsKept == Spec => []DecidedStays
  BY CacheInvariantHolds, PTL DEF CacheInvariant

\* A pair has one answer as long as the process lives.
THEOREM OneAnswer == Spec => AnswersStand
<1>1. CacheInvariant /\ [Next]_vars =>
        [restarts' = restarts => \A p \in DOMAIN cache : p \in DOMAIN cache' /\ cache'[p] = cache[p]]_vars
  BY StepKeeps
<1>. QED  BY <1>1, CacheInvariantHolds, PTL DEF Spec, AnswersStand

-----------------------------------------------------------------------------
\* Contradictions are typed, unless the shortlist has no room for the record.

\* The records that the candidate is not compared with, or has been, contradict it
\* only where they are crowded out.
CheckInvariant ==
    /\ against \in Items \cup {None}
    /\ candidate # None /\ against = None =>
          \A m \in active \ todo : Deterministic(candidate, m) = "contradicts" => Crowded(candidate, m)

LEMMA LessOfTwo ==
    ASSUME NEW a \in Int, NEW b \in Int
    PROVE  Min({a, b}) = IF a <= b THEN a ELSE b
  BY DEF Min

\* What is not on the shortlist is crowded out by what is.
LEMMA NoRoom ==
    ASSUME NEW a, active \in SUBSET Items,
           NEW T \in Shortlisted(a, active), NEW m \in active \ T
    PROVE  Crowded(a, m)
<1>. DEFINE others == {b \in active \ {m} : Similar[a, b] >= Similar[a, m]}
<1>1. IsFiniteSet(active) /\ IsFiniteSet(others) /\ IsFiniteSet(T)
  <2>1. IsFiniteSet(Items) /\ others \in SUBSET Items /\ T \in SUBSET Items
    BY BackendAssumption DEF BackendAssumption, Shortlisted
  <2>. QED  BY <2>1, FS_Subset
<1>2. T \in SUBSET active /\ T \in SUBSET others
  BY DEF Shortlisted
<1>3. /\ Cardinality(T) \in Nat /\ Cardinality(others) \in Nat /\ Cardinality(active) \in Nat
      /\ Cardinality(T) <= Cardinality(others) /\ Shortlist \in Nat
  BY <1>1, <1>2, FS_Subset, FS_CardinalityType, BackendAssumption DEF BackendAssumption
<1>4. Cardinality(T) # Cardinality(active)
  <2>. SUFFICES ASSUME Cardinality(T) = Cardinality(active) PROVE FALSE
    OBVIOUS
  <2>1. T = active
    BY <1>1, <1>2, FS_Subset
  <2>. QED  BY <2>1
<1>5. Cardinality(T) = Shortlist
  <2>1. Cardinality(T) = Min({Shortlist, Cardinality(active)})
    BY DEF Shortlisted
  <2>. DEFINE size == Cardinality(active)
  <2>2. Min({Shortlist, size}) \in {Shortlist, size}
    <3>1. size \in Nat /\ Shortlist \in Nat
      BY <1>3
    <3>. HIDE DEF size
    <3>2. Min({Shortlist, size}) = IF Shortlist <= size THEN Shortlist ELSE size
      <4>1. size \in Int /\ Shortlist \in Int
        BY <3>1
      <4>. QED  BY <4>1, LessOfTwo
    <3>. QED  BY <3>2
  <2>. QED  BY <1>4, <2>1, <2>2
<1>6. Cardinality(others) >= Shortlist
  BY <1>3, <1>5
<1>. QED  BY <1>6 DEF Crowded

\* A comparison leaves the answer in the cache.
LEMMA AskAnswers ==
    ASSUME NEW a, NEW b, Ask(a, {b})
    PROVE  <<a, b>> \in DOMAIN cache'
<1>1. DOMAIN cache \cup Uncached({b}, a) \subseteq DOMAIN cache'
  BY DEF Ask, Remembered
<1>. QED  BY <1>1 DEF Uncached

LEMMA CheckStep ==
    ASSUME CacheInvariant, CacheInvariant', CheckInvariant, [Next]_vars
    PROVE  CheckInvariant'
<1>. USE DEF CheckInvariant
<1>1. ASSUME NEW c \in Items, BeginVerification(c)  PROVE CheckInvariant'
  <2>1. PICK T \in Shortlisted(c, active) : todo' = T
    BY <1>1 DEF BeginVerification
  <2>2. active \in SUBSET Items
    BY DEF CacheInvariant
  <2>3. \A m \in active \ T : Crowded(c, m)
    BY <2>1, <2>2, NoRoom
  <2>4. active' = active /\ candidate' = c /\ against' = against
    BY <1>1 DEF BeginVerification
  <2>5. \A m : Crowded(candidate, m)' <=> Crowded(c, m)
    BY <2>4 DEF Crowded
  <2>6. (\A m \in active \ todo : Crowded(candidate, m))'
    BY <2>1, <2>3, <2>4, <2>5
  <2>. QED  BY <2>4, <2>6
<1>2. ASSUME NEW m \in todo, CompareWithRecord(m)  PROVE CheckInvariant'
  <2>1. /\ Ask(candidate, {m}) /\ active' = active /\ candidate' = candidate
        /\ candidate # None /\ against = None
    BY <1>2 DEF CompareWithRecord
  <2>2. CASE cache'[<<candidate, m>>] = "contradicts"
    <3>1. against' = m /\ m \in Items /\ m # None
      BY <1>2, <2>2, BackendAssumption DEF CompareWithRecord, CacheInvariant, BackendAssumption
    <3>. QED  BY <3>1
  <2>3. CASE cache'[<<candidate, m>>] # "contradicts"
    <3>1. todo' = todo \ {m} /\ against' = against
      BY <1>2, <2>3 DEF CompareWithRecord
    <3>2. <<candidate, m>> \in DOMAIN cache'
      BY <2>1, AskAnswers
    <3>3. Deterministic(candidate, m) \in {"ask", cache'[<<candidate, m>>]}
      BY <3>2 DEF CacheInvariant, DecidedStays
    <3>4. \A n : Crowded(candidate, n)' <=> Crowded(candidate, n)
      BY <2>1 DEF Crowded
    <3>. QED  BY <2>1, <2>3, <3>1, <3>3, <3>4
  <2>. QED  BY <2>2, <2>3
<1>3. CASE Judge
  BY <1>3 DEF Judge
<1>4. ASSUME NEW s \in staged, Typed(s)  PROVE CheckInvariant'
  BY <1>4 DEF Typed
<1>5. ASSUME NEW s \in staged, Compared(s)  PROVE CheckInvariant'
  BY <1>5 DEF Compared
<1>6. ASSUME NEW s \in staged, NEW t \in staged, Cluster(s, t)  PROVE CheckInvariant'
  BY <1>6 DEF Cluster
<1>7. ASSUME NEW a \in active, NEW b \in active, Retrieve(a, b)  PROVE CheckInvariant'
  BY <1>7 DEF Retrieve
<1>8. CASE Restart
  BY <1>8 DEF Restart
<1>9. CASE UNCHANGED vars
  BY <1>9 DEF vars, Crowded
<1>. QED  BY <1>1, <1>2, <1>3, <1>4, <1>5, <1>6, <1>7, <1>8, <1>9 DEF Next

\* A candidate accepted as no contradiction contradicts no active record that the
\* shortlist has room for, whatever the LLM says (memory_verifier.py:193-213).
THEOREM ContradictionIsTyped == Spec => ContradictionTyped
<1>1. Init => CheckInvariant
  BY DEF Init, CheckInvariant
<1>2. CacheInvariant /\ CacheInvariant' /\ CheckInvariant /\ [Next]_vars => CheckInvariant'
  BY CheckStep
<1>3. CheckInvariant /\ [Next]_vars =>
        [\A s \in Accepted : s.against = None =>
            \A m \in active : Deterministic(s.item, m) = "contradicts" => Crowded(s.item, m)]_vars
  <2>. SUFFICES ASSUME CheckInvariant, Next, NEW s \in Accepted, s.against = None, NEW m \in active,
                       Deterministic(s.item, m) = "contradicts"
                PROVE  Crowded(s.item, m)
    BY DEF Accepted, vars
  <2>1. Judge
    BY DEF Next, Accepted, BeginVerification, CompareWithRecord, Typed, Compared, Cluster, Retrieve, Restart
  <2>2. s = [item |-> candidate, against |-> against] /\ todo = {} /\ candidate # None
    BY <2>1 DEF Judge, Accepted
  <2>. QED  BY <2>2 DEF CheckInvariant
<1>. QED  BY <1>1, <1>2, <1>3, CacheInvariantHolds, PTL DEF Spec, ContradictionTyped

-----------------------------------------------------------------------------
(* What a case is given.                                                    *)

UseCounts == [good : Nat, bad : Nat, contested : Nat]
UseMaps == [Ids -> UseCounts]

\* What a pass over the rows may keep of them.
Solves(c, rows, S, use) == S \in SUBSET rows /\ \A m \in rows : m \in S <=> Keeps(c, S, m, use)

LEMMA CompatibilityType ==
    ASSUME NEW c \in Cases, NEW m \in Ids
    PROVE  \A long \in BOOLEAN : Compatibility[c][m][long] \in Nat
<1> DEFINE Agreed(long, q, r) ==
                 r.claim = q.claim \/ (long /\ r.claim \in {Unset, "general"} /\ q.claim \in r.claims)
           Part(points, agreed) == IF agreed THEN points ELSE 0
<1>1. \A points \in Nat, agreed \in BOOLEAN : Part(points, agreed) \in Nat
  OBVIOUS
<1>2. ASSUME NEW long \in BOOLEAN
      PROVE  Compatibility[c][m][long] =
           Part(50, Agreed(long, Query[c], Row[m])) + Part(25, Agree(Row[m].task, Query[c].task))
             + Part(15, ~long \/ Agree(Row[m].subtask, Query[c].subtask))
             + Part(10, ~long \/ Agree(Row[m].scope, Query[c].scope) \/ Query[c].scope \in Row[m].scopes)
  BY DEF Compatibility
<1>3. ASSUME NEW long \in BOOLEAN
      PROVE  /\ Part(50, Agreed(long, Query[c], Row[m])) \in Nat /\ Part(25, Agree(Row[m].task, Query[c].task)) \in Nat
             /\ Part(15, ~long \/ Agree(Row[m].subtask, Query[c].subtask)) \in Nat
             /\ Part(10, ~long \/ Agree(Row[m].scope, Query[c].scope) \/ Query[c].scope \in Row[m].scopes) \in Nat
  OBVIOUS
<1> HIDE DEF Part, Agreed
<1> QED  BY <1>2, <1>3

LEMMA Quotient ==
    ASSUME NEW a \in Nat, NEW b \in Nat \ {0}
    PROVE  a \div b \in Nat /\ b * (a \div b) <= a /\ a < b * (a \div b) + b
  OBVIOUS

LEMMA EvidencePatternType ==
    ASSUME NEW c \in Cases, NEW m \in Ids
    PROVE  EvidencePattern[c][m] \in Int
<1> DEFINE P == Row[m].pattern
           Overlap == IF P = {} THEN 0 ELSE (100 * Cardinality(P \cap Query[c].tokens)) \div Cardinality(P)
           Fit == IF Query[c].claim \in Query[c].supported THEN 100 ELSE 0
<1>1. IsFiniteSet(P)
  BY RetrievalAssumption
<1>2. Cardinality(P) \in Nat /\ Cardinality(P \cap Query[c].tokens) \in Nat
  BY <1>1, FS_CardinalityType, FS_Subset, P \cap Query[c].tokens \subseteq P
<1>3. P # {} => Cardinality(P) # 0
  BY <1>1, FS_EmptySet
<1>4. Overlap \in Nat
  <2>1. CASE P = {}
    BY <2>1
  <2>2. CASE P # {}
    <3>1. Cardinality(P) \in Nat \ {0} /\ 100 * Cardinality(P \cap Query[c].tokens) \in Nat
      BY <1>2, <1>3, <2>2
    <3> HIDE DEF P
    <3> QED  BY <2>2, <3>1, Quotient
  <2> QED  BY <2>1, <2>2
<1>5. Fit \in Nat /\ Query[c].provenance \in Nat /\ Query[c].uncertainty \in Nat
  <2>1. Query[c].provenance \in 0 .. 100 /\ Query[c].uncertainty \in 0 .. 100
    BY RetrievalAssumption
  <2> QED  BY <2>1
<1>6. EvidencePattern[c][m] = (5 * Overlap + 2 * Fit + 2 * Query[c].provenance + 100 - Query[c].uncertainty) \div 10
  BY DEF EvidencePattern
<1> HIDE DEF P, Overlap, Fit
<1> QED  BY <1>4, <1>5, <1>6

\* How many uses of a row went well, in percent.
LEMMA UsageType ==
    ASSUME NEW m \in Ids, NEW use \in UseMaps
    PROVE  Usage(m, use) \in Nat
<1> DEFINE All == use[m].good + use[m].bad + use[m].contested
<1>1. All \in Nat /\ 100 * use[m].good \in Nat
  BY DEF UseMaps, UseCounts
<1>2. Usage(m, use) = IF place[m] # "long" \/ All = 0 THEN 0 ELSE (100 * use[m].good) \div All
  BY DEF Usage
<1>3. CASE place[m] # "long" \/ All = 0
  BY <1>2, <1>3
<1>4. CASE ~(place[m] # "long" \/ All = 0)
  <2> HIDE DEF All
  <2> QED  BY <1>1, <1>2, <1>4, Quotient
<1> QED  BY <1>3, <1>4

\* What of the score does not depend on the uses.
Merit(c, m) ==
    55 * Semantic[c][m] + 15 * Compatibility[c][m][place[m] = "long"] + 10 * EvidencePattern[c][m]
        + 10 * Row[m].confidence + 5 * Support(m)

LEMMA MeritType ==
    ASSUME NEW c \in Cases, NEW m \in Ids
    PROVE  Merit(c, m) \in Int
<1>1. Compatibility[c][m][place[m] = "long"] \in Nat
  <2>1. (place[m] = "long") \in BOOLEAN
    OBVIOUS
  <2> QED  BY <2>1, CompatibilityType, Zenon
<1>2. Support(m) \in Nat
  <2>1. Row[m].support \in Nat
    BY RetrievalAssumption
  <2> QED  BY <2>1, LessOfTwo DEF Support
<1>3. Semantic[c][m] \in Nat /\ Row[m].confidence \in Nat
  <2>1. Semantic[c][m] \in 0 .. 100 /\ Row[m].confidence \in 0 .. 100
    BY RetrievalAssumption
  <2> QED  BY <2>1
<1> QED  BY <1>1, <1>2, <1>3, EvidencePatternType DEF Merit

LEMMA ScoreType ==
    ASSUME NEW c \in Cases, NEW m \in Ids, NEW use \in UseMaps
    PROVE  FinalScore(c, m, use) = Merit(c, m) + 5 * Usage(m, use) /\ FinalScore(c, m, use) \in Int
<1>1. FinalScore(c, m, use) = Merit(c, m) + 5 * Usage(m, use)
  BY DEF FinalScore, Merit
<1> QED  BY <1>1, MeritType, UsageType

-----------------------------------------------------------------------------
\* The ranking is a strict order of the rows.
LEMMA BeforeOrders ==
    ASSUME NEW c \in Cases, NEW use \in UseMaps
    PROVE  /\ \A m \in Ids : ~Before(c, m, m, use)
           /\ \A m, n \in Ids : m # n => (Before(c, m, n, use) <=> ~Before(c, n, m, use))
           /\ \A k, m, n \in Ids : Before(c, k, m, use) /\ Before(c, m, n, use) => Before(c, k, n, use)
<1>1. \A m \in Ids : FinalScore(c, m, use) \in Int /\ m \in Nat
  BY ScoreType, RetrievalAssumption
<1>2. \A m, n \in Ids : Before(c, m, n, use) <=>
         \/ FinalScore(c, m, use) > FinalScore(c, n, use)
         \/ /\ FinalScore(c, m, use) = FinalScore(c, n, use)
            /\ \/ place[m] = "staged" /\ place[n] # "staged"
               \/ (place[m] = "staged" <=> place[n] = "staged") /\ m > n
  BY <1>1 DEF Before
<1> QED  BY <1>1, <1>2

\* Some smallest of the subsets of a finite set that are of a kind.
LEMMA SmallestSubset ==
    ASSUME NEW S, IsFiniteSet(S), NEW Bad \in SUBSET (SUBSET S), Bad # {}
    PROVE  \E U \in Bad : \A T \in Bad : ~(T \subseteq U /\ T # U)
<1>1. Bad \subseteq FiniteSubsetsOf(S)
  BY FS_Subset DEF FiniteSubsetsOf
<1>2. PICK U \in Bad : \A T \in Bad : ~(<<T, U>> \in StrictSubsetOrdering(S))
  BY <1>1, FS_StrictSubsetOrderingWellFounded, WFMin
<1> QED  BY <1>2 DEF StrictSubsetOrdering

\* Of some rows, one comes first and one comes last.
LEMMA FirstRow ==
    ASSUME NEW c \in Cases, NEW use \in UseMaps, NEW S \in SUBSET Ids, S # {}
    PROVE  \E x \in S : \A y \in S : ~Before(c, y, x, use)
<1> DEFINE Earlier(x) == {y \in S : Before(c, y, x, use)}
           Sets == {Earlier(x) : x \in S}
<1>1. Sets \in SUBSET (SUBSET Ids) /\ Sets # {}
  OBVIOUS
<1>2. PICK U \in Sets : \A T \in Sets : ~(T \subseteq U /\ T # U)
  <2>1. IsFiniteSet(Ids)
    BY RetrievalAssumption
  <2> HIDE DEF Sets
  <2> QED  BY <1>1, <2>1, SmallestSubset
<1>3. PICK x \in S : U = Earlier(x)
  OBVIOUS
<1>4. ASSUME NEW y \in S, Before(c, y, x, use)  PROVE FALSE
  <2>1. Earlier(y) \subseteq Earlier(x)
    BY <1>4, BeforeOrders
  <2>2. y \in Earlier(x) /\ y \notin Earlier(y)
    BY <1>4, BeforeOrders
  <2>3. Earlier(y) \in Sets
    OBVIOUS
  <2> HIDE DEF Sets, Earlier
  <2> QED  BY <1>2, <1>3, <2>1, <2>2, <2>3
<1> QED  BY <1>4

LEMMA LastRow ==
    ASSUME NEW c \in Cases, NEW use \in UseMaps, NEW S \in SUBSET Ids, S # {}
    PROVE  \E x \in S : \A y \in S : ~Before(c, x, y, use)
<1> DEFINE Later(x) == {y \in S : Before(c, x, y, use)}
           Sets == {Later(x) : x \in S}
<1>1. Sets \in SUBSET (SUBSET Ids) /\ Sets # {}
  OBVIOUS
<1>2. PICK U \in Sets : \A T \in Sets : ~(T \subseteq U /\ T # U)
  <2>1. IsFiniteSet(Ids)
    BY RetrievalAssumption
  <2> HIDE DEF Sets
  <2> QED  BY <1>1, <2>1, SmallestSubset
<1>3. PICK x \in S : U = Later(x)
  OBVIOUS
<1>4. ASSUME NEW y \in S, Before(c, x, y, use)  PROVE FALSE
  <2>1. Later(y) \subseteq Later(x)
    BY <1>4, BeforeOrders
  <2>2. y \in Later(x) /\ y \notin Later(y)
    BY <1>4, BeforeOrders
  <2>3. Later(y) \in Sets
    OBVIOUS
  <2> HIDE DEF Sets, Later
  <2> QED  BY <1>2, <1>3, <2>1, <2>2, <2>3
<1> QED  BY <1>4

\* A pass over any rows keeps something definite: what it keeps of all but the
\* last, and the last one if it may.
LEMMA SomeSolve ==
    ASSUME NEW c \in Cases, NEW use \in UseMaps, NEW rows \in SUBSET Ids
    PROVE  \E S \in SUBSET rows : Solves(c, rows, S, use)
<1> DEFINE Bad == {R \in SUBSET rows : \A S \in SUBSET R : ~Solves(c, R, S, use)}
<1>1. SUFFICES ASSUME Bad # {}  PROVE FALSE
  <2>1. rows \notin Bad
    BY <1>1
  <2> QED  BY <2>1
<1>2. PICK R \in Bad : \A T \in Bad : ~(T \subseteq R /\ T # R)
  <2>1. IsFiniteSet(rows) /\ Bad \in SUBSET (SUBSET rows)
    BY FS_Subset, RetrievalAssumption
  <2> HIDE DEF Bad
  <2> QED  BY <1>1, <2>1, SmallestSubset
<1>3. R # {}
  <2>1. Solves(c, {}, {}, use)
    BY DEF Solves
  <2> QED  BY <2>1
<1>4. PICK x \in R : \A y \in R : ~Before(c, x, y, use)
  BY <1>3, LastRow
<1>5. PICK S \in SUBSET (R \ {x}) : Solves(c, R \ {x}, S, use)
  <2>1. R \ {x} \notin Bad /\ R \ {x} \in SUBSET rows
    BY <1>2
  <2> QED  BY <2>1
<1> DEFINE Whole == IF Keeps(c, S, x, use) THEN S \cup {x} ELSE S
<1>6. ASSUME NEW m \in R  PROVE Keeps(c, Whole, m, use) <=> Keeps(c, S, m, use)
  <2>1. ~Before(c, x, m, use)
    BY <1>4
  <2>2. {k \in Whole : Before(c, k, m, use)} = {k \in S : Before(c, k, m, use)}
    BY <2>1
  <2>3. \A k : k \in Whole /\ Before(c, k, m, use) <=> k \in S /\ Before(c, k, m, use)
    BY <2>1
  <2> HIDE DEF Whole
  <2> QED  BY <2>2, <2>3 DEF Keeps
<1>7. Whole \in SUBSET R
  OBVIOUS
<1>8. ASSUME NEW m \in R  PROVE m \in Whole <=> Keeps(c, Whole, m, use)
  <2>1. CASE m = x
    BY <1>6, <2>1
  <2>2. CASE m # x
    <3>1. m \in S <=> Keeps(c, S, m, use)
      BY <1>5, <2>2 DEF Solves
    <3>2. m \in Whole <=> m \in S
      BY <2>2
    <3> HIDE DEF Whole
    <3> QED  BY <1>6, <3>1, <3>2
  <2> QED  BY <2>1, <2>2
<1>9. Solves(c, R, Whole, use)
  <2> HIDE DEF Whole
  <2> QED  BY <1>7, <1>8 DEF Solves
<1> QED  BY <1>2, <1>7, <1>9

LEMMA RetrievedSolves ==
    ASSUME NEW c \in Cases, NEW learns \in BOOLEAN, NEW use \in UseMaps
    PROVE  Solves(c, Rows(c, learns, use), Retrieved(c, learns, use), use)
<1> DEFINE R == Rows(c, learns, use)
<1>1. R \in SUBSET Ids
  BY DEF Rows, LongRows, StagedRows
<1>2. \E S \in SUBSET R : \A m \in R : m \in S <=> Keeps(c, S, m, use)
  <2> HIDE DEF R
  <2> QED  BY <1>1, SomeSolve DEF Solves
<1>3. Retrieved(c, learns, use) = CHOOSE S \in SUBSET R : \A m \in R : m \in S <=> Keeps(c, S, m, use)
  BY DEF Retrieved
<1> HIDE DEF R
<1> QED  BY <1>2, <1>3 DEF Solves, R


\* A pass keeps no more rows than there is room for: the last one found room.
LEMMA RoomEnough ==
    ASSUME NEW c \in Cases, NEW use \in UseMaps, NEW rows \in SUBSET Ids, NEW S, Solves(c, rows, S, use)
    PROVE  IsFiniteSet(S) /\ Cardinality(S) \in 0 .. TopK
<1>1. S \in SUBSET Ids /\ IsFiniteSet(S) /\ Cardinality(S) \in Nat /\ TopK \in Nat \ {0}
  BY FS_Subset, FS_CardinalityType, RetrievalAssumption DEF Solves
<1>2. CASE S = {}
  BY <1>1, <1>2, FS_EmptySet
<1>3. CASE S # {}
  <2>1. PICK x \in S : \A y \in S : ~Before(c, x, y, use)
    BY <1>1, <1>3, LastRow
  <2>2. {k \in S : Before(c, k, x, use)} = S \ {x}
    BY <1>1, <2>1, BeforeOrders
  <2>3. Cardinality(S \ {x}) < TopK
    BY <2>2 DEF Solves, Keeps
  <2>4. Cardinality(S \ {x}) = Cardinality(S) - 1
    BY <1>1, FS_RemoveElement
  <2> QED  BY <1>1, <2>3, <2>4
<1> QED  BY <1>2, <1>3

LEMMA SamenessMutual == \A m, n \in Ids : SameRow(m, n) => SameRow(n, m)
  BY RetrievalAssumption DEF SameRow

\* Of two rows that a pass keeps, the second was compared with the first.
LEMMA KeptDiffer ==
    ASSUME NEW c \in Cases, NEW use \in UseMaps, NEW rows \in SUBSET Ids, NEW S, Solves(c, rows, S, use),
           NEW m \in S, NEW n \in S, m # n
    PROVE  ~SameRow(m, n)
<1>1. m \in Ids /\ n \in Ids /\ Keeps(c, S, m, use) /\ Keeps(c, S, n, use)
  BY DEF Solves
<1>2. Before(c, m, n, use) \/ Before(c, n, m, use)
  BY <1>1, BeforeOrders
<1> QED  BY <1>1, <1>2, SamenessMutual DEF Keeps

\* A row that is not kept has given way.
LEMMA LeftOut ==
    ASSUME NEW c \in Cases, NEW use \in UseMaps, NEW rows \in SUBSET Ids, NEW S, Solves(c, rows, S, use),
           NEW m \in rows \ S
    PROVE  LET best == {k \in S : FinalScore(c, k, use) >= FinalScore(c, m, use)}
           IN  (\E k \in best : SameRow(m, k)) \/ Cardinality(best) = TopK
<1> DEFINE Best == {k \in S : FinalScore(c, k, use) >= FinalScore(c, m, use)}
           Ahead == {k \in S : Before(c, k, m, use)}
<1>1. S \in SUBSET Ids /\ m \in Ids /\ ~Keeps(c, S, m, use)
  BY DEF Solves
<1>2. Ahead \subseteq Best
  <2>1. \A k \in S : FinalScore(c, k, use) \in Int /\ FinalScore(c, m, use) \in Int
    BY <1>1, ScoreType
  <2>2. ASSUME NEW k \in S, Before(c, k, m, use)
        PROVE  FinalScore(c, k, use) >= FinalScore(c, m, use)
    BY <2>1, <2>2 DEF Before
  <2> QED  BY <2>2
<1>3. CASE \E k \in S : SameRow(m, k) /\ Before(c, k, m, use)
  BY <1>2, <1>3
<1>4. CASE ~(Cardinality(Ahead) < TopK)
  <2>1. IsFiniteSet(S) /\ Cardinality(S) \in 0 .. TopK
    BY RoomEnough
  <2>2. /\ IsFiniteSet(Best) /\ Cardinality(Best) \in Nat /\ Cardinality(Best) <= Cardinality(S)
        /\ IsFiniteSet(Ahead) /\ Cardinality(Ahead) \in Nat /\ Cardinality(Ahead) <= Cardinality(Best)
    <3>1. Best \subseteq S
      OBVIOUS
    <3> HIDE DEF Best, Ahead
    <3>2. IsFiniteSet(Best) /\ Cardinality(Best) <= Cardinality(S)
      BY <2>1, <3>1, FS_Subset
    <3>3. IsFiniteSet(Ahead) /\ Cardinality(Ahead) <= Cardinality(Best)
      BY <1>2, <3>2, FS_Subset
    <3> QED  BY <3>2, <3>3, FS_CardinalityType
  <2>3. TopK \in Nat
    BY RetrievalAssumption
  <2>4. Cardinality(Best) = TopK
    <3> HIDE DEF Best, Ahead
    <3> QED  BY <1>4, <2>1, <2>2, <2>3
  <2> QED  BY <2>4
<1> QED  BY <1>1, <1>3, <1>4 DEF Keeps

-----------------------------------------------------------------------------
(* What experience changes.                                                 *)

\* With the score of one row raised and the others as they were, what was kept
\* before that row's new place is kept as before, so that the row stays.
LEMMA RiserStays ==
    ASSUME NEW c \in Cases, NEW low \in UseMaps, NEW high \in UseMaps, NEW m \in Ids,
           \A k \in Ids \ {m} : low[k] = high[k],
           FinalScore(c, m, low) <= FinalScore(c, m, high),
           m \in Retrieved(c, FALSE, low)
    PROVE  m \in Retrieved(c, FALSE, high)
<1> DEFINE S == Retrieved(c, FALSE, low)
           T == Retrieved(c, FALSE, high)
           R == Rows(c, FALSE, low)
           Q == Rows(c, FALSE, high)
<1>1. Solves(c, R, S, low) /\ Solves(c, Q, T, high) /\ R \in SUBSET Ids /\ Q \in SUBSET Ids
  <2>1. R \in SUBSET Ids /\ Q \in SUBSET Ids
    BY DEF Rows, LongRows, StagedRows
  <2> QED  BY <2>1, RetrievedSolves
<1>2. \A k \in Ids : FinalScore(c, k, low) \in Int /\ FinalScore(c, k, high) \in Int
  BY ScoreType
<1>3. \A k \in Ids \ {m} : FinalScore(c, k, low) = FinalScore(c, k, high)
  <2>1. \A k \in Ids \ {m} : Usage(k, low) = Usage(k, high)
    BY DEF Usage
  <2> QED  BY <2>1, ScoreType
<1>4. \A k \in Ids \ {m} : k \in R <=> k \in Q
  BY <1>3 DEF Rows, Passes
<1>5. m \in R /\ m \in Q
  <2>1. m \in R
    BY <1>1 DEF Solves
  <2>2. MinFinal \in Nat
    BY RetrievalAssumption
  <2>3. m \in Ids /\ m \in LongRows \cup StagedRows(FALSE) /\ Semantic[c][m] >= MinSemantic /\ FinalScore(c, m, low) >= MinFinal
    BY <2>1 DEF Rows, Passes
  <2>4. FinalScore(c, m, high) >= MinFinal
    <3>1. FinalScore(c, m, low) \in Int /\ FinalScore(c, m, high) \in Int
      BY <1>2
    <3> QED  BY <2>2, <2>3, <3>1
  <2> QED  BY <2>1, <2>3, <2>4 DEF Rows, Passes
<1>6. \A j, k \in Ids \ {m} : Before(c, j, k, low) <=> Before(c, j, k, high)
  BY <1>3 DEF Before
<1>7. \A k \in Ids \ {m} : Before(c, k, m, high) => Before(c, k, m, low)
  BY <1>2, <1>3 DEF Before
<1> DEFINE Changed == {k \in R : k # m /\ Before(c, k, m, high) /\ (k \in S <=> k \notin T)}
<1> HIDE DEF S, T, R, Q
<1>8. Changed = {}
  <2>1. SUFFICES ASSUME Changed # {}  PROVE FALSE
    OBVIOUS
  <2>2. PICK k \in Changed : \A j \in Changed : ~Before(c, j, k, high)
    <3>1. Changed \in SUBSET Ids
      BY <1>1
    <3> HIDE DEF Changed
    <3> QED  BY <2>1, <3>1, FirstRow
  <2>3. k \in Ids \ {m} /\ k \in R /\ k \in Q /\ Before(c, k, m, high) /\ Before(c, k, m, low)
    BY <1>1, <1>4, <1>7
  <2>4. ~Before(c, m, k, high) /\ ~Before(c, m, k, low)
    BY <2>3, BeforeOrders
  <2>5. S \in SUBSET R /\ T \in SUBSET Q
    BY <1>1 DEF Solves
  <2>6. ASSUME NEW j  PROVE j \in S /\ Before(c, j, k, low) <=> j \in T /\ Before(c, j, k, high)
    <3>1. CASE j \notin Ids \ {m}
      BY <1>1, <2>4, <2>5, <3>1
    <3>2. CASE j \in Ids \ {m} /\ ~Before(c, j, k, high)
      BY <1>6, <2>3, <3>2
    <3>3. CASE j \in Ids \ {m} /\ Before(c, j, k, high)
      <4>1. Before(c, j, k, low) /\ Before(c, j, m, high)
        BY <1>6, <2>3, <3>3, BeforeOrders
      <4>2. j \notin Changed
        BY <2>2, <3>3
      <4>3. j \in S <=> j \in T
        BY <1>4, <2>5, <3>3, <4>1, <4>2
      <4> QED  BY <3>3, <4>1, <4>3
    <3> QED  BY <3>1, <3>2, <3>3
  <2>7. {j \in S : Before(c, j, k, low)} = {j \in T : Before(c, j, k, high)}
    BY <2>6
  <2>8. Keeps(c, S, k, low) <=> Keeps(c, T, k, high)
    BY <2>6, <2>7 DEF Keeps
  <2>9. k \in S <=> k \in T
    BY <1>1, <2>3, <2>8 DEF Solves
  <2> QED  BY <2>2, <2>9
<1>9. ASSUME NEW k \in T, Before(c, k, m, high)  PROVE k \in S /\ Before(c, k, m, low)
  <2>1. k \in Ids /\ k # m /\ k \in Q
    BY <1>1, <1>9, BeforeOrders DEF Solves
  <2>2. k \notin Changed /\ k \in R
    BY <1>4, <1>8, <2>1
  <2> QED  BY <1>7, <1>9, <2>1, <2>2
<1>10. Keeps(c, S, m, low)
  <2>1. m \in S
    BY DEF S
  <2> QED  BY <1>1, <1>5, <2>1 DEF Solves
<1>11. Keeps(c, T, m, high)
  <2>1. \A k \in T : SameRow(m, k) => ~Before(c, k, m, high)
    BY <1>9, <1>10 DEF Keeps
  <2>2. {k \in T : Before(c, k, m, high)} \subseteq {k \in S : Before(c, k, m, low)}
    BY <1>9
  <2>3. IsFiniteSet(S)
    BY <1>1, RoomEnough
  <2>4. IsFiniteSet({k \in S : Before(c, k, m, low)})
    BY <2>3, FS_Subset, {k \in S : Before(c, k, m, low)} \subseteq S
  <2> DEFINE A == {k \in T : Before(c, k, m, high)}
             B == {k \in S : Before(c, k, m, low)}
  <2>5. Cardinality(A) \in Nat /\ Cardinality(B) \in Nat /\ Cardinality(A) <= Cardinality(B)
    <3> HIDE DEF A, B
    <3>1. IsFiniteSet(B) /\ A \subseteq B
      BY <2>2, <2>4 DEF A, B
    <3> QED  BY <3>1, FS_Subset, FS_CardinalityType
  <2>6. Cardinality(B) < TopK /\ TopK \in Nat
    BY <1>10, RetrievalAssumption DEF Keeps
  <2>7. Cardinality(A) < TopK
    <3> HIDE DEF A, B
    <3> QED  BY <2>5, <2>6
  <2> QED  BY <2>1, <2>7 DEF Keeps
<1>12. m \in T
  BY <1>1, <1>5, <1>11 DEF Solves
<1> QED  BY <1>12 DEF T

LEMMA QuotientAtLeast ==
    ASSUME NEW a \in Nat, NEW b \in Nat \ {0}, NEW k \in Nat, k * b <= a
    PROVE  k <= a \div b
<1> DEFINE q == a \div b
<1>1. q \in Nat /\ a < b * q + b
  BY Quotient
<1> HIDE DEF q
<1>2. CASE q + 1 <= k
  <2>1. (q + 1) * b <= k * b
    BY <1>1, <1>2
  <2> QED  BY <1>1, <1>2, <2>1
<1> QED  BY <1>1, <1>2 DEF q

\* A larger part of a whole is a larger quotient.
LEMMA QuotientGrows ==
    ASSUME NEW a \in Nat, NEW b \in Nat \ {0}, NEW c \in Nat, NEW d \in Nat \ {0}, a * d <= c * b
    PROVE  a \div b <= c \div d
<1> DEFINE q == a \div b
<1>1. q \in Nat /\ b * q <= a
  BY Quotient
<1> HIDE DEF q
<1>2. (b * q) * d <= a * d
  BY <1>1
<1>3. b * (q * d) <= b * c
  BY <1>1, <1>2
<1>4. q * d <= c
  BY <1>1, <1>3
<1> QED  BY <1>1, <1>4, QuotientAtLeast DEF q

Counted(use, m, outcome) == [use EXCEPT ![m][outcome] = @ + 1]

\* A good outcome raises the share of the good ones, another one lowers it.
LEMMA OutcomeMoves ==
    ASSUME NEW use \in UseMaps, NEW m \in Ids, NEW outcome \in {"good", "bad", "contested"},
           NEW next, next = Counted(use, m, outcome)
    PROVE  /\ next \in UseMaps
           /\ \A k \in Ids \ {m} : next[k] = use[k]
           /\ next[m].good > use[m].good <=> outcome = "good"
           /\ outcome = "good" => Usage(m, use) <= Usage(m, next)
           /\ outcome # "good" => Usage(m, next) <= Usage(m, use)
<1> DEFINE G == use[m].good
           All(u) == u[m].good + u[m].bad + u[m].contested
           A == All(use)
<1>0. next = [use EXCEPT ![m][outcome] = @ + 1]
  BY DEF Counted
<1>1. use[m] \in UseCounts /\ use[m].good \in Nat /\ use[m].bad \in Nat /\ use[m].contested \in Nat
  BY DEF UseMaps, UseCounts
<1>2. /\ next \in UseMaps /\ \A k \in Ids \ {m} : next[k] = use[k]
      /\ next[m] = [use[m] EXCEPT ![outcome] = @ + 1]
  BY <1>0, <1>1 DEF UseMaps, UseCounts
<1>3. /\ A \in Nat /\ All(next) = A + 1 /\ G \in Nat /\ G <= A
      /\ next[m].good = IF outcome = "good" THEN G + 1 ELSE G
  BY <1>1, <1>2 DEF UseCounts
<1>4. /\ Usage(m, use) = IF place[m] # "long" \/ A = 0 THEN 0 ELSE (100 * G) \div A
      /\ Usage(m, next) = IF place[m] # "long" \/ All(next) = 0 THEN 0 ELSE (100 * next[m].good) \div All(next)
  BY DEF Usage
<1> HIDE DEF A, G, All
<1>5. Usage(m, next) \in Nat /\ Usage(m, use) \in Nat
  BY <1>2, UsageType
<1>6. outcome = "good" => Usage(m, use) <= Usage(m, next)
  <2>1. SUFFICES ASSUME outcome = "good", place[m] = "long", A # 0  PROVE Usage(m, use) <= Usage(m, next)
    BY <1>4, <1>5
  <2>2. A \in Nat \ {0} /\ A + 1 \in Nat \ {0} /\ 100 * G \in Nat /\ 100 * (G + 1) \in Nat
    BY <1>3, <2>1
  <2>3. (100 * G) * (A + 1) <= (100 * (G + 1)) * A
    BY <1>3
  <2>4. (100 * G) \div A <= (100 * (G + 1)) \div (A + 1)
    BY <2>2, <2>3, QuotientGrows
  <2>5. Usage(m, use) = (100 * G) \div A /\ Usage(m, next) = (100 * (G + 1)) \div (A + 1)
    BY <1>3, <1>4, <2>1
  <2> QED  BY <2>4, <2>5
<1>7. outcome # "good" => Usage(m, next) <= Usage(m, use)
  <2>1. SUFFICES ASSUME outcome # "good", place[m] = "long"  PROVE Usage(m, next) <= Usage(m, use)
    BY <1>4, <1>5
  <2>2. A + 1 \in Nat \ {0} /\ 100 * G \in Nat /\ Usage(m, next) = (100 * G) \div (A + 1)
    BY <1>3, <1>4, <2>1
  <2>3. CASE A = 0
    <3>1. G = 0
      BY <1>3, <2>3
    <3>2. Usage(m, next) = 0
      BY <2>2, <2>3, <3>1
    <3> QED  BY <1>5, <3>2
  <2>4. CASE A # 0
    <3>1. (100 * G) * A <= (100 * G) * (A + 1) /\ A \in Nat \ {0}
      BY <1>3, <2>4
    <3>2. (100 * G) \div (A + 1) <= (100 * G) \div A
      BY <2>2, <3>1, QuotientGrows
    <3> QED  BY <1>4, <2>1, <2>2, <2>4, <3>2
  <2> QED  BY <2>3, <2>4
<1>8. next[m].good > G <=> outcome = "good"
  BY <1>3
<1> QED  BY <1>2, <1>6, <1>7, <1>8 DEF G

-----------------------------------------------------------------------------
\* What cases were given are rows that differ, and promoted ones if the run was
\* one that does not learn.
RecallInvariant ==
    /\ place \in [Ids -> {"none", "staged", "long"}]
    /\ status \in [Ids -> {"active", "under_review"}]
    /\ uses \in UseMaps
    /\ given \in [Cases -> SUBSET Ids] /\ learning \in [Cases -> BOOLEAN] /\ runs \in [Cases -> Nat]
    /\ NoTwice /\ FrozenSeesPromoted

LEMMA RetrievedDiffer ==
    ASSUME NEW c \in Cases, NEW learns \in BOOLEAN, NEW use \in UseMaps
    PROVE  /\ Retrieved(c, learns, use) \in SUBSET Ids
           /\ \A m, n \in Retrieved(c, learns, use) :
                 m # n => Row[m].key # Row[n].key /\ <<m, n>> \notin Equivalent
           /\ ~learns => \A m \in Retrieved(c, learns, use) : place[m] = "long"
<1> DEFINE R == Rows(c, learns, use)
           S == Retrieved(c, learns, use)
<1>1. R \in SUBSET Ids /\ (~learns => \A m \in R : place[m] = "long")
  BY DEF Rows, LongRows, StagedRows
<1>2. Solves(c, R, S, use)
  BY RetrievedSolves
<1> HIDE DEF R, S
<1>3. S \in SUBSET R
  BY <1>2 DEF Solves
<1>4. \A m, n \in S : m # n => ~SameRow(m, n)
  BY <1>1, <1>2, KeptDiffer
<1>5. /\ S \in SUBSET Ids
      /\ \A m, n \in S : m # n => Row[m].key # Row[n].key /\ <<m, n>> \notin Equivalent
      /\ ~learns => \A m \in S : place[m] = "long"
  BY <1>1, <1>3, <1>4 DEF SameRow
<1> QED  BY <1>5 DEF S

LEMMA RecallStep == RecallInvariant /\ [RetrievalNext]_retrievalVars => RecallInvariant'
<1> SUFFICES ASSUME RecallInvariant, [RetrievalNext]_retrievalVars  PROVE RecallInvariant'
  OBVIOUS
<1> USE DEF RecallInvariant
<1>1. ASSUME NEW c \in Cases, RetrieveForClaims(c)  PROVE RecallInvariant'
  <2>1. PICK learns \in BOOLEAN : /\ given' = [given EXCEPT ![c] = Retrieved(c, learns, uses)]
                                  /\ learning' = [learning EXCEPT ![c] = learns]
    BY <1>1 DEF RetrieveForClaims
  <2>2. runs' = [runs EXCEPT ![c] = @ + 1] /\ UNCHANGED <<place, status, uses>>
    BY <1>1 DEF RetrieveForClaims
  <2> DEFINE S == Retrieved(c, learns, uses)
  <2>3. /\ S \in SUBSET Ids
        /\ \A m, n \in S : m # n => Row[m].key # Row[n].key /\ <<m, n>> \notin Equivalent
        /\ ~learns => \A m \in S : place[m] = "long"
    BY RetrievedDiffer
  <2> HIDE DEF S
  <2>4. /\ given' \in [Cases -> SUBSET Ids] /\ learning' \in [Cases -> BOOLEAN] /\ runs' \in [Cases -> Nat]
        /\ given'[c] = S /\ learning'[c] = learns
        /\ \A d \in Cases \ {c} : given'[d] = given[d] /\ learning'[d] = learning[d]
    BY <2>1, <2>2, <2>3 DEF S
  <2>5. NoTwice'
    BY <2>3, <2>4 DEF NoTwice
  <2>6. FrozenSeesPromoted'
    BY <2>2, <2>3, <2>4 DEF FrozenSeesPromoted
  <2> QED  BY <2>2, <2>4, <2>5, <2>6
<1>2. ASSUME NEW c \in Cases, Reflect(c)  PROVE RecallInvariant'
  BY <1>2 DEF Reflect, NoTwice, FrozenSeesPromoted
<1>3. ASSUME NEW m \in Ids, Promote(m)  PROVE RecallInvariant'
  BY <1>3 DEF Promote, NoTwice, FrozenSeesPromoted
<1>4. ASSUME NEW m \in Ids, ChangeStatus(m)  PROVE RecallInvariant'
  BY <1>4 DEF ChangeStatus, NoTwice, FrozenSeesPromoted
<1>5. ASSUME NEW m \in Ids, NEW outcome \in {"good", "bad", "contested"}, Outcome(m, outcome)
      PROVE  RecallInvariant'
  <2>1. uses' \in UseMaps
    <3>1. uses \in UseMaps /\ uses' = Counted(uses, m, outcome)
      BY <1>5 DEF Outcome, Counted
    <3> QED  BY <3>1, OutcomeMoves, Zenon
  <2> QED  BY <1>5, <2>1 DEF Outcome, NoTwice, FrozenSeesPromoted
<1>6. CASE UNCHANGED retrievalVars
  BY <1>6 DEF retrievalVars, NoTwice, FrozenSeesPromoted
<1> QED  BY <1>1, <1>2, <1>3, <1>4, <1>5, <1>6 DEF RetrievalNext

LEMMA RecallInvariantHolds == RetrievalSpec => []RecallInvariant
<1>1. RetrievalInit => RecallInvariant
  <2> SUFFICES ASSUME RetrievalInit  PROVE RecallInvariant
    OBVIOUS
  <2>1. uses \in UseMaps
    BY DEF RetrievalInit, UseMaps, UseCounts, NoUses
  <2> QED  BY <2>1, RetrievalAssumption DEF RetrievalInit, RecallInvariant, NoTwice, FrozenSeesPromoted
<1> QED  BY <1>1, RecallStep, PTL DEF RetrievalSpec

\* A run is given what gives way to nothing.
LEMMA NothingBetterStep ==
    RecallInvariant /\ [RetrievalNext]_retrievalVars =>
       [\A c \in Cases : runs'[c] # runs[c] =>
          LET best(m) == {k \in given'[c] : FinalScore(c, k, uses) >= FinalScore(c, m, uses)}
          IN  \A m \in Rows(c, learning'[c], uses) \ given'[c] :
                 \/ \E k \in best(m) : Row[k].key = Row[m].key \/ <<m, k>> \in Equivalent
                 \/ Cardinality(best(m)) = TopK]_runs
<1> SUFFICES ASSUME RecallInvariant, [RetrievalNext]_retrievalVars, NEW c \in Cases, runs'[c] # runs[c],
                    NEW m \in Rows(c, learning'[c], uses) \ given'[c]
             PROVE  LET best == {k \in given'[c] : FinalScore(c, k, uses) >= FinalScore(c, m, uses)}
                    IN  \/ \E k \in best : Row[k].key = Row[m].key \/ <<m, k>> \in Equivalent
                        \/ Cardinality(best) = TopK
  OBVIOUS
<1>1. PICK d \in Cases : RetrieveForClaims(d)
  BY DEF RetrievalNext, retrievalVars, Reflect, Promote, ChangeStatus, Outcome
<1>2. d = c
  BY <1>1 DEF RetrieveForClaims, RecallInvariant
<1>3. PICK learns \in BOOLEAN : /\ given' = [given EXCEPT ![c] = Retrieved(c, learns, uses)]
                                /\ learning' = [learning EXCEPT ![c] = learns]
  BY <1>1, <1>2 DEF RetrieveForClaims
<1>4. given'[c] = Retrieved(c, learns, uses) /\ learning'[c] = learns
  BY <1>3 DEF RecallInvariant
<1> DEFINE R == Rows(c, learns, uses)
           S == Retrieved(c, learns, uses)
<1>5. Solves(c, R, S, uses) /\ R \in SUBSET Ids /\ uses \in UseMaps
  BY RetrievedSolves DEF RecallInvariant, Rows, LongRows, StagedRows
<1>6. m \in R \ S
  BY <1>4
<1> HIDE DEF R, S
<1> DEFINE Best == {k \in S : FinalScore(c, k, uses) >= FinalScore(c, m, uses)}
<1>7. (\E k \in Best : SameRow(m, k)) \/ Cardinality(Best) = TopK
  BY <1>5, <1>6, LeftOut
<1>8. Best = {k \in given'[c] : FinalScore(c, k, uses) >= FinalScore(c, m, uses)}
  BY <1>4 DEF S
<1> HIDE DEF Best
<1> QED  BY <1>7, <1>8 DEF SameRow

LEMMA UseTeachesStep ==
    RecallInvariant /\ [RetrievalNext]_retrievalVars =>
       [\A m \in Ids, c \in Cases :
          uses'[m] # uses[m] =>
              LET before == m \in Retrieved(c, FALSE, uses)
                  after == m \in Retrieved(c, FALSE, uses')
              IN  IF uses'[m].good > uses[m].good THEN before => after ELSE after => before]_uses
<1> SUFFICES ASSUME RecallInvariant, [RetrievalNext]_retrievalVars, NEW m \in Ids, NEW c \in Cases, uses'[m] # uses[m]
             PROVE  IF uses'[m].good > uses[m].good
                    THEN m \in Retrieved(c, FALSE, uses) => m \in Retrieved(c, FALSE, uses')
                    ELSE m \in Retrieved(c, FALSE, uses') => m \in Retrieved(c, FALSE, uses)
  OBVIOUS
<1>1. PICK n \in Ids, outcome \in {"good", "bad", "contested"} : Outcome(n, outcome)
  BY DEF RetrievalNext, retrievalVars, RetrieveForClaims, Reflect, Promote, ChangeStatus
<1>2. n = m /\ uses' = Counted(uses, m, outcome) /\ uses \in UseMaps
  BY <1>1 DEF Outcome, RecallInvariant, UseMaps, Counted
<1>3. uses' \in UseMaps /\ \A k \in Ids \ {m} : uses'[k] = uses[k]
  <2>1. uses' \in UseMaps
    BY <1>2, OutcomeMoves, Zenon
  <2>2. \A k \in Ids \ {m} : uses'[k] = uses[k]
    BY <1>2 DEF Counted, UseMaps
  <2> QED  BY <2>1, <2>2
<1>4. uses'[m].good > uses[m].good <=> outcome = "good"
  BY <1>2, OutcomeMoves
<1>5. outcome = "good" => Usage(m, uses) <= Usage(m, uses')
  BY <1>2, OutcomeMoves, Zenon
<1>6. outcome # "good" => Usage(m, uses') <= Usage(m, uses)
  BY <1>2, OutcomeMoves, Zenon
<1>7. /\ FinalScore(c, m, uses) = Merit(c, m) + 5 * Usage(m, uses)
      /\ FinalScore(c, m, uses') = Merit(c, m) + 5 * Usage(m, uses')
      /\ Merit(c, m) \in Int /\ Usage(m, uses) \in Nat /\ Usage(m, uses') \in Nat
  BY <1>2, <1>3, ScoreType, MeritType, UsageType
<1>8. CASE outcome = "good"
  <2>1. FinalScore(c, m, uses) <= FinalScore(c, m, uses')
    BY <1>5, <1>7, <1>8
  <2>2. \A k \in Ids \ {m} : uses[k] = uses'[k]
    BY <1>3
  <2>3. m \in Retrieved(c, FALSE, uses) => m \in Retrieved(c, FALSE, uses')
    BY <1>2, <1>3, <2>1, <2>2, RiserStays, Zenon
  <2> QED  BY <1>4, <1>8, <2>3
<1>9. CASE outcome # "good"
  <2>1. FinalScore(c, m, uses') <= FinalScore(c, m, uses)
    BY <1>6, <1>7, <1>9
  <2> QED  BY <1>2, <1>3, <1>4, <1>9, <2>1, RiserStays
<1> QED  BY <1>8, <1>9

\* What a case is given is right, for any rows, queries, similarities and gates,
\* and any order of runs, promotions and outcomes (memory_retriever.py:75-110).
THEOREM GivenRight == RetrievalSpec => GivenIsRight
<1>1. RecallInvariant => NoTwice /\ FrozenSeesPromoted
  BY DEF RecallInvariant
<1> QED  BY <1>1, RecallInvariantHolds, NothingBetterStep, UseTeachesStep, PTL
         DEF RetrievalSpec, GivenIsRight, NothingBetterLeft, UseTeaches
=============================================================================
