-------------------------- MODULE Decisions_proofs --------------------------
(***************************************************************************)
(* Proofs about FinalDecision and ClaimDecision: for any claims, scores,   *)
(* evidence, arguments and answers of the LLM, a verdict answers to the    *)
(* claims, no argument is lost or counts as valid unjudged, and the two    *)
(* sides of a claim are treated alike.                                     *)
(***************************************************************************)
EXTENDS ClaimDecision, FinalDecision, FiniteSetTheorems, WellFoundedInduction, TLAPS

-----------------------------------------------------------------------------
(* The verdict on a case.                                                   *)

RefutedScore(s) == DecisionOf(s) \in {"refuted", "weakly_refuted"}
SupportedScore(s) == DecisionOf(s) \in {"supported", "weakly_supported"}

\* What is refuted and what is supported follows the score.
LEMMA ScoresOrdered ==
    ASSUME NEW s \in 0 .. 100, NEW r \in 0 .. 100, s <= r
    PROVE  /\ RefutedScore(r) => RefutedScore(s)
           /\ SupportedScore(s) => SupportedScore(r)
           /\ ~(RefutedScore(s) /\ SupportedScore(s))
  BY DEF RefutedScore, SupportedScore, DecisionOf

\* When a case is accused, and when it is trusted.
LEMMA VerdictShape ==
    ASSUME NEW f, Claims # {}
    PROVE  /\ VerdictOf(f) \in {"manipulated_or_synthetic", "out_of_context_cheapfake", "false_context"}
                <=> IsRefuted(f, "authenticity") \/ (WhatSupported(f) /\ ContextRefuted(f))
           /\ VerdictOf(f) \in {"verified", "mostly_verified"}
                <=> /\ ~IsRefuted(f, "authenticity") /\ ~(WhatSupported(f) /\ ContextRefuted(f))
                    /\ PresentCore # {} /\ \A type \in PresentCore : IsSupported(f, type)
<1> DEFINE core == PresentCore # {} /\ \A type \in PresentCore : IsSupported(f, type)
<1>1. CASE IsRefuted(f, "authenticity")
  <2>1. VerdictOf(f) = "manipulated_or_synthetic"
    BY <1>1 DEF VerdictOf
  <2> QED  BY <1>1, <2>1
<1>2. CASE ~IsRefuted(f, "authenticity") /\ WhatSupported(f) /\ ContextRefuted(f)
  <2>1. VerdictOf(f) \in {"out_of_context_cheapfake", "false_context"}
    BY <1>2 DEF VerdictOf
  <2> QED  BY <1>2, <2>1
<1>3. CASE /\ ~IsRefuted(f, "authenticity") /\ ~(WhatSupported(f) /\ ContextRefuted(f)) /\ core
  <2>1. VerdictOf(f) = IF WellSupported(f, PresentCore) THEN "verified" ELSE "mostly_verified"
    BY <1>3, Zenon DEF VerdictOf
  <2>2. VerdictOf(f) \in {"verified", "mostly_verified"}
    BY <2>1
  <2> QED  BY <1>3, <2>2
<1>4. CASE /\ ~IsRefuted(f, "authenticity") /\ ~(WhatSupported(f) /\ ContextRefuted(f)) /\ ~core
  <2>1. VerdictOf(f) \in {"partially_verified", "insufficient_evidence", "uncertain"}
    BY <1>4, Zenon DEF VerdictOf
  <2> QED  BY <1>4, <2>1
<1> QED  BY <1>1, <1>2, <1>3, <1>4

VerdictInvariant == belief \in [Claims -> 0 .. 100] /\ verdict.status = VerdictOf(belief)

LEMMA VerdictInvariantHolds == VerdictSpec => []VerdictInvariant
<1>0. Scores \subseteq 0 .. 100
  BY FinalDecisionAssumption DEF FinalDecisionAssumption
<1>1. VerdictInit => VerdictInvariant
  <2> SUFFICES ASSUME VerdictInit  PROVE VerdictInvariant
    OBVIOUS
  <2>1. belief \in [Claims -> 0 .. 100]
    BY <1>0 DEF VerdictInit
  <2>2. verdict.status = VerdictOf(belief)
    BY DEF VerdictInit, Aggregated
  <2> QED  BY <2>1, <2>2 DEF VerdictInvariant
<1>2. VerdictInvariant /\ [VerdictNext]_verdictVars => VerdictInvariant'
  <2> SUFFICES ASSUME VerdictInvariant, [VerdictNext]_verdictVars  PROVE VerdictInvariant'
    OBVIOUS
  <2>1. ASSUME NEW c \in Claims, Redecide(c)  PROVE VerdictInvariant'
    BY <1>0, <2>1 DEF Redecide, VerdictInvariant, Aggregated
  <2>2. CASE UNCHANGED verdictVars
    BY <2>2 DEF verdictVars, VerdictInvariant
  <2> QED  BY <2>1, <2>2 DEF VerdictNext
<1> QED  BY <1>1, <1>2, PTL DEF VerdictSpec

\* A case that is trusted has no claim against it that it hangs on.
LEMMA TrustedUnrefuted == VerdictInvariant => TrustedIsUnrefuted
<1> SUFFICES ASSUME VerdictInvariant, Trusted,
                    NEW c \in Claims, RefutedScore(belief[c])
             PROVE  /\ TypeOf[c] \notin ContextTypes \/ ~WhatSupported(belief)
                    /\ TypeOf[c] # "authenticity"
                    /\ TypeOf[c] \in CoreTypes => OfType(TypeOf[c]) # {c}
  BY DEF TrustedIsUnrefuted, RefutedScore
<1>1. /\ ~IsRefuted(belief, "authenticity") /\ ~(WhatSupported(belief) /\ ContextRefuted(belief))
      /\ \A type \in PresentCore : IsSupported(belief, type)
  BY VerdictShape DEF VerdictInvariant, Trusted
<1>2. c \in OfType(TypeOf[c]) /\ IsRefuted(belief, TypeOf[c])
  BY DEF OfType, IsRefuted, RefutedScore
<1>3. TypeOf[c] \in ContextTypes => ContextRefuted(belief)
  BY <1>2 DEF ContextRefuted
<1>4. ASSUME TypeOf[c] \in CoreTypes, OfType(TypeOf[c]) = {c}  PROVE FALSE
  <2>1. TypeOf[c] \in PresentCore
    BY <1>4 DEF PresentCore
  <2>2. IsSupported(belief, TypeOf[c])
    BY <1>1, <2>1
  <2>3. SupportedScore(belief[c])
    BY <1>4, <2>2 DEF IsSupported, SupportedScore
  <2>4. belief[c] \in 0 .. 100 /\ belief[c] <= belief[c]
    BY DEF VerdictInvariant
  <2> QED  BY <2>3, <2>4, ScoresOrdered
<1> QED  BY <1>1, <1>2, <1>3, <1>4

\* What one claim decided again leaves of the beliefs in the others.
LEMMA OthersStay ==
    ASSUME VerdictInvariant, [VerdictNext]_verdictVars, NEW c \in Claims, belief'[c] # belief[c]
    PROVE  /\ \A d \in Claims : d # c => belief'[d] = belief[d]
           /\ \A d \in Claims : belief[d] \in 0 .. 100 /\ belief'[d] \in 0 .. 100
           /\ verdict'.status = VerdictOf(belief')
<1>0. Scores \subseteq 0 .. 100
  BY FinalDecisionAssumption DEF FinalDecisionAssumption
<1>1. PICK d \in Claims : Redecide(d)
  BY DEF VerdictNext, verdictVars
<1>2. PICK s \in Scores : belief' = [belief EXCEPT ![d] = s]
  BY <1>1 DEF Redecide
<1>3. d = c
  BY <1>2 DEF VerdictInvariant
<1> QED  BY <1>0, <1>1, <1>2, <1>3 DEF VerdictInvariant, Redecide, Aggregated

\* A step that moves belief in a claim up, or down, moves what is refuted and
\* supported of each type with it.
LEMMA TypesFollow ==
    ASSUME VerdictInvariant, [VerdictNext]_verdictVars, NEW c \in Claims, NEW type
    PROVE  /\ belief'[c] > belief[c] => (IsRefuted(belief', type) => IsRefuted(belief, type))
           /\ belief'[c] < belief[c] => /\ IsSupported(belief', type) => IsSupported(belief, type)
                                        /\ IsRefuted(belief, type) => IsRefuted(belief', type)
           /\ belief'[c] # belief[c] /\ TypeOf[c] # type =>
                (IsSupported(belief', type) <=> IsSupported(belief, type))
<1> SUFFICES ASSUME belief'[c] # belief[c]
             PROVE  /\ belief'[c] > belief[c] => (IsRefuted(belief', type) => IsRefuted(belief, type))
                    /\ belief'[c] < belief[c] => /\ IsSupported(belief', type) => IsSupported(belief, type)
                                                 /\ IsRefuted(belief, type) => IsRefuted(belief', type)
                    /\ TypeOf[c] # type => (IsSupported(belief', type) <=> IsSupported(belief, type))
  <2>1. belief[c] \in 0 .. 100
    BY DEF VerdictInvariant
  <2>2. CASE belief'[c] = belief[c]
    BY <2>1, <2>2
  <2> QED  BY <2>2
<1>1. /\ \A d \in Claims : d # c => belief'[d] = belief[d]
      /\ \A d \in Claims : belief[d] \in 0 .. 100 /\ belief'[d] \in 0 .. 100
  BY OthersStay
<1>2. \A d \in OfType(type) : d \in Claims /\ TypeOf[d] = type
  BY DEF OfType
<1>3. ASSUME NEW d \in Claims
      PROVE  /\ belief[d] \in 0 .. 100 /\ belief'[d] \in 0 .. 100
             /\ belief'[c] > belief[c] => belief[d] <= belief'[d]
             /\ belief'[c] < belief[c] => belief'[d] <= belief[d]
  <2>1. belief[d] \in 0 .. 100 /\ belief'[d] \in 0 .. 100
    BY <1>1
  <2>2. CASE d = c
    <3>1. belief[d] = belief[c] /\ belief'[d] = belief'[c]
      BY <2>2
    <3>2. \A x, y \in 0 .. 100 : (y > x => x <= y) /\ (y < x => y <= x)
      OBVIOUS
    <3>3. (belief'[d] > belief[d] => belief[d] <= belief'[d]) /\ (belief'[d] < belief[d] => belief'[d] <= belief[d])
      BY <2>1, <3>2
    <3> QED  BY <2>1, <3>1, <3>3
  <2>3. CASE d # c
    <3>1. belief'[d] = belief[d]
      BY <1>1, <2>3
    <3> QED  BY <2>1, <3>1
  <2> QED  BY <2>1, <2>2, <2>3
<1>4. ASSUME belief'[c] > belief[c], IsRefuted(belief', type)  PROVE IsRefuted(belief, type)
  <2>1. PICK d \in OfType(type) : RefutedScore(belief'[d])
    BY <1>4 DEF IsRefuted, RefutedScore
  <2>2. belief[d] \in 0 .. 100 /\ belief'[d] \in 0 .. 100 /\ belief[d] <= belief'[d]
    <3>1. d \in Claims
      BY <1>2
    <3> QED  BY <1>4, <1>3, <3>1
  <2>3. RefutedScore(belief[d])
    BY <2>1, <2>2, ScoresOrdered
  <2> QED  BY <2>1, <2>3 DEF IsRefuted, RefutedScore
<1>5. ASSUME belief'[c] < belief[c], IsSupported(belief', type)  PROVE IsSupported(belief, type)
  <2>1. PICK d \in OfType(type) : SupportedScore(belief'[d])
    BY <1>5 DEF IsSupported, SupportedScore
  <2>2. belief[d] \in 0 .. 100 /\ belief'[d] \in 0 .. 100 /\ belief'[d] <= belief[d]
    <3>1. d \in Claims
      BY <1>2
    <3> QED  BY <1>5, <1>3, <3>1
  <2>3. SupportedScore(belief[d])
    BY <2>1, <2>2, ScoresOrdered
  <2> QED  BY <2>1, <2>3 DEF IsSupported, SupportedScore
<1>6. ASSUME belief'[c] < belief[c], IsRefuted(belief, type)  PROVE IsRefuted(belief', type)
  <2>1. PICK d \in OfType(type) : RefutedScore(belief[d])
    BY <1>6 DEF IsRefuted, RefutedScore
  <2>2. belief[d] \in 0 .. 100 /\ belief'[d] \in 0 .. 100 /\ belief'[d] <= belief[d]
    <3>1. d \in Claims
      BY <1>2
    <3> QED  BY <1>6, <1>3, <3>1
  <2>3. RefutedScore(belief'[d])
    BY <2>1, <2>2, ScoresOrdered
  <2> QED  BY <2>1, <2>3 DEF IsRefuted, RefutedScore
<1>7. ASSUME TypeOf[c] # type  PROVE IsSupported(belief', type) <=> IsSupported(belief, type)
  BY <1>1, <1>2, <1>7 DEF IsSupported
<1> QED  BY <1>4, <1>5, <1>6, <1>7

\* More belief in a claim about the context or the authenticity accuses nobody.
LEMMA RisingStep ==
    ASSUME VerdictInvariant, [VerdictNext]_verdictVars, NEW c \in Claims,
           TypeOf[c] \in ContextTypes \cup {"authenticity"}, belief'[c] > belief[c], Accused'
    PROVE  Accused
<1>0. belief'[c] # belief[c]
  BY DEF VerdictInvariant
<1>1. verdict'.status = VerdictOf(belief')
  BY <1>0, OthersStay
<1>2. IsRefuted(belief', "authenticity") \/ (WhatSupported(belief') /\ ContextRefuted(belief'))
  BY <1>1, VerdictShape DEF Accused
<1>3. \A type : IsRefuted(belief', type) => IsRefuted(belief, type)
  BY TypesFollow
<1>4. TypeOf[c] # "what" /\ TypeOf[c] # "main"
  BY DEF ContextTypes
<1>5. WhatSupported(belief') => WhatSupported(belief)
  BY <1>0, <1>4, TypesFollow DEF WhatSupported
<1>6. ContextRefuted(belief') => ContextRefuted(belief)
  BY <1>3 DEF ContextRefuted
<1> QED  BY <1>2, <1>3, <1>5, <1>6, VerdictShape DEF Accused, VerdictInvariant

\* Less belief in a claim makes no case trusted that tells what happened.
LEMMA FallingStep ==
    ASSUME VerdictInvariant, [VerdictNext]_verdictVars, NEW c \in Claims,
           OfType("what") # {}, belief'[c] < belief[c], Trusted'
    PROVE  Trusted
<1>0. belief'[c] # belief[c]
  BY DEF VerdictInvariant
<1>1. verdict'.status = VerdictOf(belief')
  BY <1>0, OthersStay
<1>2. /\ ~IsRefuted(belief', "authenticity") /\ ~(WhatSupported(belief') /\ ContextRefuted(belief'))
      /\ PresentCore # {} /\ \A type \in PresentCore : IsSupported(belief', type)
  BY <1>1, VerdictShape DEF Trusted
<1>3. \A type : /\ IsSupported(belief', type) => IsSupported(belief, type)
                /\ IsRefuted(belief, type) => IsRefuted(belief', type)
  BY TypesFollow
<1>4. WhatSupported(belief')
  BY <1>2 DEF WhatSupported, PresentCore, CoreTypes
<1>5. ~ContextRefuted(belief)
  BY <1>2, <1>3, <1>4 DEF ContextRefuted
<1> QED  BY <1>2, <1>3, <1>5, VerdictShape DEF Trusted, VerdictInvariant

\* The verdict on a case answers to its claims, whatever they are and however
\* their scores move (final_decision_aggregator.py:40-61).
THEOREM VerdictsFollow == VerdictSpec => VerdictFollowsClaims
<1>1. VerdictInvariant /\ [VerdictNext]_verdictVars =>
        [\A c \in Claims : /\ TypeOf[c] \in ContextTypes \cup {"authenticity"}
                           /\ belief'[c] > belief[c] /\ Accused'
                           => Accused]_verdictVars
  BY RisingStep
<1>2. VerdictInvariant /\ [VerdictNext]_verdictVars =>
        [\A c \in Claims : OfType("what") # {} /\ belief'[c] < belief[c] /\ Trusted' => Trusted]_verdictVars
  BY FallingStep
<1> QED  BY <1>1, <1>2, VerdictInvariantHolds, TrustedUnrefuted, PTL
            DEF VerdictSpec, VerdictFollowsClaims, RisingContextAccusesNobody, FallingBeliefTrustsNothing

-----------------------------------------------------------------------------
(* Sums.                                                                    *)

\* Some smallest of the subsets of a finite set that are of a kind.
LEMMA SmallestSubset ==
    ASSUME NEW S, IsFiniteSet(S), NEW Bad \in SUBSET (SUBSET S), Bad # {}
    PROVE  \E U \in Bad : \A T \in Bad : ~(T \subseteq U /\ T # U)
<1>1. Bad \subseteq FiniteSubsetsOf(S)
  BY FS_Subset DEF FiniteSubsetsOf
<1>2. PICK U \in Bad : \A T \in Bad : ~(<<T, U>> \in StrictSubsetOrdering(S))
  BY <1>1, FS_StrictSubsetOrderingWellFounded, WFMin
<1> QED  BY <1>2 DEF StrictSubsetOrdering

Pick(s) == CHOOSE x \in s : TRUE

SumsUpTo(f, S, g) ==
    g = [s \in SUBSET S |-> IF s = {} THEN 0 ELSE f[Pick(s)] + g[s \ {Pick(s)}]]

Sums(f, S) == CHOOSE g : SumsUpTo(f, S, g)

LEMMA SumIsOfSums == \A f, S : SumFunctionOnSet(f, S) = Sums(f, S)[S]
  BY DEF SumFunctionOnSet, FoldFunctionOnSet, MapThenFoldSet, Sums, SumsUpTo, Pick

LEMMA PickIsIn == \A s : s # {} => Pick(s) \in s
  BY DEF Pick

LEMMA SumsAgree ==
    ASSUME NEW f, NEW S, NEW T, IsFiniteSet(S), NEW g, NEW h,
           SumsUpTo(f, S, g), SumsUpTo(f, T, h), NEW s \in SUBSET (S \cap T)
    PROVE  g[s] = h[s]
<1> DEFINE Bad == {t \in SUBSET (S \cap T) : g[t] # h[t]}
<1> SUFFICES ASSUME Bad # {}  PROVE FALSE
  OBVIOUS
<1>1. Bad \in SUBSET (SUBSET S)
  OBVIOUS
<1>2. PICK U \in Bad : \A t \in Bad : ~(t \subseteq U /\ t # U)
  <2> HIDE DEF Bad
  <2> QED  BY <1>1, SmallestSubset
<1>3. U \subseteq S /\ U \subseteq T /\ g[U] # h[U]
  OBVIOUS
<1>4. /\ g[U] = IF U = {} THEN 0 ELSE f[Pick(U)] + g[U \ {Pick(U)}]
      /\ h[U] = IF U = {} THEN 0 ELSE f[Pick(U)] + h[U \ {Pick(U)}]
  BY <1>3 DEF SumsUpTo
<1>5. U # {}
  BY <1>3, <1>4
<1>6. g[U \ {Pick(U)}] = h[U \ {Pick(U)}]
  <2>1. U \ {Pick(U)} \subseteq U /\ U \ {Pick(U)} # U
    BY <1>5, PickIsIn
  <2>2. U \ {Pick(U)} \notin Bad
    <3> HIDE DEF Bad
    <3> QED  BY <1>2, <2>1
  <2> QED  BY <1>3, <2>1, <2>2
<1> QED  BY <1>3, <1>4, <1>6

LEMMA SumsExist ==
    ASSUME NEW f, NEW S, IsFiniteSet(S)
    PROVE  SumsUpTo(f, S, Sums(f, S))
<1> DEFINE Bad == {t \in SUBSET S : ~SumsUpTo(f, t, Sums(f, t))}
<1> SUFFICES ASSUME Bad # {}  PROVE FALSE
  OBVIOUS
<1>1. Bad \in SUBSET (SUBSET S)
  OBVIOUS
<1>2. PICK U \in Bad : \A t \in Bad : ~(t \subseteq U /\ t # U)
  <2> HIDE DEF Bad
  <2> QED  BY <1>1, SmallestSubset
<1>3. U \subseteq S /\ ~SumsUpTo(f, U, Sums(f, U))
  OBVIOUS
<1>4. \A t : t \subseteq U /\ t # U => SumsUpTo(f, t, Sums(f, t)) /\ IsFiniteSet(t)
  <2> SUFFICES ASSUME NEW t, t \subseteq U, t # U  PROVE SumsUpTo(f, t, Sums(f, t)) /\ IsFiniteSet(t)
    OBVIOUS
  <2>1. t \notin Bad
    <3> HIDE DEF Bad
    <3> QED  BY <1>2
  <2>2. t \in SUBSET S
    BY <1>3
  <2> QED  BY <2>1, <2>2, FS_Subset
<1> HIDE DEF Bad
<1> DEFINE g == [s \in SUBSET U |-> IF s = {} THEN 0
                                   ELSE f[Pick(s)] + Sums(f, s \ {Pick(s)})[s \ {Pick(s)}]]
<1>5. ASSUME NEW s \in SUBSET U, s # {}  PROVE g[s \ {Pick(s)}] = Sums(f, s \ {Pick(s)})[s \ {Pick(s)}]
  <2> DEFINE t == s \ {Pick(s)}
             r == t \ {Pick(t)}
  <2>1. t \subseteq U /\ t # U
    BY <1>5, PickIsIn
  <2>2. SumsUpTo(f, t, Sums(f, t)) /\ IsFiniteSet(t)
    <3> HIDE DEF t
    <3> QED  BY <1>4, <2>1
  <2>3. Sums(f, t)[t] = IF t = {} THEN 0 ELSE f[Pick(t)] + Sums(f, t)[r]
    <3>1. t \in SUBSET t
      OBVIOUS
    <3> HIDE DEF t
    <3> QED  BY <2>2, <3>1 DEF SumsUpTo
  <2>4. ASSUME t # {}  PROVE Sums(f, t)[r] = Sums(f, r)[r]
    <3>1. r \subseteq U /\ r # U /\ r \in SUBSET (t \cap r)
      <4> HIDE DEF t
      <4> QED  BY <2>1
    <3>2. SumsUpTo(f, r, Sums(f, r))
      <4> HIDE DEF r
      <4> QED  BY <1>4, <3>1
    <3> HIDE DEF r, t
    <3> QED  BY <2>2, <3>1, <3>2, SumsAgree
  <2>5. g[t] = IF t = {} THEN 0 ELSE f[Pick(t)] + Sums(f, r)[r]
    <3>1. t \in SUBSET U
      BY <2>1
    <3> HIDE DEF t
    <3> QED  BY <3>1
  <2> HIDE DEF g, t, r
  <2>6. g[t] = Sums(f, t)[t]
    BY <2>3, <2>4, <2>5
  <2> QED  BY <2>6 DEF t
<1>6. SumsUpTo(f, U, g)
  <2>1. ASSUME NEW s \in SUBSET U
        PROVE  g[s] = IF s = {} THEN 0 ELSE f[Pick(s)] + g[s \ {Pick(s)}]
    <3>1. g[s] = IF s = {} THEN 0 ELSE f[Pick(s)] + Sums(f, s \ {Pick(s)})[s \ {Pick(s)}]
      OBVIOUS
    <3> HIDE DEF g
    <3> QED  BY <1>5, <3>1
  <2>2. g = [s \in SUBSET U |-> g[s]]
    OBVIOUS
  <2> HIDE DEF g
  <2>3. [s \in SUBSET U |-> g[s]] = [s \in SUBSET U |-> IF s = {} THEN 0 ELSE f[Pick(s)] + g[s \ {Pick(s)}]]
    BY <2>1
  <2> QED  BY <2>2, <2>3 DEF SumsUpTo
<1> HIDE DEF g
<1> QED  BY <1>3, <1>6 DEF Sums

\* A sum is that of one element and of the rest.
LEMMA SumOfRest ==
    ASSUME NEW f, NEW S, IsFiniteSet(S)
    PROVE  /\ S = {} => SumFunctionOnSet(f, S) = 0
           /\ S # {} => /\ Pick(S) \in S
                        /\ SumFunctionOnSet(f, S) = f[Pick(S)] + SumFunctionOnSet(f, S \ {Pick(S)})
<1> DEFINE R == S \ {Pick(S)}
<1>1. Sums(f, S)[S] = IF S = {} THEN 0 ELSE f[Pick(S)] + Sums(f, S)[R]
  <2>1. SumsUpTo(f, S, Sums(f, S)) /\ S \in SUBSET S
    BY SumsExist
  <2> QED  BY <2>1 DEF SumsUpTo
<1>2. Sums(f, S)[R] = Sums(f, R)[R]
  <2>1. IsFiniteSet(R) /\ R \in SUBSET (S \cap R)
    BY FS_Subset
  <2>2. SumsUpTo(f, S, Sums(f, S)) /\ SumsUpTo(f, R, Sums(f, R))
    <3> HIDE DEF R
    <3> QED  BY <2>1, SumsExist
  <2> HIDE DEF R
  <2> QED  BY <2>1, <2>2, SumsAgree
<1> HIDE DEF R
<1>3. /\ S = {} => SumFunctionOnSet(f, S) = 0
      /\ S # {} => SumFunctionOnSet(f, S) = f[Pick(S)] + SumFunctionOnSet(f, R)
  BY <1>1, <1>2, SumIsOfSums
<1> QED  BY <1>3, PickIsIn DEF R

\* Sums of naturals are naturals, and larger for larger summands.
LEMMA SumsGrow ==
    ASSUME NEW S, IsFiniteSet(S), NEW f, NEW g,
           \A x \in S : f[x] \in Nat /\ g[x] \in Nat /\ f[x] <= g[x]
    PROVE  /\ SumFunctionOnSet(f, S) \in Nat /\ SumFunctionOnSet(g, S) \in Nat
           /\ SumFunctionOnSet(f, S) <= SumFunctionOnSet(g, S)
<1> DEFINE Grows(T) == /\ SumFunctionOnSet(f, T) \in Nat /\ SumFunctionOnSet(g, T) \in Nat
                       /\ SumFunctionOnSet(f, T) <= SumFunctionOnSet(g, T)
           Bad == {T \in SUBSET S : ~Grows(T)}
<1> SUFFICES ASSUME Bad # {}  PROVE FALSE
  OBVIOUS
<1>1. Bad \in SUBSET (SUBSET S)
  OBVIOUS
<1>2. PICK U \in Bad : \A T \in Bad : ~(T \subseteq U /\ T # U)
  <2> HIDE DEF Bad
  <2> QED  BY <1>1, SmallestSubset
<1>3. U \subseteq S /\ IsFiniteSet(U) /\ ~Grows(U)
  BY FS_Subset
<1> DEFINE R == U \ {Pick(U)}
<1>4. U # {}
  <2>1. U = {} => SumFunctionOnSet(f, U) = 0 /\ SumFunctionOnSet(g, U) = 0
    BY <1>3, SumOfRest
  <2> HIDE DEF Bad, R
  <2> QED  BY <1>3, <2>1
<1>5. Pick(U) \in U /\ R \subseteq U /\ R # U
  BY <1>4, PickIsIn
<1>6. Grows(R)
  <2>1. R \notin Bad
    <3> HIDE DEF Bad, R
    <3> QED  BY <1>2, <1>5
  <2> HIDE DEF R, Grows
  <2> QED  BY <1>3, <1>5, <2>1
<1>7. /\ SumFunctionOnSet(f, U) = f[Pick(U)] + SumFunctionOnSet(f, R)
      /\ SumFunctionOnSet(g, U) = g[Pick(U)] + SumFunctionOnSet(g, R)
  BY <1>3, <1>4, SumOfRest
<1>8. f[Pick(U)] \in Nat /\ g[Pick(U)] \in Nat /\ f[Pick(U)] <= g[Pick(U)]
  BY <1>3, <1>5
<1> HIDE DEF R, Bad
<1> QED  BY <1>3, <1>6, <1>7, <1>8

-----------------------------------------------------------------------------
(* The arguments of a claim.                                                *)

LEMMA Least ==
    ASSUME NEW T \in SUBSET Nat, T # {}
    PROVE  \E x \in T : \A y \in T : x <= y
<1>1. PICK x \in T : \A y \in T : ~(<<y, x>> \in OpToRel(<, Nat))
  BY WFMin, NatLessThanWellFounded
<1>2. \A y \in Nat, z \in Nat : y < z => <<y, z>> \in OpToRel(<, Nat)
  BY DEF OpToRel
<1>3. \A y \in T : ~(y < x)
  BY <1>1, <1>2
<1> QED  BY <1>3

\* A set of positions has a first and a last one.
LEMMA FirstAndLast ==
    ASSUME NEW n \in Nat, NEW S \in SUBSET (1 .. n), S # {}
    PROVE  Min(S) \in S /\ Max(S) \in S
<1>1. PICK m \in S : \A k \in S : m <= k
  <2>1. S \in SUBSET Nat
    OBVIOUS
  <2> QED  BY <2>1, Least
<1> DEFINE Left == {j \in 0 .. n : n - j \in S}
<1>2. Left # {} /\ Left \in SUBSET Nat
  <2>1. PICK k \in S : TRUE
    OBVIOUS
  <2>2. n - k \in Left
    BY <2>1
  <2>3. \A j \in Left : j \in Nat
    OBVIOUS
  <2> HIDE DEF Left
  <2> QED  BY <2>2, <2>3
<1>3. PICK d \in Left : \A e \in Left : d <= e
  <2> HIDE DEF Left
  <2> QED  BY <1>2, Least
<1>4. ASSUME NEW j \in S  PROVE n - d >= j
  <2>1. n - j \in Left
    OBVIOUS
  <2>2. d <= n - j /\ d \in Nat /\ j \in Nat
    <3> HIDE DEF Left
    <3> QED  BY <1>2, <1>3, <2>1
  <2> HIDE DEF Left
  <2> QED  BY <2>2
<1>5. n - d \in S
  BY <1>3
<1>6. Min(S) \in S
  BY <1>1 DEF Min
<1>7. Max(S) \in S
  <2> HIDE DEF Left
  <2> QED  BY <1>4, <1>5 DEF Max
<1> QED  BY <1>6, <1>7

\* An argument in use: a record that rests on evidence of the claim.
Rests(a) ==
    /\ DOMAIN a = {"text", "stance", "ev", "valid", "score", "flags"}
    /\ a.ev \subseteq usable

Settled == pc \in {"score", "clash", "decide", "done"}

OneForText(args) == \A i, j \in DOMAIN args : args[i].text = args[j].text => i = j

\* What b keeps of a.
Keeps(a, b) == b.text = a.text /\ b.stance = a.stance /\ b.ev = a.ev /\ a.flags \subseteq b.flags

ArgumentsInvariant ==
    /\ pc \in {"rank", "generate", "verify", "score", "clash", "decide", "done"}
    /\ usable \subseteq Evidence
    /\ pc = "verify" => arguments = generated
    /\ pc = "verify" \/ Settled =>
        \E n \in Nat :
            /\ DOMAIN arguments = 1 .. n /\ DOMAIN generated = 1 .. n
            /\ \A i \in 1 .. n : Rests(arguments[i])
    /\ Settled /\ features.verifier =>
        \A i \in DOMAIN arguments :
            arguments[i].valid => arguments[i].text \in judged /\ arguments[i].ev \cap usable # {}
    /\ Settled /\ OneForText(generated) =>
        \A i \in DOMAIN arguments : Keeps(generated[i], arguments[i])

\* An argument is built on the evidence that is given.
LEMMA BuiltRests ==
    ASSUME NEW text, NEW stance, NEW ev \in SUBSET usable, NEW flags, NEW memories
    PROVE  Rests(Built(text, stance, ev, flags, memories))
  BY DEF Rests, Built

LEMMA DraftsRest == \A a \in Drafts : Rests(a)
<1> SUFFICES ASSUME NEW a \in Drafts  PROVE Rests(a)
  OBVIOUS
<1>1. ASSUME a \in Uncited  PROVE Rests(a)
  <2>1. PICK text \in Texts, stance \in Stances : a = Built(text, stance, {}, {}, {"lesson"})
    BY <1>1 DEF Uncited
  <2> QED  BY <2>1, BuiltRests
<1>2. ASSUME NEW ev \in SUBSET (Evidence \cup {Invented}), a \in Citing(ev)  PROVE Rests(a)
  <2>1. PICK repaired \in RepairedEvidence(ev), text \in Texts, stance \in Stances :
               a = Built(text, stance, repaired, RepairFlags(ev, repaired), {})
    BY <1>2 DEF Citing
  <2>2. repaired \in SUBSET usable
    BY <2>1 DEF RepairedEvidence
  <2> QED  BY <2>1, <2>2, BuiltRests
<1> QED  BY <1>1, <1>2 DEF Drafts

LEMMA FallbackRests ==
    ASSUME usable \subseteq Evidence
    PROVE  /\ \A a \in FallbackArguments : Rests(a)
           /\ IsFiniteSet(FallbackArguments)
<1> DEFINE fallback(e) == Built(e, InferredStance(e), {e},
                                IF Item[e].flagged THEN {"evidence_flag"} ELSE {}, {})
<1>1. FallbackArguments = {fallback(e) : e \in usable}
  BY DEF FallbackArguments
<1>2. ASSUME NEW e \in usable  PROVE Rests(fallback(e))
  BY BuiltRests
<1>3. IsFiniteSet(usable)
  BY DecisionAssumption, FS_Subset DEF DecisionAssumption
<1>4. IsFiniteSet({fallback(e) : e \in usable})
  <2> HIDE DEF fallback
  <2>1. [e \in usable |-> fallback(e)] \in Surjection(usable, {fallback(e) : e \in usable})
    BY DEF Surjection
  <2> QED  BY <1>3, <2>1, FS_Surjection
<1> QED  BY <1>1, <1>2, <1>4

\* What generation makes.
LEMMA GenerateStep ==
    ASSUME ArgumentsInvariant, Generate
    PROVE  ArgumentsInvariant'
<1> USE DEF Generate
<1>1. \E n \in Nat : DOMAIN arguments' = 1 .. n /\ \A i \in 1 .. n : Rests(arguments'[i])
  <2>1. CASE \E n \in 1 .. MaxArguments : arguments' \in [1 .. n -> Drafts]
    <3>1. PICK n \in 1 .. MaxArguments : arguments' \in [1 .. n -> Drafts]
      BY <2>1
    <3>2. n \in Nat
      BY <3>1
    <3> QED  BY <3>1, <3>2, DraftsRest
  <2>2. CASE arguments' \in Orders(FallbackArguments)
    <3> DEFINE n == Cardinality(FallbackArguments)
    <3>1. n \in Nat
      BY FallbackRests, FS_CardinalityType DEF ArgumentsInvariant
    <3>2. arguments' \in [1 .. n -> FallbackArguments]
      BY <2>2 DEF Orders
    <3> HIDE DEF n
    <3>3. \A a \in FallbackArguments : Rests(a)
      BY FallbackRests DEF ArgumentsInvariant
    <3> QED  BY <3>1, <3>2, <3>3
  <2> QED  BY <2>1, <2>2
<1>2. \A a : Rests(a) => Rests(a)'
  BY DEF Rests
<1>3. generated' = arguments' /\ usable' = usable /\ pc' \in {"verify", "score"}
  OBVIOUS
<1>4. features.verifier \/ pc' # "verify"
  OBVIOUS
<1>5. features' = features /\ (pc' = "score" => ~features.verifier)
  OBVIOUS
<1> HIDE DEF Generate
<1>6. \A i \in DOMAIN arguments' : Keeps(generated'[i], arguments'[i])
  BY <1>3 DEF Keeps
<1> QED  BY <1>1, <1>2, <1>3, <1>5, <1>6 DEF ArgumentsInvariant, Settled, OneForText

\* A step that verifies gives every argument what ArgumentsInvariant asks.
LEMMA VerifyStep ==
    ASSUME ArgumentsInvariant, pc = "verify", pc' = "score",
           UNCHANGED <<usable, generated, features>>,
           DOMAIN arguments' = DOMAIN arguments,
           \A i \in DOMAIN arguments :
              /\ Rests(arguments'[i])
              /\ arguments'[i].valid => arguments'[i].text \in judged' /\ arguments'[i].ev # {}
              /\ OneForText(arguments) => Keeps(arguments[i], arguments'[i])
    PROVE  ArgumentsInvariant'
<1>1. arguments = generated
  BY DEF ArgumentsInvariant
<1>2. \A a : Rests(a) => Rests(a)' /\ a.ev \subseteq usable
  BY DEF Rests
<1>3. PICK n \in Nat : DOMAIN arguments = 1 .. n /\ DOMAIN generated = 1 .. n
  BY DEF ArgumentsInvariant
<1>4. /\ DOMAIN arguments' = 1 .. n /\ DOMAIN generated' = 1 .. n
      /\ \A i \in 1 .. n : Rests(arguments'[i])
  BY <1>3
<1>5. \A i \in DOMAIN arguments' :
          arguments'[i].valid => arguments'[i].text \in judged' /\ arguments'[i].ev \cap usable' # {}
  BY <1>2
<1>6. OneForText(generated)' => \A i \in DOMAIN arguments' : Keeps(generated'[i], arguments'[i])
  BY <1>1 DEF OneForText
<1> QED  BY <1>2, <1>4, <1>5, <1>6 DEF ArgumentsInvariant, Settled

LEMMA UnlinkedRests ==
    ASSUME NEW a, Rests(a)
    PROVE  Rests(Unlinked(a)) /\ ~Unlinked(a).valid /\ Keeps(a, Unlinked(a))
  BY DEF Rests, Unlinked, Keeps

LEMMA AloneRests ==
    ASSUME NEW a, Rests(a), NEW answer \in {"valid", "invalid", "failed"}
    PROVE  /\ Rests(VerifiedAlone(a, answer)) /\ Keeps(a, VerifiedAlone(a, answer))
           /\ VerifiedAlone(a, answer).valid => answer = "valid" /\ a.ev # {}
<1>1. CASE a.ev = {}
  BY <1>1, UnlinkedRests DEF VerifiedAlone
<1>2. CASE a.ev # {} /\ answer = "failed"
  BY <1>2 DEF VerifiedAlone, Rests, Keeps
<1>3. CASE a.ev # {} /\ answer # "failed"
  BY <1>3 DEF VerifiedAlone, Rests, Keeps
<1> QED  BY <1>1, <1>2, <1>3

LEMMA VerifyEachStep ==
    ASSUME ArgumentsInvariant, VerifyEach
    PROVE  ArgumentsInvariant'
<1> DEFINE told(answer) == {arguments[i].text : i \in {j \in DOMAIN arguments : answer[j] = "valid"}}
<1>1. PICK answer \in [DOMAIN arguments -> {"valid", "invalid", "failed"}] :
        /\ arguments' = [i \in DOMAIN arguments |-> VerifiedAlone(arguments[i], answer[i])]
        /\ judged' = told(answer)
  BY DEF VerifyEach
<1>2. ASSUME NEW i \in DOMAIN arguments
      PROVE  /\ Rests(arguments'[i])
             /\ arguments'[i].valid => arguments'[i].text \in judged' /\ arguments'[i].ev # {}
             /\ Keeps(arguments[i], arguments'[i])
  <2>1. Rests(arguments[i])
    BY DEF ArgumentsInvariant, VerifyEach
  <2>2. arguments'[i] = VerifiedAlone(arguments[i], answer[i]) /\ answer[i] \in {"valid", "invalid", "failed"}
    BY <1>1
  <2>3. answer[i] = "valid" => arguments[i].text \in judged'
    BY <1>1
  <2> QED  BY <2>1, <2>2, <2>3, AloneRests DEF Keeps
<1>3. DOMAIN arguments' = DOMAIN arguments
  BY <1>1
<1> QED  BY <1>2, <1>3, VerifyStep DEF VerifyEach

LEMMA VerifyParallelStep ==
    ASSUME ArgumentsInvariant, VerifyParallel
    PROVE  ArgumentsInvariant'
<1> DEFINE told(answer) == {arguments[i].text : i \in {j \in DOMAIN arguments : answer[j] = "valid"}}
<1>1. PICK answer \in [DOMAIN arguments -> {"valid", "invalid", "failed"}],
           last \in [DOMAIN arguments -> DOMAIN arguments] :
        /\ \A i \in DOMAIN arguments : arguments[last[i]].text = arguments[i].text
        /\ arguments' = [i \in DOMAIN arguments |-> VerifiedAlone(arguments[last[i]], answer[last[i]])]
        /\ judged' = told(answer)
  BY DEF VerifyParallel
<1>2. ASSUME NEW i \in DOMAIN arguments
      PROVE  /\ Rests(arguments'[i])
             /\ arguments'[i].valid => arguments'[i].text \in judged' /\ arguments'[i].ev # {}
             /\ OneForText(arguments) => Keeps(arguments[i], arguments'[i])
  <2> DEFINE k == last[i]
  <2>1. k \in DOMAIN arguments /\ arguments[k].text = arguments[i].text
    BY <1>1
  <2>2. arguments'[i] = VerifiedAlone(arguments[k], answer[k]) /\ answer[k] \in {"valid", "invalid", "failed"}
    BY <1>1
  <2> HIDE DEF k
  <2>3. Rests(arguments[k])
    BY <2>1 DEF ArgumentsInvariant, VerifyParallel
  <2>4. answer[k] = "valid" => arguments[k].text \in judged'
    BY <1>1, <2>1
  <2>5. OneForText(arguments) => k = i
    BY <2>1 DEF OneForText
  <2> QED  BY <2>2, <2>3, <2>4, <2>5, AloneRests DEF Keeps
<1>3. DOMAIN arguments' = DOMAIN arguments
  BY <1>1
<1> QED  BY <1>2, <1>3, VerifyStep DEF VerifyParallel

\* The argument kept for a text says it, and rests on evidence if all do that say it.
LEMMA KeptSaysIt ==
    ASSUME ArgumentsInvariant, pc = "verify", NEW i \in DOMAIN arguments
    PROVE  \E k \in DOMAIN arguments :
              /\ KeptFor(arguments[i].text) = arguments[k] /\ arguments[k].text = arguments[i].text
              /\ arguments[k].ev # {} => UnlinkedWith(arguments[i].text) = {}
<1> DEFINE t == arguments[i].text
<1>1. PICK n \in Nat : DOMAIN arguments = 1 .. n
  BY DEF ArgumentsInvariant
<1>2. WithText(t) \in SUBSET (1 .. n) /\ UnlinkedWith(t) \in SUBSET (1 .. n) /\ i \in WithText(t)
  BY <1>1 DEF WithText, UnlinkedWith
<1>3. CASE UnlinkedWith(t) # {}
  <2>1. Max(UnlinkedWith(t)) \in UnlinkedWith(t)
    BY <1>2, <1>3, FirstAndLast
  <2> QED  BY <1>3, <2>1 DEF KeptFor, UnlinkedWith, WithText
<1>4. CASE UnlinkedWith(t) = {}
  <2>1. Min(WithText(t)) \in WithText(t)
    BY <1>2, FirstAndLast
  <2> QED  BY <1>4, <2>1 DEF KeptFor, WithText
<1> QED  BY <1>3, <1>4

LEMMA VerifyBatchStep ==
    ASSUME ArgumentsInvariant, VerifyBatch
    PROVE  ArgumentsInvariant'
<1>1. PICK valid \in SUBSET LinkedTexts : arguments' = VerifiedTogether(valid) /\ judged' = valid
  BY DEF VerifyBatch
<1>2. DOMAIN arguments' = DOMAIN arguments
  BY <1>1 DEF VerifiedTogether
<1>3. ASSUME NEW i \in DOMAIN arguments
      PROVE  /\ Rests(arguments'[i])
             /\ arguments'[i].valid => arguments'[i].text \in judged' /\ arguments'[i].ev # {}
             /\ OneForText(arguments) => Keeps(arguments[i], arguments'[i])
  <2>1. PICK k \in DOMAIN arguments :
              KeptFor(arguments[i].text) = arguments[k] /\ arguments[k].text = arguments[i].text
    BY KeptSaysIt DEF VerifyBatch
  <2> DEFINE a == arguments[k]
  <2>2. Rests(a)
    BY <2>1 DEF ArgumentsInvariant, VerifyBatch
  <2>3. arguments'[i] = IF a.ev = {} THEN Unlinked(a) ELSE [a EXCEPT !.valid = a.text \in valid]
    BY <1>1, <2>1 DEF VerifiedTogether
  <2>4. OneForText(arguments) => a = arguments[i]
    BY <2>1 DEF OneForText
  <2> HIDE DEF a
  <2>5. CASE a.ev = {}
    BY <2>2, <2>3, <2>4, <2>5, UnlinkedRests
  <2>6. CASE a.ev # {}
    BY <1>1, <2>2, <2>3, <2>4, <2>6 DEF Rests, Keeps
  <2> QED  BY <2>5, <2>6
<1> QED  BY <1>2, <1>3, VerifyStep DEF VerifyBatch

\* Scores and flags that are added leave the rest of an argument alone.
Rescored(args) ==
    /\ DOMAIN args = DOMAIN arguments
    /\ \A i \in DOMAIN arguments :
          Rests(arguments[i]) =>
              /\ Rests(args[i]) /\ Keeps(arguments[i], args[i])
              /\ args[i].valid = arguments[i].valid

LEMMA RescoredStep ==
    ASSUME ArgumentsInvariant, Settled, Settled', Rescored(arguments'),
           UNCHANGED <<usable, generated, features, judged>>
    PROVE  ArgumentsInvariant'
<1>1. PICK n \in Nat : /\ DOMAIN arguments = 1 .. n /\ DOMAIN generated = 1 .. n
                       /\ \A i \in 1 .. n : Rests(arguments[i])
  BY DEF ArgumentsInvariant
<1>2. \A i \in 1 .. n : /\ Rests(arguments'[i]) /\ Keeps(arguments[i], arguments'[i])
                        /\ arguments'[i].valid = arguments[i].valid
  BY <1>1 DEF Rescored
<1>3. DOMAIN arguments' = 1 .. n /\ DOMAIN generated' = 1 .. n
  BY <1>1 DEF Rescored
<1>4. \A a : Rests(a) => Rests(a)'
  BY DEF Rests
<1>5. features.verifier => \A i \in 1 .. n :
          arguments'[i].valid => arguments'[i].text \in judged' /\ arguments'[i].ev \cap usable' # {}
  BY <1>1, <1>2 DEF ArgumentsInvariant, Keeps
<1>6. OneForText(generated)' => \A i \in 1 .. n : Keeps(generated'[i], arguments'[i])
  BY <1>1, <1>2 DEF ArgumentsInvariant, Keeps, OneForText
<1> QED  BY <1>2, <1>3, <1>4, <1>5, <1>6 DEF ArgumentsInvariant, Settled

LEMMA ScoredRescores ==
    ASSUME NEW args, Rescored(args), \A i \in DOMAIN args : Rests(arguments[i])
    PROVE  Rescored(Scored(args))
<1>1. DOMAIN Scored(args) = DOMAIN arguments
  BY DEF Scored, Rescored
<1>2. ASSUME NEW i \in DOMAIN arguments
      PROVE  /\ Rests(Scored(args)[i]) /\ Keeps(arguments[i], Scored(args)[i])
             /\ Scored(args)[i].valid = arguments[i].valid
  <2>1. /\ Rests(args[i]) /\ Keeps(arguments[i], args[i]) /\ args[i].valid = arguments[i].valid
    BY DEF Rescored
  <2>2. Scored(args)[i] = [args[i] EXCEPT !.score = ScoreOf(args[i])]
    BY DEF Scored, Rescored
  <2> QED  BY <2>1, <2>2 DEF Rests, Keeps
<1> QED  BY <1>1, <1>2 DEF Rescored

LEMMA ArgumentsInvariantHolds == Spec => []ArgumentsInvariant
<1>1. Init => ArgumentsInvariant
  BY DEF Init, ArgumentsInvariant, Settled
<1>2. ArgumentsInvariant /\ [Next]_vars => ArgumentsInvariant'
  <2> SUFFICES ASSUME ArgumentsInvariant, [Next]_vars  PROVE ArgumentsInvariant'
    OBVIOUS
  <2>1. CASE Rank
    <3>1. usable' \subseteq Evidence
      BY <2>1 DEF Rank, Selected, Usable
    <3> QED  BY <2>1, <3>1 DEF Rank, ArgumentsInvariant, Settled
  <2>2. CASE Settled /\ Settled' /\ UNCHANGED <<usable, arguments, generated, features, judged>>
    <3>1. Rescored(arguments)
      BY DEF Rescored, Keeps
    <3> QED  BY <2>2, <3>1, RescoredStep DEF Rescored
  <2>3. CASE ScoreArguments
    <3>1. Settled /\ Settled' /\ UNCHANGED <<usable, generated, features, judged>>
      BY <2>3 DEF ScoreArguments, Settled
    <3>2. Rescored(arguments) /\ \A i \in DOMAIN arguments : Rests(arguments[i])
      BY <3>1 DEF Rescored, Keeps, ArgumentsInvariant
    <3>3. Rescored(arguments')
      BY <2>3, <3>2, ScoredRescores DEF ScoreArguments
    <3> QED  BY <3>1, <3>3, RescoredStep
  <2>4. CASE ResolveClash
    <3> DEFINE flagged == [i \in DOMAIN arguments |-> Clashing(arguments[i])]
    <3>1. Settled /\ Settled' /\ UNCHANGED <<usable, generated, features, judged>>
      BY <2>4 DEF ResolveClash, Settled
    <3>2. \A i \in DOMAIN arguments : Rests(arguments[i])
      BY <3>1 DEF ArgumentsInvariant
    <3>3. Rescored(flagged)
      BY DEF Rescored, Keeps, Clashing, Rests
    <3>4. Rescored(arguments')
      BY <2>4, <3>2, <3>3, ScoredRescores DEF ResolveClash
    <3> QED  BY <3>1, <3>4, RescoredStep
  <2>5. CASE NoClash \/ Decide
    BY <2>2, <2>5 DEF NoClash, Decide, Settled
  <2>6. CASE UNCHANGED vars
    BY <2>6 DEF vars, ArgumentsInvariant, Settled, Rests
  <2> QED  BY <2>1, <2>3, <2>4, <2>5, <2>6, GenerateStep, VerifyBatchStep, VerifyEachStep,
              VerifyParallelStep DEF Next
<1> QED  BY <1>1, <1>2, PTL DEF Spec

\* However verification fails, no argument counts as valid that was not judged so,
\* and none is lost where no two have one text (argument_verifier.py:53-61,
\* main.py:892-934).
THEOREM VerdictsOwn == Spec => []VerdictsAreOwn
<1>1. ArgumentsInvariant => VerdictsAreOwn
  <2> SUFFICES ASSUME ArgumentsInvariant, pc = "done"  PROVE VerdictsAreOwn
    BY DEF VerdictsAreOwn, ValidWasJudged, ArgumentsKept
  <2>1. PICK n \in Nat : DOMAIN arguments = 1 .. n /\ DOMAIN generated = 1 .. n
    BY DEF ArgumentsInvariant, Settled
  <2>2. Len(arguments) = Len(generated)
    BY <2>1
  <2>3. ValidWasJudged
    BY DEF ArgumentsInvariant, Settled, ValidWasJudged
  <2>4. ArgumentsKept
    BY <2>1, <2>2 DEF ArgumentsInvariant, Settled, ArgumentsKept, OneForText, Keeps
  <2> QED  BY <2>3, <2>4 DEF VerdictsAreOwn
<1> QED  BY <1>1, ArgumentsInvariantHolds, PTL

-----------------------------------------------------------------------------
(* The score of a claim.                                                    *)

LEMMA LessOfTwo ==
    ASSUME NEW a \in Int, NEW b \in Int
    PROVE  Min({a, b}) = IF a <= b THEN a ELSE b
<1>1. \E x \in {a, b} : \A y \in {a, b} : x <= y
  OBVIOUS
<1>2. Min({a, b}) \in {a, b} /\ \A y \in {a, b} : Min({a, b}) <= y
  BY <1>1 DEF Min
<1> QED  BY <1>2

LEMMA Quotient ==
    ASSUME NEW a \in Nat, NEW b \in Nat \ {0}
    PROVE  a \div b \in Nat /\ b * (a \div b) <= a /\ a < b * (a \div b) + b
  OBVIOUS

\* A quotient is at least k if k divisors fit.
LEMMA QuotientAtLeast ==
    ASSUME NEW a \in Nat, NEW b \in Nat \ {0}, NEW k \in Nat
    PROVE  k <= a \div b <=> k * b <= a
<1> DEFINE q == a \div b
<1>1. q \in Nat /\ b * q <= a /\ a < b * q + b
  BY Quotient
<1> HIDE DEF q
<1>2. CASE k <= q
  <2>1. k * b <= q * b
    BY <1>1, <1>2
  <2> QED  BY <1>1, <1>2, <2>1
<1>3. CASE q + 1 <= k
  <2>1. (q + 1) * b <= k * b
    BY <1>1, <1>3
  <2> QED  BY <1>1, <1>3, <2>1
<1> QED  BY <1>1, <1>2, <1>3 DEF q

\* A larger part of a smaller whole is a larger quotient.
LEMMA QuotientGrows ==
    ASSUME NEW a \in Nat, NEW b \in Nat \ {0}, NEW c \in Nat, NEW d \in Nat \ {0}, a * d <= c * b
    PROVE  a \div b <= c \div d
<1> DEFINE q == a \div b
<1>1. q \in Nat /\ b * q <= a
  BY Quotient
<1> HIDE DEF q
<1>2. (b * q) * d <= a * d
  BY <1>1
<1>3. b * (q * d) <= b * c
  BY <1>1, <1>2
<1>4. q * d <= c
  BY <1>1, <1>3
<1> QED  BY <1>1, <1>4, QuotientAtLeast DEF q

LEMMA HGrows ==
    ASSUME NEW x \in Nat, NEW y \in Nat, x <= y
    PROVE  H(x) \in Nat /\ H(x) <= One /\ H(x) <= H(y)
<1> DEFINE u == Min({x, 4 * One})
           v == Min({y, 4 * One})
           s == (u * u) \div One
           t == (v * v) \div One
<1>1. u \in Nat /\ v \in Nat /\ u <= v
  <2>1. 4 * One \in Int
    BY DEF One
  <2>2. /\ u = IF x <= 4 * One THEN x ELSE 4 * One
        /\ v = IF y <= 4 * One THEN y ELSE 4 * One
    BY <2>1, LessOfTwo
  <2> QED  BY <2>2 DEF One
<1> HIDE DEF u, v
<1>2. u * u \in Nat /\ v * v \in Nat /\ u * u <= v * v
  <2>1. u * u <= u * v /\ u * v <= v * v
    BY <1>1
  <2> QED  BY <1>1, <2>1
<1>3. s \in Nat /\ t \in Nat /\ s <= t
  BY <1>2, QuotientGrows, Quotient DEF One
<1> HIDE DEF s, t
<1> DEFINE p == (One * s) \div (One + s)
           q == (One * t) \div (One + t)
<1>4. H(x) = p /\ H(y) = q
  BY DEF H, s, t, u, v
<1>5. /\ One * s \in Nat /\ One + s \in Nat \ {0}
      /\ One * t \in Nat /\ One + t \in Nat \ {0}
  BY <1>3 DEF One
<1>6. (One * s) * (One + t) <= (One * t) * (One + s)
  BY <1>3 DEF One
<1>7. p <= q
  BY <1>5, <1>6, QuotientGrows
<1>8. p \in Nat /\ p <= One
  <2>1. p \in Nat
    BY <1>5, Quotient
  <2>2. ~(One + 1 <= p)
    <3>1. ~((One + 1) * (One + s) <= One * s)
      BY <1>3 DEF One
    <3>2. One + 1 \in Nat
      BY DEF One
    <3> QED  BY <1>5, <3>1, <3>2, QuotientAtLeast
  <2> HIDE DEF p
  <2> QED  BY <2>1, <2>2 DEF One
<1> QED  BY <1>4, <1>7, <1>8

LEMMA HSmall == H(0) = 0 /\ \A x \in 0 .. 1000 : H(x) <= 99
<1>1. H(0) = 0
  <2>1. Min({0, 4 * One}) = 0
    BY LessOfTwo DEF One
  <2> QED  BY <2>1 DEF H, One
<1>2. H(1000) = 99
  <2>1. Min({1000, 4 * One}) = 1000
    BY LessOfTwo DEF One
  <2> QED  BY <2>1 DEF H, One
<1>3. ASSUME NEW x \in 0 .. 1000  PROVE H(x) <= 99
  <2>1. x \in Nat /\ x <= 1000
    OBVIOUS
  <2>2. H(x) \in Nat /\ H(x) <= H(1000)
    BY <2>1, HGrows
  <2> QED  BY <1>2, <2>2 DEF One
<1> QED  BY <1>1, <1>3

LEMMA AverageType ==
    ASSUME NEW S, IsFiniteSet(S), S # {}, NEW f, DOMAIN f = S, \A x \in S : f[x] \in Nat
    PROVE  Average(f) \in Nat
<1>1. SumFunctionOnSet(f, S) \in Nat
  BY SumsGrow
<1>2. Cardinality(S) \in Nat \ {0}
  BY FS_CardinalityType, FS_EmptySet
<1>3. Average(f) = SumFunctionOnSet(f, S) \div Cardinality(S)
  BY DEF Average, SumFunction
<1> QED  BY <1>1, <1>2, <1>3, Quotient

LEMMA PartCounts ==
    ASSUME NEW S, IsFiniteSet(S), NEW f
    PROVE  Cardinality({f[x] : x \in S}) \in Nat
<1>1. [x \in S |-> f[x]] \in Surjection(S, {f[x] : x \in S})
  BY DEF Surjection
<1> QED  BY <1>1, FS_Surjection, FS_CardinalityType

LEMMA ScoreType ==
    ASSUME NEW a, usable \subseteq Evidence
    PROVE  ScoreOf(a) \in Nat
<1> DEFINE linked == a.ev \cap usable
           traced == {e \in linked : Item[e].provenance}
           sources == {Item[e].source : e \in linked}
           modalities == {Item[e].type : e \in linked}
<1>1. IsFiniteSet(linked) /\ linked \subseteq Evidence
  BY FS_Subset, DecisionAssumption DEF DecisionAssumption
<1>2. Cardinality(linked) \in Nat /\ (linked # {} => Cardinality(linked) \in Nat \ {0})
  BY <1>1, FS_CardinalityType, FS_EmptySet
<1>3. Cardinality(sources) \in Nat /\ Cardinality(modalities) \in Nat
  <2> DEFINE source == [e \in linked |-> Item[e].source]
             type == [e \in linked |-> Item[e].type]
  <2>1. sources = {source[e] : e \in linked} /\ modalities = {type[e] : e \in linked}
    OBVIOUS
  <2> HIDE DEF source, type, linked, sources, modalities
  <2> QED  BY <1>1, <2>1, PartCounts
<1>4. Cardinality(traced) \in Nat
  BY <1>1, FS_Subset, FS_CardinalityType
<1>5. \A e \in linked : Item[e].reliability \in Nat /\ Item[e].relevance \in Nat
  <2>1. \A e \in Evidence : {Item[e].reliability, Item[e].relevance} \subseteq 0 .. 100
    BY DecisionAssumption DEF DecisionAssumption
  <2> QED  BY <1>1, <2>1
<1> DEFINE reliability == [e \in linked |-> Item[e].reliability]
           relevance == [e \in linked |-> Item[e].relevance]
<1>6. linked # {} => Average(reliability) \in Nat /\ Average(relevance) \in Nat
  <2>1. /\ DOMAIN reliability = linked /\ \A e \in linked : reliability[e] \in Nat
        /\ DOMAIN relevance = linked /\ \A e \in linked : relevance[e] \in Nat
    BY <1>5
  <2> HIDE DEF linked, reliability, relevance
  <2> QED  BY <1>1, <2>1, AverageType
<1> DEFINE fromSources == Min({(100 * Cardinality(sources)) \div 3, 100})
           fromModalities == Min({(100 * Cardinality(modalities)) \div 2, 100})
           fromTraces == (100 * Cardinality(traced)) \div Cardinality(linked)
<1>7. fromSources \in Nat /\ fromModalities \in Nat
  <2> HIDE DEF sources, modalities
  <2>1. (100 * Cardinality(sources)) \div 3 \in Nat /\ (100 * Cardinality(modalities)) \div 2 \in Nat
    BY <1>3
  <2> QED  BY <2>1, LessOfTwo
<1>8. linked # {} => fromTraces \in Nat
  <2> HIDE DEF linked, traced
  <2>1. 100 * Cardinality(traced) \in Nat
    BY <1>4
  <2> QED  BY <1>2, <2>1, Quotient
<1>9. Attributes(a) = IF linked = {} THEN 50 * (20 + 25 + 15 + 20)
                      ELSE 20 * Average(reliability) + 25 * Average(relevance)
                           + 15 * fromSources + 15 * fromModalities + 20 * fromTraces
  BY DEF Attributes
<1>10. Attributes(a) \in Nat
  <2> HIDE DEF linked, reliability, relevance, fromSources, fromModalities, fromTraces
  <2> QED  BY <1>6, <1>7, <1>8, <1>9
<1> HIDE DEF linked
<1>11. (Attributes(a) + 5 * 25) \div 4 \in Nat
  BY <1>10
<1> DEFINE doubted == IF a.valid THEN Attributes(a) + 5 * 25 ELSE (Attributes(a) + 5 * 25) \div 4
<1>12. doubted \in Nat
  BY <1>10, <1>11
<1> HIDE DEF doubted
<1>13. (85 * doubted) \div 100 \in Nat
  BY <1>12
<1> QED  BY <1>12, <1>13 DEF ScoreOf, doubted

\* Arguments that are scored.
Weighed(args) ==
    \E n \in Nat : DOMAIN args = 1 .. n /\ \A i \in 1 .. n : args[i].score \in Nat

\* A side is as heavy as its arguments.
LEMMA WeightsGrow ==
    ASSUME NEW args, NEW others, NEW stance, Weighed(args), Weighed(others),
           DOMAIN args = DOMAIN others,
           \A i \in DOMAIN args :
              /\ others[i].stance = args[i].stance
              /\ args[i].stance = stance => args[i].score <= others[i].score
    PROVE  WeightOf(args, stance) \in Nat /\ WeightOf(args, stance) <= WeightOf(others, stance)
<1> DEFINE S == {i \in DOMAIN args : args[i].stance = stance}
           f == [i \in DOMAIN args |-> args[i].score]
           g == [i \in DOMAIN others |-> others[i].score]
<1>1. IsFiniteSet(S)
  <2>1. PICK n \in Nat : DOMAIN args = 1 .. n
    BY DEF Weighed
  <2>2. IsFiniteSet(1 .. n)
    BY FS_Interval
  <2> QED  BY <2>1, <2>2, FS_Subset
<1>2. \A i \in S : f[i] \in Nat /\ g[i] \in Nat /\ f[i] <= g[i]
  BY DEF Weighed
<1>3. S = {i \in DOMAIN others : others[i].stance = stance}
  OBVIOUS
<1>4. WeightOf(args, stance) = SumFunctionOnSet(f, S) /\ WeightOf(others, stance) = SumFunctionOnSet(g, S)
  BY <1>3 DEF WeightOf
<1> HIDE DEF S, f, g
<1> QED  BY <1>1, <1>2, <1>4, SumsGrow

Pulled(support, attack) ==
    IF support >= attack THEN One \div 2 + H(support - attack) \div 2
    ELSE One \div 2 - H(attack - support) \div 2

LEMMA Halves ==
    ASSUME NEW p \in Nat, NEW q \in Nat, p <= One, q <= One
    PROVE  /\ p \div 2 \in Nat /\ p \div 2 <= 5000 /\ q \div 2 \in Nat /\ q \div 2 <= 5000
           /\ One \div 2 = 5000 /\ One = 10000
           /\ p <= q => p \div 2 <= q \div 2
  BY DEF One

LEMMA PulledGrows ==
    ASSUME NEW s \in Nat, NEW a \in Nat, NEW t \in Nat, NEW b \in Nat, s <= t, b <= a
    PROVE  Pulled(s, a) \in Nat /\ Pulled(s, a) <= One /\ Pulled(s, a) <= Pulled(t, b)
<1> DEFINE up == H(s - a)
           down == H(a - s)
           up2 == H(t - b)
           down2 == H(b - t)
<1>1. CASE s >= a
  <2>1. s - a \in Nat /\ t - b \in Nat /\ s - a <= t - b
    BY <1>1
  <2>2. up \in Nat /\ up <= One /\ up <= up2 /\ up2 \in Nat /\ up2 <= One
    BY <2>1, HGrows
  <2>3. Pulled(s, a) = One \div 2 + up \div 2 /\ Pulled(t, b) = One \div 2 + up2 \div 2
    BY <1>1 DEF Pulled
  <2> HIDE DEF up, up2
  <2> QED  BY <2>2, <2>3, Halves
<1>2. CASE ~(s >= a) /\ t >= b
  <2>1. a - s \in Nat /\ t - b \in Nat
    BY <1>2
  <2>2. down \in Nat /\ down <= One /\ up2 \in Nat /\ up2 <= One
    BY <2>1, HGrows
  <2>3. Pulled(s, a) = One \div 2 - down \div 2 /\ Pulled(t, b) = One \div 2 + up2 \div 2
    BY <1>2 DEF Pulled
  <2> HIDE DEF down, up2
  <2> QED  BY <2>2, <2>3, Halves
<1>3. CASE ~(s >= a) /\ ~(t >= b)
  <2>1. a - s \in Nat /\ b - t \in Nat /\ b - t <= a - s
    BY <1>3
  <2>2. down2 \in Nat /\ down2 <= One /\ down2 <= down /\ down \in Nat /\ down <= One
    BY <2>1, HGrows
  <2>3. Pulled(s, a) = One \div 2 - down \div 2 /\ Pulled(t, b) = One \div 2 - down2 \div 2
    BY <1>3 DEF Pulled
  <2> HIDE DEF down, down2
  <2> QED  BY <2>2, <2>3, Halves
<1> QED  BY <1>1, <1>2, <1>3

Smoothed(support, attack) == (One * (One + support)) \div (2 * One + support + attack)

LEMMA SmoothedGrows ==
    ASSUME NEW s \in Nat, NEW a \in Nat, NEW t \in Nat, NEW b \in Nat, s <= t, b <= a
    PROVE  Smoothed(s, a) \in Nat /\ Smoothed(s, a) <= Smoothed(t, b)
<1>1. /\ One * (One + s) \in Nat /\ 2 * One + s + a \in Nat \ {0}
      /\ One * (One + t) \in Nat /\ 2 * One + t + b \in Nat \ {0}
  BY DEF One
<1>2. (One + s) * (One + b) <= (One + t) * (One + a)
  <2>1. (One + s) * (One + b) <= (One + t) * (One + b)
    BY DEF One
  <2>2. (One + t) * (One + b) <= (One + t) * (One + a)
    BY DEF One
  <2> QED  BY <2>1, <2>2 DEF One
<1>3. (One + s) * (2 * One + t + b) <= (One + t) * (2 * One + s + a)
  BY <1>2 DEF One
<1>4. (One * (One + s)) * (2 * One + t + b) <= (One * (One + t)) * (2 * One + s + a)
  BY <1>3 DEF One
<1> QED  BY <1>1, <1>4, QuotientGrows, Quotient DEF Smoothed

LEMMA ClaimScoreIs ==
    \A args : /\ Propagated(args) = Pulled(WeightOf(args, "support"), WeightOf(args, "attack"))
              /\ LaplaceMean(args) = Smoothed(WeightOf(args, "support"), WeightOf(args, "attack"))
  BY DEF Propagated, Pulled, LaplaceMean, Smoothed

\* What is for a claim raises its score, what is against it lowers it.
LEMMA ClaimScoreGrows ==
    ASSUME NEW args, NEW others, Weighed(args), Weighed(others),
           WeightOf(args, "support") <= WeightOf(others, "support"),
           WeightOf(others, "attack") <= WeightOf(args, "attack")
    PROVE  ClaimScore(args) \in Nat /\ ClaimScore(args) <= ClaimScore(others)
<1>1. /\ WeightOf(args, "support") \in Nat /\ WeightOf(args, "attack") \in Nat
      /\ WeightOf(others, "support") \in Nat /\ WeightOf(others, "attack") \in Nat
  BY WeightsGrow DEF Weighed
<1>2. Propagated(args) \in Nat /\ Propagated(args) <= Propagated(others)
  <2>1. Pulled(WeightOf(args, "support"), WeightOf(args, "attack")) \in Nat
    BY <1>1, PulledGrows
  <2>2. Propagated(args) \in Nat
    BY <2>1, ClaimScoreIs
  <2>3. Pulled(WeightOf(args, "support"), WeightOf(args, "attack"))
            <= Pulled(WeightOf(others, "support"), WeightOf(others, "attack"))
    BY <1>1, PulledGrows
  <2> QED  BY <2>2, <2>3, ClaimScoreIs
<1>3. LaplaceMean(args) \in Nat /\ LaplaceMean(args) <= LaplaceMean(others)
  BY <1>1, SmoothedGrows, ClaimScoreIs
<1> QED  BY <1>2, <1>3 DEF ClaimScore

\* To exchange the sides is to exchange their weights.
LEMMA TurnedWeights ==
    ASSUME NEW args, \A i \in DOMAIN args : Rests(args[i])
    PROVE  /\ WeightOf(Turned(args), "support") = WeightOf(args, "attack")
           /\ WeightOf(Turned(args), "attack") = WeightOf(args, "support")
<1>1. DOMAIN Turned(args) = DOMAIN args
  BY DEF Turned
<1>2. ASSUME NEW i \in DOMAIN args
      PROVE  /\ Turned(args)[i].score = args[i].score
             /\ Turned(args)[i].stance = "support" <=> args[i].stance = "attack"
             /\ Turned(args)[i].stance = "attack" <=> args[i].stance = "support"
  <2> DEFINE turned(s) == CASE s = "support" -> "attack" [] s = "attack" -> "support" [] OTHER -> s
  <2>1. Turned(args)[i] = [args[i] EXCEPT !.stance = turned(args[i].stance)]
    BY DEF Turned
  <2>2. Turned(args)[i].score = args[i].score /\ Turned(args)[i].stance = turned(args[i].stance)
    <3> HIDE DEF turned
    <3> QED  BY <2>1 DEF Rests
  <2> QED  BY <2>2
<1>3. [i \in DOMAIN Turned(args) |-> Turned(args)[i].score] = [i \in DOMAIN args |-> args[i].score]
  BY <1>1, <1>2
<1>4. /\ {i \in DOMAIN Turned(args) : Turned(args)[i].stance = "support"} = {i \in DOMAIN args : args[i].stance = "attack"}
      /\ {i \in DOMAIN Turned(args) : Turned(args)[i].stance = "attack"} = {i \in DOMAIN args : args[i].stance = "support"}
  BY <1>1, <1>2
<1> QED  BY <1>3, <1>4 DEF WeightOf

\* The thresholds lie alike on both sides of the middle.
LEMMA StatusTurns ==
    ASSUME NEW s \in Nat, NEW a \in Nat
    PROVE  StatusOf(Pulled(a, s)) = OppositeOf(StatusOf(Pulled(s, a)))
<1>1. ASSUME NEW h \in Nat, h <= One
      PROVE  /\ StatusOf(One \div 2 - h \div 2) = OppositeOf(StatusOf(One \div 2 + h \div 2))
             /\ StatusOf(One \div 2 + h \div 2) = OppositeOf(StatusOf(One \div 2 - h \div 2))
  <2> DEFINE k == h \div 2
  <2>1. k \in Nat /\ k <= 5000 /\ One \div 2 = 5000
    BY <1>1, Halves
  <2> HIDE DEF k
  <2>2. CASE k <= 500
    <3>1. StatusOf(5000 + k) = "uncertain" /\ StatusOf(5000 - k) = "uncertain"
      BY <2>1, <2>2 DEF StatusOf
    <3> QED  BY <2>1, <3>1 DEF OppositeOf, k
  <2>3. CASE 500 < k /\ k <= 2000
    <3>1. StatusOf(5000 + k) = "weakly_supported" /\ StatusOf(5000 - k) = "weakly_refuted"
      BY <2>1, <2>3 DEF StatusOf
    <3> QED  BY <2>1, <3>1 DEF OppositeOf, k
  <2>4. CASE 2000 < k
    <3>1. StatusOf(5000 + k) = "supported" /\ StatusOf(5000 - k) = "refuted"
      BY <2>1, <2>4 DEF StatusOf
    <3> QED  BY <2>1, <3>1 DEF OppositeOf, k
  <2> QED  BY <2>1, <2>2, <2>3, <2>4
<1>2. CASE s = a
  <2>1. Pulled(s, a) = One \div 2 + H(0) \div 2 /\ Pulled(a, s) = One \div 2 + H(0) \div 2
    BY <1>2 DEF Pulled
  <2>2. Pulled(s, a) = 5000 /\ Pulled(a, s) = 5000
    BY <2>1, HSmall DEF One
  <2> QED  BY <2>2 DEF StatusOf, OppositeOf
<1>3. CASE s > a
  <2>1. Pulled(s, a) = One \div 2 + H(s - a) \div 2 /\ Pulled(a, s) = One \div 2 - H(s - a) \div 2
    BY <1>3 DEF Pulled
  <2>2. H(s - a) \in Nat /\ H(s - a) <= One
    BY <1>3, HGrows
  <2> QED  BY <1>1, <2>1, <2>2
<1>4. CASE a > s
  <2>1. Pulled(a, s) = One \div 2 + H(a - s) \div 2 /\ Pulled(s, a) = One \div 2 - H(a - s) \div 2
    BY <1>4 DEF Pulled
  <2>2. H(a - s) \in Nat /\ H(a - s) <= One
    BY <1>4, HGrows
  <2> QED  BY <1>1, <2>1, <2>2
<1> QED  BY <1>2, <1>3, <1>4

\* Sides that are nearly as strong as each other leave the score in the middle.
LEMMA TieInTheMiddle ==
    ASSUME NEW s \in Nat, NEW a \in Nat, Difference(s, a) <= 1000
    PROVE  /\ Pulled(s, a) \in Nat /\ 4500 <= Pulled(s, a) /\ Pulled(s, a) <= 5500
           /\ Smoothed(s, a) \in Nat /\ 4500 <= Smoothed(s, a) /\ Smoothed(s, a) <= 5500
<1>1. s <= a + 1000 /\ a <= s + 1000
  BY DEF Difference
<1>2. Pulled(s, a) \in Nat /\ 4500 <= Pulled(s, a) /\ Pulled(s, a) <= 5500
  <2>1. CASE s >= a
    <3>1. s - a \in 0 .. 1000 /\ s - a \in Nat
      BY <1>1, <2>1
    <3>2. H(s - a) \in Nat /\ H(s - a) <= 99
      <4>1. H(s - a) \in Nat
        BY <3>1, HGrows
      <4>2. H(s - a) <= 99
        BY <3>1, HSmall
      <4> QED  BY <4>1, <4>2
    <3>3. Pulled(s, a) = One \div 2 + H(s - a) \div 2
      BY <2>1 DEF Pulled
    <3> QED  BY <3>2, <3>3 DEF One
  <2>2. CASE ~(s >= a)
    <3>1. a - s \in 0 .. 1000 /\ a - s \in Nat
      BY <1>1, <2>2
    <3>2. H(a - s) \in Nat /\ H(a - s) <= 99
      <4>1. H(a - s) \in Nat
        BY <3>1, HGrows
      <4>2. H(a - s) <= 99
        BY <3>1, HSmall
      <4> QED  BY <4>1, <4>2
    <3>3. Pulled(s, a) = One \div 2 - H(a - s) \div 2
      BY <2>2 DEF Pulled
    <3> QED  BY <3>2, <3>3 DEF One
  <2> QED  BY <2>1, <2>2
<1>3. Smoothed(s, a) \in Nat /\ 4500 <= Smoothed(s, a) /\ Smoothed(s, a) <= 5500
  <2> DEFINE x == One * (One + s)
             y == 2 * One + s + a
  <2>1. x \in Nat /\ y \in Nat \ {0} /\ 4500 * y <= x /\ ~(5501 * y <= x)
    BY <1>1 DEF One
  <2>2. Smoothed(s, a) = x \div y
    BY DEF Smoothed
  <2> HIDE DEF x, y
  <2>3. 4500 <= x \div y /\ ~(5501 <= x \div y) /\ x \div y \in Nat
    BY <2>1, QuotientAtLeast, Quotient
  <2> QED  BY <2>2, <2>3
<1> QED  BY <1>2, <1>3

SidesInvariant ==
    /\ ArgumentsInvariant
    /\ pc \in {"clash", "decide", "done"} =>
          /\ \A i \in DOMAIN arguments : arguments[i].score \in Nat
          /\ score = ClaimScore(arguments)
    /\ pc = "done" =>
          /\ decision.status = StatusOf(score)
          /\ score \in 4500 .. 5500 => "neutral_score_band" \in reasons

LEMMA ScoredWeighs ==
    ASSUME ArgumentsInvariant, NEW args, \A i \in DOMAIN args : Rests(args[i])
    PROVE  /\ DOMAIN Scored(args) = DOMAIN args
           /\ \A i \in DOMAIN args : Scored(args)[i].score \in Nat
<1>1. DOMAIN Scored(args) = DOMAIN args
  BY DEF Scored
<1>2. ASSUME NEW i \in DOMAIN args  PROVE Scored(args)[i].score \in Nat
  <2>1. Scored(args)[i] = [args[i] EXCEPT !.score = ScoreOf(args[i])]
    BY DEF Scored
  <2>2. Scored(args)[i].score = ScoreOf(args[i])
    BY <2>1 DEF Rests
  <2> QED  BY <2>2, ScoreType DEF ArgumentsInvariant
<1> QED  BY <1>1, <1>2

LEMMA SidesInvariantHolds == Spec => []SidesInvariant
<1>1. Init => SidesInvariant
  <2>1. Init => ArgumentsInvariant
    BY DEF Init, ArgumentsInvariant, Settled
  <2> QED  BY <2>1 DEF Init, SidesInvariant
<1>2. SidesInvariant /\ ArgumentsInvariant' /\ [Next]_vars => SidesInvariant'
  <2> SUFFICES ASSUME SidesInvariant, ArgumentsInvariant', [Next]_vars  PROVE SidesInvariant'
    OBVIOUS
  <2> USE DEF SidesInvariant
  <2>1. CASE Rank \/ Generate \/ VerifyBatch \/ VerifyEach \/ VerifyParallel
    BY <2>1 DEF Rank, Generate, VerifyBatch, VerifyEach, VerifyParallel
  <2>2. CASE ScoreArguments
    <3>1. \A i \in DOMAIN arguments : Rests(arguments[i])
      BY <2>2 DEF ScoreArguments, ArgumentsInvariant, Settled
    <3>2. \A i \in DOMAIN arguments' : arguments'[i].score \in Nat
      BY <2>2, <3>1, ScoredWeighs DEF ScoreArguments
    <3>3. score' = ClaimScore(arguments)'
      BY <2>2 DEF ScoreArguments, ClaimScore
    <3> QED  BY <2>2, <3>2, <3>3 DEF ScoreArguments
  <2>3. CASE ResolveClash
    <3> DEFINE flagged == [i \in DOMAIN arguments |-> Clashing(arguments[i])]
    <3>1. \A i \in DOMAIN arguments : Rests(arguments[i])
      BY <2>3 DEF ResolveClash, ArgumentsInvariant, Settled
    <3>2. \A i \in DOMAIN flagged : Rests(flagged[i])
      BY <3>1 DEF Clashing, Rests
    <3> HIDE DEF flagged
    <3>3. \A i \in DOMAIN Scored(flagged) : Scored(flagged)[i].score \in Nat
      BY <3>2, ScoredWeighs
    <3>4. arguments' = Scored(flagged) /\ features' = features /\ features.qbaf
      BY <2>3 DEF ResolveClash, flagged
    <3>5. score' = ClaimScore(arguments)'
      BY <2>3, <3>4 DEF ResolveClash, ClaimScore
    <3>6. pc' = "decide"
      BY <2>3 DEF ResolveClash
    <3> QED  BY <3>3, <3>4, <3>5, <3>6
  <2>4. CASE NoClash
    BY <2>4 DEF NoClash, ClaimScore
  <2>5. CASE Decide
    <3>1. score \in 4500 .. 5500 => "neutral_score_band" \in reasons'
      BY <2>5 DEF Decide, Escalations
    <3> QED  BY <2>5, <3>1 DEF Decide, ClaimScore
  <2>6. CASE UNCHANGED vars
    BY <2>6 DEF vars, ClaimScore
  <2> QED  BY <2>1, <2>2, <2>3, <2>4, <2>5, <2>6 DEF Next
<1> QED  BY <1>1, <1>2, ArgumentsInvariantHolds, PTL DEF Spec

\* The decision on a claim treats its sides alike, however many arguments there
\* are and whatever they weigh (propagator.py:7-28, decision_mapper.py:5-20).
THEOREM SidesAlike == Spec => []SidesAreAlike
<1>1. SidesInvariant => SidesAreAlike
  <2> SUFFICES ASSUME SidesInvariant, pc = "done"  PROVE SidesAreAlike
    BY DEF SidesAreAlike, SidesAreEqual, TieIsUncertain, ArgumentsPull
  <2>1. /\ \A i \in DOMAIN arguments : Rests(arguments[i]) /\ arguments[i].score \in Nat
        /\ score = ClaimScore(arguments) /\ decision.status = StatusOf(score)
        /\ score \in 4500 .. 5500 => "neutral_score_band" \in reasons
    BY DEF SidesInvariant, ArgumentsInvariant, Settled
  <2>2. Weighed(arguments)
    BY <2>1 DEF Weighed, SidesInvariant, ArgumentsInvariant, Settled
  <2> DEFINE support == WeightOf(arguments, "support")
             attack == WeightOf(arguments, "attack")
  <2>3. support \in Nat /\ attack \in Nat
    BY <2>2, WeightsGrow DEF Weighed
  <2>4. SidesAreEqual
    <3> SUFFICES ASSUME features.qbaf
                 PROVE  StatusOf(Propagated(Turned(arguments))) = OppositeOf(decision.status)
      BY DEF SidesAreEqual
    <3>1. Propagated(Turned(arguments)) = Pulled(attack, support)
      BY <2>1, TurnedWeights, ClaimScoreIs
    <3>2. score = Pulled(support, attack)
      BY <2>1, ClaimScoreIs DEF ClaimScore
    <3> QED  BY <2>1, <2>3, <3>1, <3>2, StatusTurns
  <2>5. TieIsUncertain
    <3> SUFFICES ASSUME Tie(arguments)
                 PROVE  decision.status = "uncertain" /\ "neutral_score_band" \in reasons
      BY DEF TieIsUncertain
    <3>1. Difference(support, attack) <= 1000
      BY DEF Tie
    <3>2. score = Pulled(support, attack) \/ score = Smoothed(support, attack)
      BY <2>1, ClaimScoreIs DEF ClaimScore
    <3>3. score \in Nat /\ 4500 <= score /\ score <= 5500
      BY <2>3, <3>1, <3>2, TieInTheMiddle
    <3> QED  BY <2>1, <3>3 DEF StatusOf
  <2>6. ArgumentsPull
    <3> SUFFICES ASSUME NEW i \in DOMAIN arguments
                 PROVE  /\ arguments[i].stance = "support" => ClaimScore(Without(arguments, i)) <= score
                        /\ arguments[i].stance = "attack" => ClaimScore(Without(arguments, i)) >= score
      BY DEF ArgumentsPull
    <3> DEFINE less == Without(arguments, i)
    <3>1. DOMAIN less = DOMAIN arguments
      BY DEF Without
    <3>2. ASSUME NEW j \in DOMAIN arguments
          PROVE  /\ less[j].stance = arguments[j].stance /\ less[j].score \in Nat
                 /\ less[j].score <= arguments[j].score
                 /\ j # i => less[j].score = arguments[j].score
      <4>1. less[j] = IF j = i THEN [arguments[j] EXCEPT !.score = 0] ELSE arguments[j]
        BY DEF Without
      <4>2. Rests(arguments[j]) /\ arguments[j].score \in Nat
        BY <2>1
      <4>3. CASE j = i
        <5> HIDE DEF less
        <5> QED  BY <4>1, <4>2, <4>3 DEF Rests
      <4>4. CASE j # i
        <5> HIDE DEF less
        <5> QED  BY <4>1, <4>2, <4>4
      <4> QED  BY <4>3, <4>4
    <3> HIDE DEF less
    <3>3. Weighed(less)
      BY <2>2, <3>1, <3>2 DEF Weighed
    <3>4. \A stance : WeightOf(less, stance) <= WeightOf(arguments, stance)
      BY <2>2, <3>1, <3>2, <3>3, WeightsGrow
    <3>5. \A stance : arguments[i].stance # stance => WeightOf(arguments, stance) <= WeightOf(less, stance)
      BY <2>1, <2>2, <3>1, <3>2, <3>3, WeightsGrow
    <3>6. arguments[i].stance = "support" => ClaimScore(less) <= ClaimScore(arguments)
      BY <2>2, <3>3, <3>4, <3>5, ClaimScoreGrows
    <3>7. arguments[i].stance = "attack" => ClaimScore(arguments) <= ClaimScore(less) 
      BY <2>2, <3>3, <3>4, <3>5, ClaimScoreGrows
    <3>8. ClaimScore(less) \in Nat /\ ClaimScore(arguments) \in Nat
      <4>1. \A args, stance : Weighed(args) => WeightOf(args, stance) \in Nat
        BY WeightsGrow DEF Weighed
      <4>2. \A args : Weighed(args) => /\ WeightOf(args, "support") <= WeightOf(args, "support")
                                       /\ WeightOf(args, "attack") <= WeightOf(args, "attack")
        BY <4>1
      <4> QED  BY <2>2, <3>3, <4>2, ClaimScoreGrows
    <3> QED  BY <2>1, <3>6, <3>7, <3>8 DEF less
  <2> QED  BY <2>4, <2>5, <2>6 DEF SidesAreAlike
<1> QED  BY <1>1, SidesInvariantHolds, PTL
=============================================================================
