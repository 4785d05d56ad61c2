---------------------------- MODULE SoundRecords ----------------------------
(***************************************************************************)
(* What a reader of the long-term memory (retrieval, the verifier, a       *)
(* frozen snapshot) may rely on of each record: it stands on independent,  *)
(* trustworthy observations, its status follows from them, and it changes  *)
(* only in the light of new evidence.                                      *)
(***************************************************************************)
EXTENDS MemoryRecords

\* A training observation that verification has nothing against.
Trustworthy(o) ==
    LET x == Observation[o]
    IN  /\ ~x.heldout /\ ~x.flagged
        /\ x.confidence >= VerifyMinConfidence
        /\ RequireGrounding => x.grounding = "report"

\* The counters of a record count pairwise independent observations.
Counted(m, r) ==
    /\ PairwiseIndependent(r.backers) /\ PairwiseIndependent(r.opponents)
    /\ r.support = BaseSupport(m) + Cardinality(r.backers)
    /\ r.conflict = Cardinality(r.opponents)

\* The evidence of a record is sound, and its status follows from it.
SoundEvidence(m, r) ==
    /\ r \in Record
    /\ Counted(m, r)
    /\ \A o \in r.backers \union r.opponents : Trustworthy(o)
    /\ \A o \in r.opponents : Relate(o, m) = "contradicts"

Sound(m, r) == SoundEvidence(m, r) /\ LifecycleStatus(m, r) = r.status

\* A new record enters active, unopposed, with the sources its type asks for.
Admitted(m, r) ==
    /\ m \notin Seed
    /\ r.status = "active" /\ r.opponents = {}
    /\ Cardinality(r.backers) >= MinDistinctSources[TypeOf(m)]

\* A record in service or under review gains evidence, and loses none.
Reassessed(m, old, new) ==
    /\ Live(old) /\ new.status # "absent"
    /\ old.backers \subseteq new.backers /\ old.opponents \subseteq new.opponents
    /\ \A o \in new.backers \ old.backers : Relate(o, m) \in Supporting

Evolves(m, old, new) ==
    /\ Sound(m, new)
    /\ IF old.status = "absent" THEN Admitted(m, new) ELSE Reassessed(m, old, new)

=============================================================================
