---------------------------- MODULE MCLifecycle ----------------------------
(***************************************************************************)
(* Two contradicting statements p and q, and a rule on p that was seeded.  *)
(* The thresholds are scaled down with the number of observations: one     *)
(* conflict against two supports (33%) takes the rule out of service, one  *)
(* against three (25%) lets it back, and two against at most three         *)
(* discredit it.                                                           *)
(* When it is deprecated, p can be promoted anew.                          *)
(***************************************************************************)
EXTENDS MCMemory

Observed ==
    [o1 |-> Grounded("p", "c1", "f1", 80), o2 |-> Grounded("p", "c2", "f2", 80),
     o3 |-> Grounded("q", "c3", "f3", 95), o4 |-> Grounded("q", "c4", "f4", 95),
     o5 |-> Grounded("p", "c5", "f2", 80)]    \* the source of o2 again
LifecycleObservation == [o \in Obs |-> Observed[o]]

LifecycleRelation == RelationBy(Statement, {}, {<<"p", "q">>})
LifecycleText == [rule_p |-> "p", mem_p |-> "p", mem_q |-> "q"]
LifecycleIdOf == [p |-> "mem_p", q |-> "mem_q"]
LifecycleSeedSupport == [m \in MemId |-> 2]
LifecycleSeedConfidence == [m \in MemId |-> 65]
LifecycleMinConfidence == EveryType(75)
LifecycleMinDistinct == EveryType(2)

=============================================================================
