------------------------------ MODULE MCExpiry ------------------------------
(***************************************************************************)
(* A short-term file of two rows whose rows expire after a day.  o1 tells  *)
(* of the rule p; o2 contradicts it, with no grounding of its own; o3      *)
(* tells of p in universal terms, from the source of o1.                   *)
(***************************************************************************)
EXTENDS MCMemory

Observed ==
    [o1 |-> Grounded("p", "c1", "f1", 80),
     o2 |-> [Grounded("q", "c2", "f2", 90) EXCEPT !.grounding = "none"],
     o3 |-> [Grounded("p", "c3", "f1", 80) EXCEPT !.universal = TRUE]]
ExpiryObservation == [o \in Obs |-> Observed[o]]

ExpiryRelation == RelationBy(Statement, {}, {<<"p", "q">>})
ExpiryText == [mem_p |-> "p", mem_q |-> "q"]
ExpiryIdOf == [p |-> "mem_p", q |-> "mem_q"]
ExpiryNone == [m \in MemId |-> 0]
ExpiryMinConfidence == EveryType(70)
ExpiryMinDistinct == EveryType(1)

=============================================================================
