---------------------------- MODULE MCDocumented ----------------------------
(***************************************************************************)
(* An instance on which the code departs from what README.md says of it.   *)
(***************************************************************************)
EXTENDS MCMemory

Texts == [a |-> "a", b |-> "b", c |-> "c", mem_a |-> "a", mem_b |-> "b", mem_c |-> "c"]
DocumentedText == [m \in MemId |-> Texts[m]]
DocumentedIdOf ==
    [s \in Statement |-> CHOOSE m \in MemId \ Seed : DocumentedText[m] = s]

None == [m \in MemId |-> 0]
Confident == EveryType(70)
Two == EveryType(2)

\* Similarity is a threshold, hence not transitive: a is like b and b like c,
\* but a is not like c.
ChainObservation ==
    [o1 |-> Grounded("a", "c1", "f1", 80), o2 |-> Grounded("b", "c2", "f2", 90),
     o3 |-> Grounded("c", "c3", "f3", 80)]
ChainRelation == RelationBy(Statement, {<<"a", "b">>, <<"b", "c">>}, {})

=============================================================================
