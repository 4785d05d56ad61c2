------------------------------ MODULE MCMemory ------------------------------
(***************************************************************************)
(* Values shared by the instances of MemoryConsolidation that TLC checks:  *)
(* how an observation is written down, and a similarity relation given by  *)
(* its pairs that are not unrelated.                                       *)
(***************************************************************************)
EXTENDS MemoryConsolidation

\* A grounded candidate of a training case that nothing speaks against.
Grounded(s, c, f, percent) ==
    [statement |-> s, case |-> c, source |-> f, confidence |-> percent,
     grounding |-> "report", heldout |-> FALSE, flagged |-> FALSE,
     universal |-> FALSE, human |-> FALSE]

\* A relation on S in which the pairs of equal and opposed are related, both
\* ways round, and every other pair of different statements is unrelated.
RelationBy(S, equal, opposed) ==
    [p \in S \X S |->
       IF p[1] = p[2] \/ p \in equal \/ <<p[2], p[1]>> \in equal THEN "equivalent"
       ELSE IF p \in opposed \/ <<p[2], p[1]>> \in opposed THEN "contradicts"
       ELSE "unrelated"]

OneBlock == [s \in Statement |-> "block"]
AllRules == [s \in Statement |-> "semantic_rule"]
EveryType(n) == [t \in MemoryType |-> n]

=============================================================================
