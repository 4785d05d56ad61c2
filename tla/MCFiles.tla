------------------------------ MODULE MCFiles ------------------------------
(***************************************************************************)
(* Records of two types, hence in two files.  o1 tells of the rule p, o3   *)
(* contradicts it, and o4 is an episode of the case of o1 that a human     *)
(* reviewed: one case is enough, though two are asked for.  An episode     *)
(* needs no second source, a rule here neither.                            *)
(***************************************************************************)
EXTENDS MCMemory

Observed ==
    [o1 |-> Grounded("p", "c1", "f1", 80),
     o3 |-> Grounded("q", "c3", "f3", 95),
     o4 |-> [Grounded("e", "c1", "f4", 90) EXCEPT !.human = TRUE]]
FilesObservation == [o \in Obs |-> Observed[o]]

FilesRelation == RelationBy(Statement, {}, {<<"p", "q">>})
FilesBlock == [p |-> "rule", q |-> "rule", e |-> "episode"]
FilesFileOf == [p |-> "semantic_rule", q |-> "semantic_rule", e |-> "episodic"]
FilesText == [mem_p |-> "p", mem_q |-> "q", mem_e |-> "e"]
FilesIdOf == [p |-> "mem_p", q |-> "mem_q", e |-> "mem_e"]
FilesNone == [m \in MemId |-> 0]
FilesMinConfidence == EveryType(70)
FilesMinDistinctCases == [EveryType(1) EXCEPT !["episodic"] = 2]
FilesMinDistinctSources == EveryType(1)

=============================================================================
