------------------------------ MODULE MCRecall ------------------------------
(***************************************************************************)
(* Instances of SimilarityBackend and of MemoryRetrieval.  They share no   *)
(* state, so that one is at rest while the other is explored: an           *)
(* interleaving shows nothing that one at a time does not.                 *)
(***************************************************************************)
EXTENDS SimilarityBackend, MemoryRetrieval

-----------------------------------------------------------------------------
\* A rule; a lesson that denies it in almost its words; one that says more than
\* the rule; one near it about which only the LLM can tell; and a failure in the
\* same words, which is comparable to none of them.
Lesson(type, polarity, words, text) ==
    [type |-> type, task |-> "verify", subtask |-> None, claim |-> "where",
     failure |-> IF type = "failure" THEN "wrong place" ELSE None, scope |-> None,
     polarity |-> polarity, words |-> words, text |-> text]

MCItem == [rule |-> Lesson("semantic_rule", "positive", {"check", "place"}, "check the place"),
           denial |-> Lesson("semantic_rule", "negative", {"not", "check", "place"}, "do not check the place"),
           more |-> Lesson("semantic_rule", "positive", {"check", "place", "time"}, "check place and time"),
           near |-> Lesson("semantic_rule", "positive", {"check", "where"}, "check where"),
           lapse |-> Lesson("failure", "negative", {"not", "check", "place"}, "do not check the place")]

MCItems == DOMAIN MCItem

Pairs(percent) ==
    CASE percent = 100 -> {{"denial", "lapse"}}
      [] percent = 80 -> {{"rule", "denial"}, {"rule", "near"}, {"denial", "near"}, {"rule", "lapse"}}
      [] percent = 60 -> {{"rule", "more"}, {"more", "near"}}

MCSimilar ==
    [p \in MCItems \X MCItems |->
        IF p[1] = p[2] THEN 100
        ELSE CHOOSE s \in {100, 80, 60, 20} : IF s = 20 THEN {p[1], p[2]} \notin Pairs(100) \cup Pairs(80) \cup Pairs(60)
                                              ELSE {p[1], p[2]} \in Pairs(s)]

\* With a third lesson promoted, one of them finds no room on a shortlist of two.
MCActive == {"denial", "near"}
MCNone == "none"

-----------------------------------------------------------------------------
\* Two cases, and what they are asked.
RecallCases == {"port", "fire"}

RecallQuery ==
    [c \in RecallCases |->
       IF c = "port"
       THEN [claim |-> "where", task |-> "verify", subtask |-> "geo", scope |-> "event",
             tokens |-> {"reverse"}, supported |-> {"where"}, provenance |-> 40, uncertainty |-> 50]
       ELSE [claim |-> "when", task |-> "verify", subtask |-> "None", scope |-> "media",
             tokens |-> {}, supported |-> {}, provenance |-> 0, uncertainty |-> 0]]

Remembering(key, claim, pattern, confidence) ==
    [key |-> key, claim |-> claim, claims |-> {"where"}, task |-> "verify", subtask |-> "None",
     scope |-> "event", scopes |-> {}, pattern |-> pattern, support |-> 1, confidence |-> confidence]

RecallIds == 1 .. 4

\* A seed rule, two lessons of one case, one of the other.
RecallRow ==
    <<Remembering("split", "general", {}, 60), Remembering("port", "where", {"reverse"}, 86),
      Remembering("port again", "where", {"reverse", "forensic"}, 88), Remembering("fire", "when", {}, 90)>>

RecallSource == <<"None", "port", "port", "fire">>

\* The lessons are about as much alike as their scores differ by usage.
RecallSemantic ==
    [c \in RecallCases |-> IF c = "port" THEN <<63, 55, 52, 40>> ELSE <<30, 20, 4, 60>>]

\* Neighbours say the same, the ends do not.
RecallEquivalent == {<<1, 2>>, <<2, 1>>, <<2, 3>>, <<3, 2>>}

VARIABLE explored

-----------------------------------------------------------------------------
RecallInit == Init /\ RetrievalInit /\ explored \in {"similarity", "retrieval"}

Compare == explored = "similarity" /\ Next /\ UNCHANGED <<explored, retrievalVars>>
Recall == explored = "retrieval" /\ RetrievalNext /\ UNCHANGED <<explored, vars>>

RecallSpec == RecallInit /\ [][Compare \/ Recall]_<<vars, retrievalVars, explored>>
=============================================================================
