---------------------------- MODULE MCDecisions ----------------------------
(***************************************************************************)
(* Instances of ClaimDecision and of FinalDecision, which share no state:  *)
(* one is at rest while the other is explored.                             *)
(***************************************************************************)
EXTENDS ClaimDecision, FinalDecision

-----------------------------------------------------------------------------
\* Items good enough for arguments to clash, one of them flagged.
MCEvidence == {"photo", "report"}
MCInvented == "ghost"
MCTexts == {"t1", "t2"}

Thing(type, reliability, stance, says, flagged) ==
    [type |-> type, reliability |-> reliability, relevance |-> 90, bonus |-> 0,
     source |-> type, provenance |-> TRUE, stance |-> stance, says |-> says,
     flagged |-> flagged, absent |-> FALSE, excluded |-> FALSE]

MCItem == [e \in MCEvidence |->
              IF e = "photo" THEN Thing("forensic_analysis", 90, "none", {"suspicion"}, TRUE)
                             ELSE Thing("news_article", 80, "support", {}, FALSE)]

-----------------------------------------------------------------------------
\* A case of two claims of one core type, two of its context, one of the
\* authenticity of the media and one of no core type.
MCTypeOf == [what1 |-> "what", what2 |-> "what", where1 |-> "where",
               caption1 |-> "caption_context", auth1 |-> "authenticity", main1 |-> "main"]

MCClaims == DOMAIN MCTypeOf

VARIABLE explored

-----------------------------------------------------------------------------
DecisionsInit ==
    /\ Init /\ VerdictInit
    /\ \/ explored = "claim" /\ belief = [c \in Claims |-> 50]
       \/ explored = "case" /\ features = [verifier |-> TRUE, qbaf |-> TRUE, clash |-> TRUE]

DecideClaim == explored = "claim" /\ Next /\ UNCHANGED <<explored, verdictVars>>
DecideCase == explored = "case" /\ VerdictNext /\ UNCHANGED <<explored, vars>>

DecisionsSpec ==
    DecisionsInit /\ [][DecideClaim \/ DecideCase]_<<vars, verdictVars, explored>>
=============================================================================
