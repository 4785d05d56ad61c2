------------------------------ MODULE MCReview ------------------------------
(***************************************************************************)
(* Two settings of Contestation.  The first is one review of two claims by *)
(* up to two contestations that ask for any stage but a new decomposition. *)
(* The second reviews the reported case a second time with every stage     *)
(* open, adaptive revision on or off, and a decomposer that adds a claim.  *)
(***************************************************************************)
EXTENDS Contestation

\* Two things to argue, one of them on evidence that only research finds.
MCDrafts ==
    {[text |-> "genuine", ev |-> {"ev1"}], [text |-> "staged", ev |-> {"ev1", "ev2"}],
     [text |-> "staged", ev |-> {"ev3"}]}
MCEvidenceIds == {"ev1", "ev2", "ev3"}
MCFound == {"ev3"}

Batch ==
    [bundle |-> {"claimA", "claimB"}, decomposed |-> {"claimA", "claimB"},
     targets |-> {"qbaf_reasoning", "evidence_validation"}, adaptive |-> {TRUE},
     contestations |-> 2, rounds |-> 1]

Again ==
    [bundle |-> {"claimA"}, decomposed |-> {"claimA", "claimB"},
     targets |-> {"claim_decomposition"}, adaptive |-> {TRUE, FALSE},
     contestations |-> 1, rounds |-> 2]

MCSettings == [batch |-> Batch, again |-> Again]

ASSUME ReviewAssumption
=============================================================================
