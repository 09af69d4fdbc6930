--------------------------- MODULE MCFieldBetaRun ---------------------------
(* A small Field Beta transaction for TLC: an original and a derived strategy *)
(* recommended, and one override of the recommendation.                       *)
EXTENDS FieldBetaRun

MCPlans ==
    {[topology |-> "LOCAL_INDEPENDENT", chosen |-> "NONE"],
     [topology |-> "LOCAL_COUPLED", chosen |-> "NONE"],
     [topology |-> "LOCAL_INDEPENDENT", chosen |-> "P1_SOFT"]}
=============================================================================
