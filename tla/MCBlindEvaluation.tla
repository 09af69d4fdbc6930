------------------------- MODULE MCBlindEvaluation -------------------------
(* The clients of the runs of BlindEvaluation. *)
EXTENDS BlindEvaluation

CONSTANTS e1, e2
=============================================================================
