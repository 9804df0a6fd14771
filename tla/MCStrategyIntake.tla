--------------------------- MODULE MCStrategyIntake ---------------------------
(* Instance of StrategyIntake for TLC: one strategy, spelled in two ways. *)
EXTENDS StrategyIntake, TLC

CONSTANTS squeeze, Squeeze, e1, e2

MCNames == {squeeze, Squeeze}
MCKey == squeeze :> "squeeze" @@ Squeeze :> "squeeze"
MCExperiments == {e1, e2}
Symmetry == Permutations(MCExperiments)
MCChallenger == e1 :> squeeze @@ e2 :> squeeze
==============================================================================
