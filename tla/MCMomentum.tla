---- MODULE MCMomentum ----
(* Bounds of the strategy's runs. *)
EXTENDS DecisionReplay

MCReturns == {-2, -1, 1, 2}
====
