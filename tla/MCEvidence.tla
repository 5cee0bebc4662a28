----------------------------- MODULE MCEvidence -----------------------------
(* Evidence with the mixes of jobs the run lets meet. *)
EXTENDS Evidence, TLC

Mix(events) == [e \in Events |-> IF e \in DOMAIN events THEN events[e] ELSE 0]
MCAgendas == {Mix([oos |-> 1, edit |-> 4, commit |-> 1]),
              Mix([oos |-> 2, kill |-> 1]),
              Mix([oos |-> 1, train |-> 1, kill |-> 1]),
              Mix([oos |-> 1, rebuild |-> 1, catalog |-> 1]),
              Mix([train |-> 2, edit |-> 1, kill |-> 1]),
              Mix([train |-> 1, backtest |-> 1, edit |-> 2, commit |-> 1]),
              Mix([backtest |-> 2]),
              Mix([release_catalog |-> 1, rebuild |-> 1, catalog |-> 1]),
              Mix([release_sources |-> 1, sources |-> 1, rebuild |-> 1]),
              Mix([rebuild |-> 2]),
              Mix([sources |-> 1, fetch |-> 1, rebuild |-> 1, kill |-> 1])}
Symmetry == Permutations(Roots) \cup Permutations(Sources)
=============================================================================
