-------------------------- MODULE MCDataPipeline --------------------------
(* DataPipeline on a dataset of twelve bars and six settlements. *)
EXTENDS DataPipeline

Evaluation(start, end, decision) ==
    [mode |-> "evaluation", start |-> start, end |-> end, decision |-> decision]
Training(start, end, decision) ==
    [mode |-> "training", start |-> start, end |-> end, decision |-> decision]

MCFillDays == <<-16, 32>>
MCAllowedGaps == {<<32, 40>>}
MCOnlyDaily == {40}
MCDrifts == {-2, -1, 1, 2}
MCWindows == {Evaluation(0, 48, 32), Evaluation(32, 80, 64), Evaluation(32, 64, 56),
              Training(0, 64, 64), Training(32, 96, 96)}
MCOneWindow == {Evaluation(0, 48, 32)}
MCSplits == <<<<0, 48>>, <<48, 96>>>>
MCCrosscheck == <<64, 96>>
===========================================================================
