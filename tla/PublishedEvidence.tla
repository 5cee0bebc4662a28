-------------------------- MODULE PublishedEvidence --------------------------
(***************************************************************************)
(* What the research jobs promise a reader: the raw root holds none or all *)
(* of the locked archives and never loses them, an evaluation that was     *)
(* completed stays as it is, and the acceptance record only ever names a   *)
(* completed one.                                                          *)
(***************************************************************************)
CONSTANT None

VARIABLES sources,    \* "nothing", "whole" or "part" of the locked archives
          completed,  \* the evaluations that are complete
          record      \* the evaluation the acceptance record names, or None

vars == <<sources, completed, record>>

Init == sources \in {"nothing", "whole"} /\ completed = {} /\ record = None

PublishSources ==
  sources = "nothing" /\ sources' = "whole" /\ UNCHANGED <<completed, record>>
Complete == /\ \E e \in completed' : completed' = completed \cup {e}
            /\ UNCHANGED <<sources, record>>
PublishRecord == record' \in completed /\ UNCHANGED <<sources, completed>>

Next == PublishSources \/ Complete \/ PublishRecord

Spec == Init /\ [][Next]_vars
=============================================================================
