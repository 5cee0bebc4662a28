--------------------------- MODULE MergeAuthority ---------------------------
(***************************************************************************)
(* What the whole of LCK promises the maintainer, without saying how: a     *)
(* verdict is accepted only about a target that passed formal validation,   *)
(* and a merge is announced or closed out only for the target of the        *)
(* verdict accepted last, and only if that verdict is PASS.                 *)
(***************************************************************************)
CONSTANTS Target, Evidence(_), None

VARIABLES
    evidence,   \* what formal validation has covered
    accepted,   \* the verdict accepted last, and its target
    ready,      \* the target announced READY_FOR_HUMAN_MERGE last
    closed      \* the evidence the Task was closed out with, at most once

vars == <<evidence, accepted, ready, closed>>

Verdict == [verdict: {"PASS", "FAIL"}, target: Target]

Init == evidence = {} /\ accepted = None /\ ready = None /\ closed = {}

Validate(t) ==
    /\ evidence' = evidence \cup {Evidence(t)}
    /\ UNCHANGED <<accepted, ready, closed>>

Accept(v) ==
    /\ Evidence(v.target) \in evidence
    /\ accepted' = v
    /\ UNCHANGED <<evidence, ready, closed>>

Passed == accepted # None /\ accepted.verdict = "PASS"

Announce ==
    /\ Passed /\ ready' = accepted.target
    /\ UNCHANGED <<evidence, accepted, closed>>

Close ==
    /\ Passed /\ closed = {} /\ closed' = {Evidence(accepted.target)}
    /\ UNCHANGED <<evidence, accepted, ready>>

Next ==
    \/ \E t \in Target : Validate(t)
    \/ \E v \in Verdict : Accept(v)
    \/ Announce \/ Close

Spec == Init /\ [][Next]_vars
=============================================================================
