----------------------------- MODULE LckDelivery -----------------------------
(***************************************************************************)
(* DeliveryCompleter: validate the candidate, commit it, push it without    *)
(* force, attach it to one OPEN PR and move the Task to Review.             *)
(* RemediationCompleter runs the same steps on an existing PR, so the       *)
(* actions below serve the operations "deliver" and "repair".               *)
(***************************************************************************)
EXTENDS LckState

Pipeline == {"deliver", "repair"}
PipelineAt(step) == op.name \in Pipeline /\ op.step = step

\* DeliveryPreparer, from clean current main: cut the branch, set In Progress.
DeliverPrepare ==
    /\ op = Idle /\ status = "Ready"
    /\ status' = "InProgress"
    /\ UNCHANGED <<main, body, remote, pr, merged, clone, commits, store, op,
                   history, spent>>

\* Freeze the snapshot; a dirty worktree is staged (git add -A, write-tree),
\* a clean one must already hold a Task commit to revalidate.
StageCandidate ==
    \/ work # "clean" /\ work' = "staged"
    \/ work = "clean" /\ local # NoCommit /\ UNCHANGED work

DeliverStart ==
    /\ op = Idle
    /\ pr # "merged" /\ status \in {"InProgress", "Review"}
    /\ StageCandidate
    /\ op' = Begin("deliver", "validate", local, NoReview, "none")
    /\ UNCHANGED <<github, local, commits, store, history, spent>>

\* Profile gates and formal validation pass on the frozen base.
ValidateCandidate ==
    /\ PipelineAt("validate") /\ Goto("commit")
    /\ UNCHANGED <<github, clone, commits, store, history, spent>>

\* verify_tree_unchanged, then commit: HEAD and content are those validated.
CandidateHeadUnchanged == local = op.head    \* mutant: content not compared
CandidateUnchanged == local = op.head /\ work \in {"staged", "clean"}

\* What validation really covered is the content before any later edit.
Certify(c) ==
    validated' = IF local = op.head /\ work # "edited"
                 THEN validated \cup {<<c, op.base>>} ELSE validated

\* candidate_recorder runs only for a repair with a prepared session.
StraightToPush == "push"                     \* mutant: candidate not recorded
AfterCommit ==
    IF op.name = "repair" /\ session # NoSession THEN "record" ELSE "push"

CommitCandidate ==
    /\ PipelineAt("commit") /\ CandidateUnchanged
    /\ \/ /\ work = "clean"
          /\ Certify(op.head) /\ Goto(AfterCommit)
          /\ UNCHANGED <<clone, commits>>
       \/ /\ work # "clean"
          /\ MakeCommit(op.head, MainOf(op.head)) /\ Certify(New)
          /\ local' = New /\ work' = "clean"
          /\ op' = [op EXCEPT !.head = New, !.step = AfterCommit]
    /\ UNCHANGED <<github, store, pushed, repaired, unfenced, ready, spent>>

\* record_remediation_candidate: bind the commit to the prepared session.
RecordCandidate ==
    /\ PipelineAt("record")
    /\ session # NoSession /\ session.rid = op.rid /\ session.start = op.start
    /\ session.cand \in {NoCommit, op.head}
    /\ session' = [session EXCEPT !.cand = op.head]
    /\ Goto("push")
    /\ UNCHANGED <<github, clone, commits, required, reviewStore, receipt,
                   history, spent>>

\* EnsureRemoteBranchEffect: a plain push, accepted only as a fast-forward.
MayForce == remote # op.head                 \* mutant: git push --force
MayFastForward == IsAncestor(remote, op.head)
\* A head that Remediation or Refresh pushes needs a fresh Review.  A repair without
\* a session leaves no trace of its head until it raises the boundary.
Landed(c) ==
    /\ pushed' = pushed \cup {c}
    /\ repaired' = IF op.name \in {"repair", "refresh"} THEN repaired \cup {c}
                   ELSE repaired
    /\ unfenced' = IF op.name = "repair" /\ session = NoSession
                   THEN unfenced \cup {c} ELSE unfenced

AlreadySynced ==
    /\ PipelineAt("push") /\ local = op.head /\ remote = op.head
    /\ Goto("pr")
    /\ UNCHANGED <<github, clone, commits, store, history, spent>>

\* The push lands; its response may be lost, and the operation then stops.
PushCandidate ==
    /\ PipelineAt("push") /\ local = op.head
    /\ remote # op.head /\ MayFastForward
    /\ remote' = op.head /\ Landed(op.head)
    /\ op' \in {[op EXCEPT !.step = "confirm"], Idle}
    /\ UNCHANGED <<main, body, pr, merged, status, clone, commits, store,
                   validated, ready, spent>>

ConfirmPush ==
    /\ PipelineAt("confirm") /\ local = op.head /\ remote = op.head
    /\ Goto("pr")
    /\ UNCHANGED <<github, clone, commits, store, history, spent>>

\* resolve_or_create_pr: reuse the open PR of the branch or create one.
EnsureOpenPr ==
    /\ At("deliver", "pr") /\ pr \in {"none", "open"}
    /\ pr' = "open" /\ Goto("prVerify")
    /\ UNCHANGED <<main, body, remote, merged, status, clone, commits, store,
                   history, spent>>

\* The live PR must be OPEN on the validated head and the frozen base.
VerifyPr ==
    /\ At("deliver", "prVerify") \/ At("repair", "pr")
    /\ pr = "open" /\ remote = op.head /\ main = op.base
    /\ Goto("status")
    /\ UNCHANGED <<github, clone, commits, store, history, spent>>

SetReviewStatus ==
    /\ PipelineAt("status")
    /\ status' = "Review" /\ Goto("final")
    /\ UNCHANGED <<main, body, remote, pr, merged, clone, commits, store,
                   history, spent>>

\* _verify_local_completion; a repair goes on to its fresh-Review boundary.
VerifyLocalCompletion ==
    /\ PipelineAt("final") /\ local = op.head /\ work = "clean"
    /\ op' = IF op.name = "repair" THEN [op EXCEPT !.step = "boundary"] ELSE Idle
    /\ UNCHANGED <<github, clone, commits, store, history, spent>>

\* Any refused check, failed command or rejected push: STOP, nothing undone.
StopPipeline ==
    /\ op.name \in Pipeline /\ op.step # "release"
    /\ op' = Idle
    /\ UNCHANGED <<github, clone, commits, store, history, spent>>

DeliveryNext ==
    \/ DeliverPrepare \/ DeliverStart \/ ValidateCandidate \/ CommitCandidate \/ RecordCandidate
    \/ AlreadySynced \/ PushCandidate \/ ConfirmPush \/ EnsureOpenPr \/ VerifyPr
    \/ SetReviewStatus \/ VerifyLocalCompletion \/ StopPipeline
=============================================================================
