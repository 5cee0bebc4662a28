----------------------------- MODULE LckRefresh -----------------------------
(***************************************************************************)
(* CandidateRefresher: rebase the reviewed candidate onto the current main,  *)
(* validate it, raise the fresh-Review boundary, push with an exact lease,   *)
(* and undo everything that can be proven undone when a later check fails.   *)
(***************************************************************************)
EXTENDS LckDelivery

\* _require_no_durable_handoff
NoReviewHandoff == marker = NoMarker         \* mutant: session not looked at
NoHandoff == session = NoSession /\ marker = NoMarker

\* Eligible only with no session, no Review marker, and local = remote = PR head
\* in a clean worktree.  A head that already contains main is left alone.
RefreshStart ==
    /\ op = Idle /\ NoHandoff
    /\ pr = "open" /\ status = "Review"
    /\ local = remote /\ work = "clean" /\ onto[local] # main
    /\ op' = [Begin("refresh", "rebase", local, NoReview, "none")
                 EXCEPT !.prior = required]
    /\ UNCHANGED <<github, clone, commits, store, history, spent>>

\* git rebase takes whatever HEAD is by now.
RebaseCandidate ==
    /\ At("refresh", "rebase") /\ work = "clean"
    /\ MakeCommit(NoCommit, op.base)
    /\ local' = New
    /\ op' = [op EXCEPT !.head = New, !.step = "validate"]
    /\ UNCHANGED <<github, work, store, history, spent>>

ValidateRebased ==
    /\ At("refresh", "validate") /\ Goto("verify")
    /\ UNCHANGED <<github, clone, commits, store, history, spent>>

\* The live facts a refreshed candidate is published under.
RefreshAuthorityDirty(remoteHead) ==         \* mutant: worktree not looked at
    /\ pr = "open" /\ status = "Review" /\ body = op.body /\ main = op.base
    /\ remote = remoteHead /\ local = op.head
RefreshAuthority(remoteHead) ==
    /\ pr = "open" /\ status = "Review" /\ body = op.body /\ main = op.base
    /\ remote = remoteHead /\ local = op.head /\ work = "clean"
VerifyPrePush ==
    /\ At("refresh", "verify") /\ RefreshAuthority(op.start)
    /\ Certify(op.head) /\ Goto("fence")
    /\ UNCHANGED <<github, clone, commits, store, pushed, repaired, unfenced, ready,
                   spent>>

\* The negative boundary is durable before the branch moves.
FenceSkipped ==                              \* mutant: boundary not written
    /\ At("refresh", "fence") /\ Goto("push")
    /\ UNCHANGED <<github, clone, commits, store, history, spent>>
FenceRefresh ==
    /\ At("refresh", "fence")
    /\ required' = op.head /\ Goto("push")
    /\ UNCHANGED <<github, clone, commits, reviewStore, repairStore, history,
                   spent>>

LeaseUnchecked == remote # NoCommit          \* mutant: --force
LeaseHolds == remote = op.start
\* The lease push lands; an outcome nobody can observe keeps the boundary.
PushExactLease ==
    /\ At("refresh", "push") /\ LeaseHolds
    /\ remote' = op.head /\ Landed(op.head)
    /\ op' \in {[op EXCEPT !.step = "final"], Idle}
    /\ UNCHANGED <<main, body, pr, merged, status, clone, commits, store,
                   validated, ready, spent>>

\* Rejected: the remote is seen without the candidate, so all is undone; or not
\* seen at all, so all is kept.
PushNotLanded ==
    /\ At("refresh", "push")
    /\ op' \in {[op EXCEPT !.step = "restoreBoundary"], Idle}
    /\ UNCHANGED <<github, clone, commits, store, history, spent>>

VerifyFinal ==
    /\ At("refresh", "final") /\ RefreshAuthority(op.head)
    /\ op' = Idle
    /\ UNCHANGED <<github, clone, commits, store, history, spent>>

\* The final identity is not proven: something moved, or a query failed.
FinalNotProven ==
    /\ At("refresh", "final") /\ Goto("compensate")
    /\ UNCHANGED <<github, clone, commits, store, history, spent>>

\* Take the candidate back with a lease on the new head.
Compensate ==
    /\ At("refresh", "compensate") /\ remote = op.head
    /\ remote' = op.start
    /\ op' \in {[op EXCEPT !.step = "restoreBoundary"], Idle}
    /\ UNCHANGED <<main, body, pr, merged, status, clone, commits, store,
                   history, spent>>
CompensationUnproven ==
    /\ At("refresh", "compensate") /\ op' = Idle
    /\ UNCHANGED <<github, clone, commits, store, history, spent>>
\* Another writer has moved the branch: leave the remote, undo the rest.
AnyRemote == remote # NoCommit               \* mutant: drift assumed
RemoteDrifted == remote # op.head
CompensationDrift ==
    /\ At("refresh", "compensate") /\ RemoteDrifted
    /\ Goto("restoreBoundary")
    /\ UNCHANGED <<github, clone, commits, store, history, spent>>

\* A check before the boundary fails: only the local head has to go back, and
\* not even that if the rebase was not started.
StopBeforeFence ==
    /\ op.name = "refresh" /\ op.step \in {"rebase", "validate", "verify", "fence"}
    /\ \/ Goto("restoreHead")
       \/ op.step = "rebase" /\ op' = Idle
    /\ UNCHANGED <<github, clone, commits, store, history, spent>>

RestoreBoundary ==
    /\ At("refresh", "restoreBoundary")
    /\ required' = op.prior /\ Goto("restoreHead")
    /\ UNCHANGED <<github, clone, commits, reviewStore, repairStore, history,
                   spent>>

\* _restore_original: move the branch back unless files were changed.
RestoreHead ==
    /\ At("refresh", "restoreHead")
    /\ local' = IF work = "clean" THEN op.start ELSE local
    /\ op' = Idle
    /\ UNCHANGED <<github, work, commits, store, history, spent>>

RefreshNext ==
    \/ RefreshStart \/ RebaseCandidate \/ ValidateRebased \/ VerifyPrePush
    \/ FenceRefresh \/ PushExactLease \/ PushNotLanded \/ VerifyFinal
    \/ FinalNotProven \/ Compensate \/ CompensationUnproven \/ CompensationDrift
    \/ StopBeforeFence \/ RestoreBoundary \/ RestoreHead
=============================================================================
