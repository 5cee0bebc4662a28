---------------------------- MODULE LckCloseout ----------------------------
(***************************************************************************)
(* CloseoutRunner: after the maintainer's merge, check that the merged PR is *)
(* the target of the latest PASS, fast-forward local main, set the Task to  *)
(* Done and delete the Task branch here and on GitHub.  An effect that does *)
(* not converge is left pending, for a later closeout to retry.             *)
(***************************************************************************)
EXTENDS LckReview

\* _validate_merged_identity: a branch that still exists is at the merged head.
AtMergedHead(h) == h \in {NoCommit, merged.head}

\* start and prior keep the local and remote tips of the snapshot.
CloseoutStart ==
    /\ op = Idle /\ pr = "merged"
    /\ AtMergedHead(local) /\ AtMergedHead(remote)
    /\ LatestPassOn([merged EXCEPT !.body = body])
    /\ op' = [Begin("closeout", "sync", merged.head, latest.rid, "none")
                 EXCEPT !.start = local, !.prior = remote]
    /\ UNCHANGED <<github, clone, commits, store, history, spent>>

\* The worktree leaves the Task branch for main; without that, pending, the
\* metadata still converge but no branch is deleted.
SynchronizeMain ==
    /\ At("closeout", "sync")
    /\ \/ work = "clean" /\ Goto("metadata")
       \/ Goto("metadataOnly")
    /\ UNCHANGED <<github, clone, commits, store, history, spent>>

ConvergeMetadata ==
    /\ op.name = "closeout" /\ op.step \in {"metadata", "metadataOnly"}
    /\ status' \in {status, "Done"}
    /\ op' = IF op.step = "metadata" THEN [op EXCEPT !.step = "cleanupLocal"] ELSE Idle
    /\ UNCHANGED <<main, body, remote, pr, merged, clone, commits, store, history,
                   spent>>

\* The head tree equals the squash tree and no worktree holds the branch.
DeleteLocalBranch ==
    /\ At("closeout", "cleanupLocal")
    /\ op.start # NoCommit => local = op.head
    /\ local' = NoCommit /\ Goto("cleanupRemote")
    /\ UNCHANGED <<github, work, commits, store, history, spent>>

\* ls-remote shows the merged head, or nothing: GitHub deleted the branch.
VerifyRemoteTip ==
    /\ At("closeout", "cleanupRemote")
    /\ \/ op.prior # NoCommit /\ remote = op.head /\ Goto("delete")
       \/ (op.prior = NoCommit \/ remote = NoCommit) /\ op' = Idle
    /\ UNCHANGED <<github, clone, commits, store, history, spent>>

\* git push origin --delete, without a lease on the tip that was verified.
DeleteRemoteBranch ==
    /\ At("closeout", "delete")
    /\ remote' = NoCommit /\ op' = Idle
    /\ UNCHANGED <<main, body, pr, merged, status, clone, commits, store, history,
                   spent>>

\* A failed proof, or an effect left pending.
StopCloseout ==
    /\ op.name = "closeout" /\ op' = Idle
    /\ UNCHANGED <<github, clone, commits, store, history, spent>>

CloseoutNext ==
    \/ CloseoutStart \/ SynchronizeMain \/ ConvergeMetadata \/ DeleteLocalBranch
    \/ VerifyRemoteTip \/ DeleteRemoteBranch \/ StopCloseout
=============================================================================
