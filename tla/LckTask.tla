------------------------------- MODULE LckTask -------------------------------
(***************************************************************************)
(* The life of one Task: Delivery, Review, Remediation, Candidate Refresh   *)
(* and Closeout under the Task lock, between GitHub, the developer, another *)
(* writer of the branch, and process death.                                 *)
(***************************************************************************)
EXTENDS LckRemediation, LckCloseout, LckRefresh

LckNext ==
    \/ DeliveryNext \/ RemediationNext \/ ReviewNext \/ RefreshNext \/ CloseoutNext
Next == Environment \/ LckNext
Spec == Init /\ [][Next]_vars

-----------------------------------------------------------------------------
GitHubOK ==
    /\ main \in Mains /\ body \in Bodies /\ remote \in Heads
    /\ pr \in {"none", "open", "merged"}
    /\ merged \in Targets \cup {NoTarget}
    /\ status \in {"Ready", "InProgress", "Review", "Done"}
CloneOK ==
    /\ local \in Heads /\ work \in {"clean", "edited", "staged"}
    /\ made \in Heads
    /\ anc \in [Commits -> SUBSET Commits] /\ onto \in [Commits -> 0..MaxMain]
ReviewStoreOK ==
    /\ marker \in Markers
    /\ guard \in [Reviews -> Targets \cup {NoTarget}] /\ clones \subseteq Reviews
    /\ record \in [Reviews -> Records]
    /\ latest \in [rid: Reviews, verdict: Verdicts] \cup {NoLatest}
RepairStoreOK ==
    /\ required \in Heads /\ session \in Sessions \cup {NoSession}
    /\ receipt \in [Reviews \cup {Foreign} ->
                       [start: Heads, base: Mains] \cup {NoReceipt}]
HistoryOK ==
    /\ validated \subseteq Heads \X Mains
    /\ pushed \subseteq Heads /\ repaired \subseteq Heads /\ unfenced \subseteq Heads
    /\ ready \in Targets \cup {NoTarget}
    /\ crashes \in Nat /\ foreign \in Nat /\ retouched \in Nat
    /\ opened \in 0..MaxReview
\* Every variable has its type: in particular the marker files of
\* ReviewInvocationStore only ever hold identities that exist.
TypeOK ==
    GitHubOK /\ CloneOK /\ ReviewStoreOK /\ RepairStoreOK /\ op \in Ops /\ HistoryOK

-----------------------------------------------------------------------------
(* Safety. *)

ValidatedHeads == {NoCommit} \cup {p[1] : p \in validated}

\* Evidence before effect: no head is pushed by LCK, owned by a Remediation
\* session as its candidate, or fenced for a fresh Review, unless formal
\* validation covered exactly the content that was committed as that head,
\* whatever the developer did to the worktree meanwhile and wherever an earlier
\* operation died (verify_tree_unchanged, record_remediation_candidate,
\* write_review_required, the exact-lease push).
EvidenceBeforeEffect ==
    pushed \cup {session.cand, required} \subseteq ValidatedHeads

\* The fresh-Review boundary: when the branch on GitHub is a head that
\* Remediation or Refresh pushed and no Review has judged, then between
\* operations either the boundary stands or the session that owns that head is
\* still there to raise it, whichever step an operation died at or gave up
\* (write_review_required, clear_remediation_session, restore_review_required,
\* clear_review_required).  The boundary may name another head: a Refresh whose
\* push was lost leaves the name of its own candidate.
\* One head is excepted, and only until its boundary is raised: one pushed by a
\* Remediation Complete that had no session (the compatible path,
\* remediation.py:691-699).  Nothing records that candidate (737-739), so when
\* the operation stops between its push and write_review_required (775) the head
\* is left with neither, which review-and-remediation.md:340-342 does not allow.
FreshReviewBoundary ==
    (op = Idle /\ remote \in repaired \ unfenced
       /\ \A r \in Reviews : record[r].target.head # remote)
    => required # NoCommit \/ session.cand = remote

\* No LCK push loses what another writer put on the Task branch: it is a
\* fast-forward, or Refresh exchanging the head it started from and its own.
\* (What Closeout may delete is the subject of DeletesOnlyProvenHead.)
NoForeignWorkLost ==
    [][(remote' \notin {remote, NoCommit} /\ foreign' = foreign) =>
         \/ IsAncestor(remote, remote')
         \/ op.name = "refresh" /\ {remote, remote'} = {op.start, op.head}]_vars

\* A Task is Done only if the PR was merged with exactly the head and base an
\* independent Review passed and formal validation covered.
DoneIsReviewed ==
    status = "Done" =>
        /\ <<merged.head, merged.base>> \in validated
        /\ \E r \in Reviews :
              /\ record[r].verdict = "PASS"
              /\ record[r].target.head = merged.head
              /\ record[r].target.base = merged.base

\* lifecycle.md:329-331: no leftover Remediation session locks later invocations
\* out.  With the boundary up, every Remediation operation stops on it, while
\* Review Prepare and Refresh stop on the session.  Complete writes the boundary
\* before it clears the session (remediation.py:775-776).
NoLockedSession == op = Idle => required = NoCommit \/ session = NoSession

-----------------------------------------------------------------------------
(* Refinement: the markers implement the promise to the maintainer. *)
EvidenceOf(t) == <<t.head, t.base>>
Promise == INSTANCE MergeAuthority WITH
    Target <- Targets, Evidence <- EvidenceOf, None <- NoTarget,
    evidence <- validated,
    accepted <- IF latest = NoLatest THEN NoTarget ELSE record[latest.rid],
    ready <- ready,
    closed <- IF status = "Done" THEN {EvidenceOf(merged)} ELSE {}
\* Every run of LCK is a run of MergeAuthority.
ImplementsMergeAuthority == Promise!Spec

-----------------------------------------------------------------------------
(* What the documentation says of Closeout and of Remediation sessions. *)

\* lifecycle.md:373: Closeout deletes the Task branch only under a complete proof
\* of its head.  The tip is verified by ls-remote, then deleted without a lease
\* (closeout.py, CleanupTaskRefsEffect).
DeletesOnlyProvenHead ==
    [][remote # NoCommit /\ remote' = NoCommit => remote = merged.head]_vars

\* lifecycle.md:329-331: a handed-off Review and an unfinished Remediation
\* session never interleave.  Review Prepare stops on a session; Remediation
\* Prepare (remediation.py:204-211) does not look at the Review marker.
RolesDoNotOverlap == session # NoSession => marker.state # "handedOff"

\* design-charter-v1.md:471: a prepared session whose target is untouched has an
\* explicit terminal path, remediation no-change.  The receipt of an earlier
\* no-change of the same Review must then equal the one about to be written
\* (write_remediation_no_change_receipt).
NoChangeTerminal ==
    (op = Idle /\ required = NoCommit /\ session # NoSession
       /\ RemediationEligible /\ TargetUntouched)
    => receipt[session.rid] \in {NoReceipt, NoChangeTerms}
=============================================================================
