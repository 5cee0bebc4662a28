--------------------------- MODULE LckRemediation ---------------------------
(***************************************************************************)
(* Remediation after a failed Review: Prepare writes a durable session,     *)
(* Complete pushes a repaired head and raises the fresh-Review boundary,    *)
(* No Change closes the session without a new head.                         *)
(***************************************************************************)
EXTENDS LckDelivery

\* _failed_review_record: the record is FAIL and is the latest Review.
LatestFail(r) ==
    /\ r \in Reviews /\ record[r].verdict = "FAIL"
    /\ latest = [rid |-> r, verdict |-> "FAIL"]
\* _remediation_findings: local record, or a findings file from elsewhere.
HasFindings(r) == LatestFail(r) \/ (PortableFindings /\ r = Foreign)
RemediationEligible == pr = "open" /\ status = "Review"

-----------------------------------------------------------------------------
PrepareRepairStart(r) ==
    /\ op = Idle /\ required = NoCommit
    /\ HasFindings(r) /\ RemediationEligible /\ local = remote
    /\ op' = Begin("prepareRepair", "write", remote, r, "none")
    /\ UNCHANGED <<github, clone, commits, store, history, spent>>

\* write_remediation_session: only the same review and start head may rewrite.
SessionWritable ==
    session = NoSession \/ (session.rid = op.rid /\ session.start = op.head)
PrepareRepairWrite ==
    /\ At("prepareRepair", "write") /\ local = op.head /\ SessionWritable
    /\ session' = [rid |-> op.rid, start |-> op.head, base |-> op.base,
                   cand |-> NoCommit]
    /\ op' = Idle
    /\ UNCHANGED <<github, clone, commits, required, reviewStore, receipt,
                   history, spent>>

StopPrepareRepair ==
    /\ op.name = "prepareRepair" /\ op' = Idle
    /\ UNCHANGED <<github, clone, commits, store, history, spent>>

-----------------------------------------------------------------------------
\* No Change: the prepared target is untouched; receipt first, then release.
TargetUntouched ==
    /\ local = session.start /\ remote = session.start
    /\ main = session.base /\ work = "clean"
NoChangeTerms == [start |-> session.start, base |-> session.base]
NoChangeReceipt(r) ==
    /\ op = Idle /\ required = NoCommit
    /\ session # NoSession /\ session.rid = r
    /\ RemediationEligible /\ TargetUntouched
    /\ receipt[r] \in {NoReceipt, NoChangeTerms}
    /\ receipt' = [receipt EXCEPT ![r] = NoChangeTerms]
    /\ op' = Begin("noChange", "release", remote, r, "none")
    /\ UNCHANGED <<github, clone, commits, required, reviewStore, session,
                   history, spent>>

-----------------------------------------------------------------------------
\* _owned_candidate_recovery: the local commit is the session's own candidate
\* and the PR has not moved since the session was prepared.
OwnedCandidate ==
    /\ session # NoSession /\ session.cand # NoCommit
    /\ local = session.cand /\ remote = session.start /\ main = session.base
    /\ work = "clean" /\ IsAncestor(session.start, session.cand)

\* With no session, Complete still accepts the latest failed Review (the
\* compatible path) and takes its reviewed head as the start head.
RepairBegins(r, start) ==
    /\ RemediationEligible
    /\ local = remote \/ OwnedCandidate
    /\ StageCandidate
    /\ work = "clean" => local # start
    /\ op' = [Begin("repair", "validate", local, r, "none") EXCEPT !.start = start]
RepairStart(r) ==
    /\ op = Idle /\ required = NoCommit
    /\ \/ session # NoSession /\ session.rid = r /\ RepairBegins(r, session.start)
       \/ session = NoSession /\ LatestFail(r)
          /\ RepairBegins(r, record[r].target.head)
    /\ UNCHANGED <<github, local, commits, store, history, spent>>

\* The new head needs a fresh Review; then the session ends.
RaiseBoundary ==
    /\ At("repair", "boundary") /\ op.head # op.start
    /\ required' = op.head /\ Goto("release")
    /\ unfenced' = unfenced \ {op.head}
    /\ UNCHANGED <<github, clone, commits, reviewStore, repairStore, validated,
                   pushed, repaired, ready, spent>>

ReleaseSession ==
    /\ op.name \in {"repair", "noChange"} /\ op.step = "release"
    /\ session' = NoSession /\ op' = Idle
    /\ UNCHANGED <<github, clone, commits, required, reviewStore, receipt,
                   history, spent>>

RemediationNext ==
    \/ \E r \in Reviews \cup {Foreign} :
           PrepareRepairStart(r) \/ NoChangeReceipt(r) \/ RepairStart(r)
    \/ PrepareRepairWrite \/ StopPrepareRepair \/ RaiseBoundary \/ ReleaseSession
=============================================================================
