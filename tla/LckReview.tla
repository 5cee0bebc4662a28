------------------------------ MODULE LckReview ------------------------------
(***************************************************************************)
(* Independent Review: Prepare validates an exact PR target in a clone of   *)
(* its own and hands it off, Complete accepts a verdict if the target is     *)
(* still live, Merge Preflight tells the maintainer that the latest PASS     *)
(* still holds.                                                             *)
(***************************************************************************)
EXTENDS LckState

ReviewEligible == pr = "open" /\ status \in {"Review", "InProgress"}

\* The handed-off Review still owns its guard and its clone.
HandoffOwned ==
    /\ marker.state = "handedOff"
    /\ guard[marker.rid] # NoTarget /\ marker.rid \in clones

\* begin_review_prepare claims the marker over whatever a dead invocation left.
PrepareReviewBegin ==
    /\ op = Idle /\ session = NoSession /\ ~HandoffOwned
    /\ marker' = [state |-> "preparing", rid |-> NoReview]
    /\ op' = Begin("prepareReview",
                   CASE marker.state = "none"       -> "snapshot"
                     [] marker.state = "preparing"  -> "recoverClone"
                     [] marker.state = "handedOff"  -> "recoverHandoff",
                   NoCommit, marker.rid, "none")
    /\ UNCHANGED <<github, clone, commits, required, guard, clones, record, latest,
                   repairStore, history, spent>>

\* The clone of the dead invocation goes, and its guard if it knew a review id.
PrepareReviewRecover ==
    /\ op.name = "prepareReview" /\ op.step \in {"recoverClone", "recoverHandoff"}
    /\ clones' = clones \ {op.rid}
    /\ guard' = [r \in Reviews |->
                    IF op.step = "recoverHandoff" /\ r = op.rid
                    THEN NoTarget ELSE guard[r]]
    /\ op' = [op EXCEPT !.step = "snapshot", !.rid = NoReview]
    /\ UNCHANGED <<github, clone, commits, required, marker, record, latest,
                   repairStore, history, spent>>

\* Freeze the target and clone it; the marker names the clone first.
PrepareReviewClone ==
    /\ At("prepareReview", "snapshot") /\ ReviewEligible
    /\ opened < MaxReview /\ opened' = opened + 1
    /\ marker' = [state |-> "preparing", rid |-> opened + 1]
    /\ clones' = clones \cup {opened + 1}
    /\ op' = Begin("prepareReview", "validate", remote, opened + 1, "none")
    /\ UNCHANGED <<github, clone, commits, required, guard, record, latest,
                   repairStore, history, crashes, foreign, retouched>>

\* Formal validation of the frozen head on the frozen base, in the clone.
PrepareReviewValidate ==
    /\ At("prepareReview", "validate")
    /\ validated' = validated \cup {<<op.head, op.base>>}
    /\ Goto("guard")
    /\ UNCHANGED <<github, clone, commits, store, pushed, repaired, unfenced, ready,
                   spent>>

PrepareReviewGuard ==
    /\ At("prepareReview", "guard")
    /\ guard' = [guard EXCEPT ![op.rid] =
                    [head |-> op.head, base |-> op.base, body |-> op.body]]
    /\ Goto("handoff")
    /\ UNCHANGED <<github, clone, commits, required, marker, clones, record, latest,
                   repairStore, history, spent>>

HandoffWithoutId ==                          \* mutant: review id not stored
    /\ At("prepareReview", "handoff")
    /\ marker' = [state |-> "handedOff", rid |-> NoReview] /\ op' = Idle
    /\ UNCHANGED <<github, clone, commits, required, guard, clones, record,
                   latest, repairStore, history, spent>>
PrepareReviewHandoff ==
    /\ At("prepareReview", "handoff")
    /\ marker' = [state |-> "handedOff", rid |-> op.rid] /\ op' = Idle
    /\ UNCHANGED <<github, clone, commits, required, guard, clones, record,
                   latest, repairStore, history, spent>>

\* The failure path removes the clone and the marker; a guard already written
\* is left behind under an id nobody was told.
StopPrepareReview ==
    /\ op.name = "prepareReview"
    /\ marker' = NoMarker /\ op' = Idle
    /\ clones' = IF op.step \in {"recoverClone", "recoverHandoff"}
                 THEN clones ELSE clones \ {op.rid}
    /\ UNCHANGED <<github, clone, commits, required, guard, record, latest,
                   repairStore, history, spent>>

-----------------------------------------------------------------------------
CanComplete ==
    /\ op = Idle /\ marker.state = "handedOff"
    /\ guard[marker.rid] # NoTarget /\ ReviewEligible

\* The fresh snapshot still shows the reviewed target; for a PASS the required
\* checks have passed.
CompleteReviewStart(verdict) ==
    /\ CanComplete
    /\ LiveTarget = guard[marker.rid] /\ marker.rid \in clones
    /\ op' = Begin("completeReview", "record", remote, marker.rid, verdict)
    /\ UNCHANGED <<github, clone, commits, store, history, spent>>

\* ReviewStaleError ends this Review without a verdict.
CompleteReviewStale ==
    /\ CanComplete /\ LiveTarget # guard[marker.rid]
    /\ op' = Begin("completeReview", "removeClone", remote, marker.rid, "none")
    /\ UNCHANGED <<github, clone, commits, store, history, spent>>

WriteRecord ==
    /\ At("completeReview", "record")
    /\ record' = [record EXCEPT ![op.rid] =
                     [verdict |-> op.verdict, target |-> guard[op.rid]]]
    /\ Goto("latest")
    /\ UNCHANGED <<github, clone, commits, required, marker, guard, clones,
                   latest, repairStore, history, spent>>

WriteLatest ==
    /\ At("completeReview", "latest")
    /\ latest' = [rid |-> op.rid, verdict |-> op.verdict] /\ Goto("clear")
    /\ UNCHANGED <<github, clone, commits, required, marker, guard, clones,
                   record, repairStore, history, spent>>

ClearRequired ==
    /\ At("completeReview", "clear")
    /\ required' = NoCommit /\ Goto("removeClone")
    /\ UNCHANGED <<github, clone, commits, reviewStore, repairStore, history,
                   spent>>

RemoveClone ==
    /\ At("completeReview", "removeClone")
    /\ clones' = clones \ {op.rid} /\ Goto("dropGuard")
    /\ UNCHANGED <<github, clone, commits, required, marker, guard, record,
                   latest, repairStore, history, spent>>

DropGuard ==
    /\ At("completeReview", "dropGuard")
    /\ guard' = [guard EXCEPT ![op.rid] = NoTarget] /\ Goto("release")
    /\ UNCHANGED <<github, clone, commits, required, marker, clones, record,
                   latest, repairStore, history, spent>>

ReleaseMarker ==
    /\ At("completeReview", "release")
    /\ marker' = NoMarker /\ op' = Idle
    /\ UNCHANGED <<github, clone, commits, required, guard, clones, record,
                   latest, repairStore, history, spent>>

-----------------------------------------------------------------------------
\* ReviewPassGate: the latest Review is a PASS for exactly the target t.
LatestPassOnHead(t) ==                       \* mutant: base and contract ignored
    /\ latest.verdict = "PASS" /\ latest.rid # NoReview
    /\ record[latest.rid].verdict = "PASS"
    /\ record[latest.rid].target.head = t.head
LatestPassAnywhere(t) ==                     \* mutant: target ignored
    latest.verdict = "PASS" /\ latest.rid # NoReview
LatestPassOn(t) ==
    /\ latest.verdict = "PASS" /\ latest.rid # NoReview
    /\ record[latest.rid] = [verdict |-> "PASS", target |-> t]

MergePreflight ==
    /\ op = Idle /\ pr = "open" /\ status = "Review" /\ local = remote
    /\ LatestPassOn(LiveTarget)
    /\ ready' = LiveTarget
    /\ UNCHANGED <<github, clone, commits, store, op, validated, pushed, repaired,
                   unfenced, spent>>

ReviewNext ==
    \/ PrepareReviewBegin \/ PrepareReviewRecover \/ PrepareReviewClone
    \/ PrepareReviewValidate
    \/ PrepareReviewGuard \/ PrepareReviewHandoff \/ StopPrepareReview
    \/ \E v \in Verdicts : CompleteReviewStart(v)
    \/ CompleteReviewStale \/ WriteRecord \/ WriteLatest \/ ClearRequired
    \/ RemoveClone \/ DropGuard \/ ReleaseMarker
    \/ MergePreflight
=============================================================================
