--------------------------- MODULE LckSafetyProofs ---------------------------
(***************************************************************************)
(* For every value of the bounds: every variable keeps its type, by way of  *)
(* what the running operation knows at each step; evidence before effect, a *)
(* Task is Done only as reviewed, no foreign work is lost, and LckTask      *)
(* implements MergeAuthority.                                               *)
(***************************************************************************)
EXTENDS LckTask, TLAPS

\* What the running operation o knows, step by step, that its next write needs,
\* g being the Review guards: without it a marker could be written from a field
\* that was never set.
Knows(o, g) ==
    /\ o \in Ops
    /\ o.name = "idle" => o = Idle
    /\ o.name # "idle" => o.base \in Mains /\ o.body \in Bodies
    /\ o.name = "prepareRepair" => o.rid \in Reviews \cup {Foreign}
    /\ o.name = "prepareReview" /\ o.step \in {"validate", "guard", "handoff"}
         => o.rid \in Reviews
    /\ o.name = "completeReview" =>
         /\ o.rid \in Reviews
         /\ o.step \in {"record", "latest"} => o.verdict \in Verdicts
         /\ o.step = "record" => g[o.rid] # NoTarget
Typed ==
    /\ GitHubOK /\ CloneOK /\ ReviewStoreOK /\ RepairStoreOK /\ HistoryOK
    /\ Knows(op, guard)

USE BoundsAssumption

-----------------------------------------------------------------------------
(* Lemmas about the building blocks. *)

\* An operation that begins has a well-formed snapshot.
LEMMA BeginTyped ==
    ASSUME NEW name \in OpNames, NEW step \in Steps, NEW head \in Heads,
           NEW rid \in 0..(MaxReview + 1), NEW verdict \in Verdicts \cup {"none"},
           main \in Mains, body \in Bodies
    PROVE  LET b == Begin(name, step, head, rid, verdict)
           IN  /\ b \in Ops
               /\ b.name = name /\ b.step = step /\ b.head = head /\ b.start = head
               /\ b.base = main /\ b.body = body /\ b.rid = rid
               /\ b.verdict = verdict /\ b.prior = NoCommit
BY DEF Begin, Ops, Heads, Mains, Bodies, NoCommit, NoReview

\* No operation: the empty snapshot, which knows nothing.
LEMMA IdleKnows == \A g : Knows(Idle, g)
BY DEF Knows, Idle, Ops, OpNames, Steps, Heads, NoCommit, NoReview

\* Outside Review, an operation may go to any step: nothing more is needed.
LEMMA GotoKnows ==
    ASSUME Knows(op, guard), NEW step \in Steps, Goto(step),
           op.name \notin {"idle", "prepareReview", "completeReview"}
    PROVE  /\ \A g : Knows(op', g)
           /\ op' = [op EXCEPT !.step = step]
BY DEF Knows, Goto, Ops

\* A new commit is a commit, and the graph of commits stays one.
LEMMA CommitTyped ==
    ASSUME CloneOK, NEW p \in Heads, NEW base \in 0..MaxMain, MakeCommit(p, base)
    PROVE  /\ New \in Commits /\ made' \in Heads
           /\ anc' \in [Commits -> SUBSET Commits]
           /\ onto' \in [Commits -> 0..MaxMain]
<1>1. New \in Commits /\ made' \in Heads
  BY DEF CloneOK, MakeCommit, New, Commits, Heads
<1>2. {New} \cup (IF p = NoCommit THEN {} ELSE anc[p]) \in SUBSET Commits
  BY <1>1 DEF CloneOK, Commits, Heads, NoCommit
<1>3. QED
  BY <1>1, <1>2 DEF CloneOK, MakeCommit

\* A commit made on p, with the version of main p contains, is a new Task head.
LEMMA CommitOnTyped ==
    ASSUME CloneOK, NEW p \in Heads, MakeCommit(p, MainOf(p))
    PROVE  /\ New \in Commits /\ New \in Heads /\ made' \in Heads
           /\ anc' \in [Commits -> SUBSET Commits]
           /\ onto' \in [Commits -> 0..MaxMain]
<1>1. MainOf(p) \in 0..MaxMain
  BY DEF CloneOK, MainOf, Heads, Commits, NoCommit
<1>2. New \in Commits => New \in Heads
  BY DEF Commits, Heads
<1>3. QED
  BY <1>1, <1>2, CommitTyped

\* A part of the state that a step leaves alone keeps its type.
LEMMA Frame ==
    /\ GitHubOK /\ UNCHANGED github => GitHubOK'
    /\ CloneOK /\ UNCHANGED <<clone, commits>> => CloneOK'
    /\ ReviewStoreOK /\ UNCHANGED reviewStore => ReviewStoreOK'
    /\ RepairStoreOK /\ UNCHANGED <<required, repairStore>> => RepairStoreOK'
    /\ HistoryOK /\ UNCHANGED <<history, spent>> => HistoryOK'
<1>1. GitHubOK /\ UNCHANGED github => GitHubOK'
  BY DEF GitHubOK, github
<1>2. CloneOK /\ UNCHANGED <<clone, commits>> => CloneOK'
  BY DEF CloneOK, clone, commits
<1>3. ReviewStoreOK /\ UNCHANGED reviewStore => ReviewStoreOK'
  BY DEF ReviewStoreOK, reviewStore
<1>4. RepairStoreOK /\ UNCHANGED <<required, repairStore>> => RepairStoreOK'
  BY DEF RepairStoreOK, repairStore
<1>5. HistoryOK /\ UNCHANGED <<history, spent>> => HistoryOK'
  BY DEF HistoryOK, history, spent
<1>6. QED
  BY <1>1, <1>2, <1>3, <1>4, <1>5

-----------------------------------------------------------------------------
\* Steps outside LCK keep every variable in its type.
LEMMA EnvironmentTyped == Typed /\ Environment => Typed'
<1> SUFFICES ASSUME Typed, Environment PROVE Typed'
  OBVIOUS
<1>0. GitHubOK /\ CloneOK /\ HistoryOK /\ Knows(op, guard)
  BY DEF Typed
<1>1. CASE MainAdvances
  <2>1. GitHubOK'
    BY <1>0, <1>1 DEF MainAdvances, GitHubOK, Mains
  <2>2. QED
    BY <1>1, <2>1, Frame DEF MainAdvances, Typed, store, reviewStore
<1>2. CASE ContractEdited
  <2>1. GitHubOK'
    BY <1>0, <1>2 DEF ContractEdited, GitHubOK, Bodies
  <2>2. QED
    BY <1>2, <2>1, Frame DEF ContractEdited, Typed, store, reviewStore
<1>3. CASE ForeignPush
  <2>1. PICK p \in {NoCommit, remote} : MakeCommit(p, MainOf(p))
    BY <1>3 DEF ForeignPush
  <2>2. p \in Heads
    BY <1>0, <2>1 DEF GitHubOK, NoCommit, Heads
  <2>3. New \in Heads /\ CloneOK'
    BY <1>0, <1>3, <2>1, <2>2, CommitOnTyped DEF ForeignPush, clone, CloneOK
  <2>4. GitHubOK' /\ HistoryOK'
    BY <1>0, <1>3, <2>3 DEF ForeignPush, GitHubOK, HistoryOK, history
  <2>5. QED
    BY <1>3, <2>3, <2>4, Frame DEF ForeignPush, Typed, store, reviewStore
<1>4. CASE HumanMerge
  <2>1. GitHubOK'
    BY <1>0, <1>4 DEF HumanMerge, GitHubOK, LiveTarget, Targets
  <2>2. QED
    BY <1>4, <2>1, Frame DEF HumanMerge, Typed, store, reviewStore
<1>5. CASE DeveloperEdit
  <2>1. CloneOK'
    BY <1>0, <1>5 DEF DeveloperEdit, CloneOK, commits
  <2>2. QED
    BY <1>5, <2>1, Frame DEF DeveloperEdit, Typed, store, reviewStore
<1>6. CASE DeveloperCommit
  <2>1. New \in Heads /\ CloneOK'
    BY <1>0, <1>6, CommitOnTyped DEF DeveloperCommit, CloneOK
  <2>2. HistoryOK'
    BY <1>0, <1>6 DEF DeveloperCommit, HistoryOK, history
  <2>3. QED
    BY <1>6, <2>1, <2>2, Frame DEF DeveloperCommit, Typed, store, reviewStore
<1>7. CASE DeveloperSync
  <2>1. CloneOK' /\ HistoryOK'
    BY <1>0, <1>7 DEF DeveloperSync, GitHubOK, CloneOK, HistoryOK, commits, history
  <2>2. QED
    BY <1>7, <2>1, Frame DEF DeveloperSync, Typed, store, reviewStore
<1>8. CASE Crash
  <2>1. HistoryOK' /\ Knows(op', guard')
    BY <1>0, <1>8, IdleKnows DEF Crash, HistoryOK, history
  <2>2. QED
    BY <1>8, <2>1, Frame DEF Crash, Typed, store
<1>9. QED
  BY <1>1, <1>2, <1>3, <1>4, <1>5, <1>6, <1>7, <1>8 DEF Environment

-----------------------------------------------------------------------------
\* Steps that only move the operation on.
Quiet == UNCHANGED <<github, clone, commits, store, history, spent>>
\* A step that changes only the running operation keeps the types.
LEMMA QuietTyped ==
    ASSUME Typed, Quiet, Knows(op', guard)
    PROVE  Typed'
BY Frame DEF Typed, Quiet, store, reviewStore

\* What the candidate's certificate covers is a head on a version of main.
LEMMA CertifyTyped ==
    ASSUME HistoryOK, NEW c \in Heads, op.base \in Mains, Certify(c)
    PROVE  validated' \subseteq Heads \X Mains
BY DEF HistoryOK, Certify

\* A pushed head enters the history as a head.
LEMMA LandedTyped ==
    ASSUME HistoryOK, NEW c \in Heads, Landed(c)
    PROVE  pushed' \subseteq Heads /\ repaired' \subseteq Heads /\ unfenced' \subseteq Heads
BY DEF HistoryOK, Landed

\* The delivery pipeline keeps the types.
LEMMA DeliveryTyped == Typed /\ DeliveryNext => Typed'
<1> SUFFICES ASSUME Typed, DeliveryNext PROVE Typed'
  OBVIOUS
<1>0. /\ GitHubOK /\ CloneOK /\ RepairStoreOK /\ HistoryOK /\ Knows(op, guard)
      /\ op.head \in Heads
      /\ op.name # "idle" => op.base \in Mains
  BY DEF Typed, Knows, Ops
<1>1. CASE DeliverPrepare
  <2>1. GitHubOK'
    BY <1>0, <1>1 DEF DeliverPrepare, GitHubOK
  <2>2. QED
    BY <1>1, <2>1, Frame DEF DeliverPrepare, Typed, store, reviewStore
<1>2. CASE DeliverStart
  <2>1. CloneOK'
    BY <1>0, <1>2, SMTT(30) DEF DeliverStart, StageCandidate, CloneOK, commits
  <2>2. Knows(op', guard)
    BY <1>0, <1>2, BeginTyped
       DEF DeliverStart, Knows, GitHubOK, CloneOK, OpNames, Steps, NoReview
  <2>3. QED
    BY <1>2, <2>1, <2>2, Frame DEF DeliverStart, Typed, store, reviewStore
<1>3. CASE ValidateCandidate
  BY <1>0, <1>3, QuietTyped, GotoKnows
     DEF ValidateCandidate, PipelineAt, Pipeline, Quiet, Steps
<1>4. CASE CommitCandidate
  <2>0. op.name \in Pipeline /\ op.base \in Mains
    BY <1>0, <1>4 DEF CommitCandidate, PipelineAt, Pipeline
  <2>1. CASE work = "clean"
    <3>1. Certify(op.head) /\ Goto(AfterCommit) /\ UNCHANGED <<clone, commits>>
      BY <1>4, <2>1 DEF CommitCandidate
    <3>2. Knows(op', guard)
      BY <1>0, <2>0, <3>1, GotoKnows DEF AfterCommit, StraightToPush, Pipeline, Steps
    <3>3. validated' \subseteq Heads \X Mains
      BY <1>0, <2>0, <3>1, CertifyTyped
    <3>4. HistoryOK'
      BY <1>0, <1>4, <3>3 DEF CommitCandidate, HistoryOK, spent
    <3>5. QED
      BY <1>4, <3>1, <3>2, <3>4, Frame DEF CommitCandidate, Typed, store, reviewStore
  <2>2. CASE work # "clean"
    <3>1. /\ MakeCommit(op.head, MainOf(op.head)) /\ Certify(New)
          /\ local' = New /\ work' = "clean"
          /\ op' = [op EXCEPT !.head = New, !.step = AfterCommit]
      BY <1>4, <2>2 DEF CommitCandidate
    <3>2. /\ New \in Heads /\ made' \in Heads
          /\ anc' \in [Commits -> SUBSET Commits] /\ onto' \in [Commits -> 0..MaxMain]
      BY <1>0, <3>1, CommitOnTyped
    <3>3. CloneOK'
      BY <3>1, <3>2 DEF CloneOK
    <3>4. Knows(op', guard)
      BY <1>0, <2>0, <3>1, <3>2, ZenonT(60) DEF Knows, Ops, AfterCommit, Pipeline, Steps
    <3>5. validated' \subseteq Heads \X Mains
      BY <1>0, <2>0, <3>1, <3>2, CertifyTyped
    <3>6. HistoryOK'
      BY <1>0, <1>4, <3>5 DEF CommitCandidate, HistoryOK, spent
    <3>7. QED
      BY <1>4, <3>3, <3>4, <3>6, Frame DEF CommitCandidate, Typed, store, reviewStore
  <2>3. QED
    BY <2>1, <2>2
<1>5. CASE RecordCandidate
  <2>1. /\ session \in Sessions
        /\ session' = [session EXCEPT !.cand = op.head]
        /\ UNCHANGED <<required, receipt>>
    BY <1>0, <1>5 DEF RecordCandidate, RepairStoreOK
  <2>2. RepairStoreOK'
    BY <1>0, <2>1 DEF RepairStoreOK, Sessions
  <2>3. Knows(op', guard)
    BY <1>0, <1>5, GotoKnows DEF RecordCandidate, PipelineAt, Pipeline, Steps
  <2>4. QED
    BY <1>5, <2>2, <2>3, Frame DEF RecordCandidate, Typed, reviewStore
<1>6. CASE AlreadySynced
  BY <1>0, <1>6, QuietTyped, GotoKnows DEF AlreadySynced, PipelineAt, Pipeline, Quiet, Steps
<1>7. CASE PushCandidate
  <2>1. pushed' \subseteq Heads /\ repaired' \subseteq Heads /\ unfenced' \subseteq Heads
    BY <1>0, <1>7, LandedTyped DEF PushCandidate
  <2>2. GitHubOK' /\ HistoryOK'
    BY <1>0, <1>7, <2>1 DEF PushCandidate, GitHubOK, HistoryOK, spent
  <2>3. Knows(op', guard)
    BY <1>0, <1>7, GotoKnows, IdleKnows
       DEF PushCandidate, PipelineAt, Pipeline, Goto, Steps
  <2>4. QED
    BY <1>7, <2>2, <2>3, Frame DEF PushCandidate, Typed, store, reviewStore
<1>8. CASE ConfirmPush
  BY <1>0, <1>8, QuietTyped, GotoKnows DEF ConfirmPush, PipelineAt, Pipeline, Quiet, Steps
<1>9. CASE EnsureOpenPr
  <2>1. GitHubOK'
    BY <1>0, <1>9 DEF EnsureOpenPr, GitHubOK
  <2>2. Knows(op', guard)
    BY <1>0, <1>9, GotoKnows DEF EnsureOpenPr, At, Steps
  <2>3. QED
    BY <1>9, <2>1, <2>2, Frame DEF EnsureOpenPr, Typed, store, reviewStore
<1>10. CASE VerifyPr
  BY <1>0, <1>10, QuietTyped, GotoKnows DEF VerifyPr, At, Quiet, Steps
<1>11. CASE SetReviewStatus
  <2>1. GitHubOK'
    BY <1>0, <1>11 DEF SetReviewStatus, GitHubOK
  <2>2. Knows(op', guard)
    BY <1>0, <1>11, GotoKnows DEF SetReviewStatus, PipelineAt, Pipeline, Steps
  <2>3. QED
    BY <1>11, <2>1, <2>2, Frame DEF SetReviewStatus, Typed, store, reviewStore
<1>12. CASE VerifyLocalCompletion
  BY <1>0, <1>12, QuietTyped, GotoKnows, IdleKnows
     DEF VerifyLocalCompletion, PipelineAt, Pipeline, Goto, Quiet, Steps
<1>13. CASE StopPipeline
  BY <1>13, QuietTyped, IdleKnows DEF StopPipeline, Quiet
<1>14. QED
  BY <1>1, <1>2, <1>3, <1>4, <1>5, <1>6, <1>7, <1>8, <1>9, <1>10, <1>11, <1>12,
     <1>13 DEF DeliveryNext

\* Remediation keeps the types: sessions and receipts name heads and mains that exist.
LEMMA RemediationTyped == Typed /\ RemediationNext => Typed'
<1> SUFFICES ASSUME Typed, RemediationNext PROVE Typed'
  OBVIOUS
<1>0. /\ GitHubOK /\ CloneOK /\ ReviewStoreOK /\ RepairStoreOK /\ HistoryOK
      /\ Knows(op, guard) /\ op \in Ops
      /\ op.name # "idle" => op.base \in Mains
  BY DEF Typed, Knows
<1>1. ASSUME NEW r \in Reviews \cup {Foreign}, PrepareRepairStart(r) PROVE Typed'
  <2>1. r \in 0..(MaxReview + 1)
    BY DEF Reviews, Foreign
  <2>2. Knows(op', guard)
    BY <1>0, <1>1, <2>1, BeginTyped, SMTT(30)
       DEF PrepareRepairStart, Knows, GitHubOK, OpNames, Steps
  <2>3. QED
    BY <1>1, <2>2, QuietTyped DEF PrepareRepairStart, Quiet
<1>2. ASSUME NEW r \in Reviews \cup {Foreign}, NoChangeReceipt(r) PROVE Typed'
  <2>1. r \in 0..(MaxReview + 1)
    BY DEF Reviews, Foreign
  <2>2. session \in Sessions
    BY <1>0, <1>2 DEF NoChangeReceipt, RepairStoreOK
  <2>3. NoChangeTerms \in [start: Heads, base: Mains]
    BY <2>2 DEF NoChangeTerms, Sessions
  <2>4. RepairStoreOK'
    BY <1>0, <1>2, <2>3, SMTT(30) DEF NoChangeReceipt, RepairStoreOK
  <2>5. Knows(op', guard)
    BY <1>0, <1>2, <2>1, BeginTyped
       DEF NoChangeReceipt, Knows, GitHubOK, OpNames, Steps
  <2>6. QED
    BY <1>2, <2>4, <2>5, Frame DEF NoChangeReceipt, Typed, reviewStore
<1>3. ASSUME NEW r \in Reviews \cup {Foreign}, RepairStart(r) PROVE Typed'
  <2>1. r \in 0..(MaxReview + 1)
    BY DEF Reviews, Foreign
  <2>2. PICK start \in Heads : RepairBegins(r, start)
    <3>1. CASE session # NoSession /\ RepairBegins(r, session.start)
      BY <1>0, <3>1 DEF RepairStoreOK, Sessions
    <3>2. CASE LatestFail(r) /\ RepairBegins(r, record[r].target.head)
      <4>1. record[r] \in Records /\ record[r].verdict = "FAIL"
        BY <1>0, <3>2 DEF LatestFail, ReviewStoreOK
      <4>2. record[r].target.head \in Heads
        BY <4>1 DEF Records, NoVerdict, Targets
      <4>3. QED
        BY <3>2, <4>2
    <3>3. QED
      BY <1>3, <3>1, <3>2 DEF RepairStart
  <2>3. CloneOK'
    BY <1>0, <1>3, <2>2 DEF RepairStart, RepairBegins, StageCandidate, CloneOK, commits
  <2>4. Knows(op', guard)
    <3> DEFINE b == Begin("repair", "validate", local, r, "none")
    <3>0. /\ "repair" \in OpNames /\ "validate" \in Steps /\ local \in Heads
          /\ main \in Mains /\ body \in Bodies /\ "none" \in Verdicts \cup {"none"}
      BY <1>0 DEF GitHubOK, CloneOK, OpNames, Steps
    <3>10. b \in Ops /\ b.name = "repair" /\ b.base = main /\ b.body = body
      BY <2>1, <3>0 DEF Begin, Ops, Heads, Mains, Bodies, NoCommit, NoReview
    <3>1. /\ b \in Ops /\ b.name = "repair" /\ b.base \in Mains /\ b.body \in Bodies
      BY <3>0, <3>10
    <3>2. op' = [b EXCEPT !.start = start]
      BY <2>2 DEF RepairBegins
    <3>3. QED
      BY <2>2, <3>1, <3>2 DEF Knows, Ops
  <2>5. QED
    BY <1>3, <2>3, <2>4, Frame DEF RepairStart, Typed, store, reviewStore
<1>4. CASE PrepareRepairWrite
  <2>1. session' \in Sessions
    BY <1>0, <1>4 DEF PrepareRepairWrite, At, Knows, Ops, Sessions, Heads, NoCommit
  <2>2. RepairStoreOK'
    BY <1>0, <1>4, <2>1 DEF PrepareRepairWrite, RepairStoreOK
  <2>3. QED
    BY <1>4, <2>2, Frame, IdleKnows DEF PrepareRepairWrite, Typed, reviewStore
<1>5. CASE StopPrepareRepair
  BY <1>5, QuietTyped, IdleKnows DEF StopPrepareRepair, Quiet
<1>6. CASE RaiseBoundary
  <2>1. RepairStoreOK'
    BY <1>0, <1>6 DEF RaiseBoundary, RepairStoreOK, repairStore, Ops
  <2>2. Knows(op', guard)
    BY <1>0, <1>6, GotoKnows DEF RaiseBoundary, At, Steps
  <2>3. HistoryOK'
    BY <1>0, <1>6 DEF RaiseBoundary, HistoryOK, spent
  <2>4. QED
    BY <1>6, <2>1, <2>2, <2>3, Frame DEF RaiseBoundary, Typed, reviewStore
<1>7. CASE ReleaseSession
  <2>1. RepairStoreOK'
    BY <1>0, <1>7 DEF ReleaseSession, RepairStoreOK
  <2>2. QED
    BY <1>7, <2>1, Frame, IdleKnows DEF ReleaseSession, Typed, reviewStore
<1>8. QED
  BY <1>1, <1>2, <1>3, <1>4, <1>5, <1>6, <1>7 DEF RemediationNext

\* Review keeps the types: markers, guards and records name Reviews that exist.
LEMMA ReviewTyped == Typed /\ ReviewNext => Typed'
<1> SUFFICES ASSUME Typed, ReviewNext PROVE Typed'
  OBVIOUS
<1>0. /\ GitHubOK /\ CloneOK /\ ReviewStoreOK /\ RepairStoreOK /\ HistoryOK
      /\ Knows(op, guard) /\ op \in Ops
      /\ op.name # "idle" => op.base \in Mains /\ op.body \in Bodies
  BY DEF Typed, Knows
<1>1. CASE PrepareReviewBegin
  <2>1. marker.rid \in 0..(MaxReview + 1) /\ marker.state \in {"none", "preparing", "handedOff"}
    BY <1>0 DEF ReviewStoreOK, Markers, NoMarker, NoReview, Reviews
  <2>2. ReviewStoreOK'
    BY <1>0, <1>1 DEF PrepareReviewBegin, ReviewStoreOK, Markers
  <2>3. PICK step \in {"snapshot", "recoverClone", "recoverHandoff"} :
            op' = Begin("prepareReview", step, NoCommit, marker.rid, "none")
    BY <1>1, <2>1 DEF PrepareReviewBegin
  <2>4. Knows(op', guard')
    BY <1>0, <2>1, <2>3, BeginTyped DEF Knows, GitHubOK, OpNames, Steps, NoCommit, Heads
  <2>5. QED
    BY <1>1, <2>2, <2>4, Frame DEF PrepareReviewBegin, Typed
<1>2. CASE PrepareReviewRecover
  <2>1. ReviewStoreOK'
    BY <1>0, <1>2 DEF PrepareReviewRecover, ReviewStoreOK
  <2>2. /\ op' = [op EXCEPT !.step = "snapshot", !.rid = NoReview]
        /\ op.name = "prepareReview"
        /\ "snapshot" \in Steps /\ NoReview \in 0..(MaxReview + 1)
    BY <1>2 DEF PrepareReviewRecover, Steps, NoReview
  <2>3. op' \in Ops
    BY <1>0, <2>2 DEF Ops
  <2>4. Knows(op', guard')
    BY <1>0, <2>2, <2>3 DEF Knows, Ops
  <2>5. QED
    BY <1>2, <2>1, <2>4, Frame DEF PrepareReviewRecover, Typed
<1>3. CASE PrepareReviewClone
  <2>1. opened + 1 \in Reviews /\ opened' \in 0..MaxReview
    BY <1>0, <1>3 DEF PrepareReviewClone, HistoryOK, Reviews
  <2>2. ReviewStoreOK'
    BY <1>0, <1>3, <2>1 DEF PrepareReviewClone, ReviewStoreOK, Markers
  <2>3. HistoryOK'
    BY <1>0, <1>3, <2>1, SMTT(30) DEF PrepareReviewClone, HistoryOK, history
  <2>4. Knows(op', guard')
    BY <1>0, <1>3, <2>1, BeginTyped
       DEF PrepareReviewClone, Knows, GitHubOK, OpNames, Steps, Reviews
  <2>5. QED
    BY <1>3, <2>2, <2>3, <2>4, Frame DEF PrepareReviewClone, Typed
<1>4. CASE PrepareReviewValidate
  <2>1. HistoryOK'
    BY <1>0, <1>4 DEF PrepareReviewValidate, At, HistoryOK, spent, Ops
  <2>2. Knows(op', guard')
    BY <1>0, <1>4 DEF PrepareReviewValidate, At, Goto, Knows, Ops, Steps, store, reviewStore
  <2>3. QED
    BY <1>4, <2>1, <2>2, Frame DEF PrepareReviewValidate, Typed, store
<1>5. CASE PrepareReviewGuard
  <2>1. [head |-> op.head, base |-> op.base, body |-> op.body] \in Targets
    BY <1>0, <1>5 DEF PrepareReviewGuard, At, Targets, Ops
  <2>2. ReviewStoreOK'
    BY <1>0, <1>5, <2>1 DEF PrepareReviewGuard, ReviewStoreOK
  <2>3. Knows(op', guard')
    BY <1>0, <1>5 DEF PrepareReviewGuard, At, Goto, Knows, Ops, Steps
  <2>4. QED
    BY <1>5, <2>2, <2>3, Frame DEF PrepareReviewGuard, Typed
<1>6. CASE PrepareReviewHandoff
  <2>1. ReviewStoreOK'
    BY <1>0, <1>6 DEF PrepareReviewHandoff, At, Knows, ReviewStoreOK, Markers
  <2>2. QED
    BY <1>6, <2>1, Frame, IdleKnows DEF PrepareReviewHandoff, Typed
<1>7. CASE StopPrepareReview
  <2>1. ReviewStoreOK'
    BY <1>0, <1>7 DEF StopPrepareReview, ReviewStoreOK, Markers
  <2>2. QED
    BY <1>7, <2>1, Frame, IdleKnows DEF StopPrepareReview, Typed
<1>8. ASSUME CanComplete PROVE marker.rid \in Reviews
  BY <1>0, <1>8 DEF CanComplete, ReviewStoreOK, Markers, NoMarker
<1>9. ASSUME NEW v \in Verdicts, CompleteReviewStart(v) PROVE Typed'
  <2>1. marker.rid \in Reviews /\ guard[marker.rid] # NoTarget
    BY <1>8, <1>9 DEF CompleteReviewStart, CanComplete
  <2>2. marker.rid \in 0..(MaxReview + 1)
    BY <2>1 DEF Reviews
  <2>3. /\ "completeReview" \in OpNames /\ "record" \in Steps /\ remote \in Heads
        /\ main \in Mains /\ body \in Bodies
    BY <1>0 DEF GitHubOK, OpNames, Steps
  <2>4. Knows(Begin("completeReview", "record", remote, marker.rid, v), guard)
    BY <2>1, <2>2, <2>3, BeginTyped DEF Knows
  <2>5. QED
    BY <1>9, <2>4, QuietTyped DEF CompleteReviewStart, Quiet
<1>10. CASE CompleteReviewStale
  <2>1. marker.rid \in Reviews
    BY <1>8, <1>10, SMTT(30) DEF CompleteReviewStale
  <2>2. Knows(op', guard)
    BY <1>0, <1>10, <2>1, BeginTyped
       DEF CompleteReviewStale, Knows, GitHubOK, OpNames, Steps, Reviews
  <2>3. QED
    BY <1>10, <2>2, QuietTyped DEF CompleteReviewStale, Quiet
<1>11. CASE WriteRecord
  <2>1. /\ op.rid \in Reviews /\ op.verdict \in Verdicts
        /\ guard[op.rid] # NoTarget
    BY <1>0, <1>11 DEF WriteRecord, At, Knows
  <2>2. [verdict |-> op.verdict, target |-> guard[op.rid]] \in Records
    BY <1>0, <2>1 DEF ReviewStoreOK, Records
  <2>3. ReviewStoreOK'
    BY <1>0, <1>11, <2>2 DEF WriteRecord, ReviewStoreOK
  <2>4. Knows(op', guard')
    BY <1>0, <1>11, <2>1 DEF WriteRecord, At, Goto, Knows, Ops, Steps
  <2>5. QED
    BY <1>11, <2>3, <2>4, Frame DEF WriteRecord, Typed
<1>12. CASE WriteLatest
  <2>1. op.rid \in Reviews /\ op.verdict \in Verdicts
    BY <1>0, <1>12 DEF WriteLatest, At, Knows
  <2>2. ReviewStoreOK'
    BY <1>0, <1>12, <2>1 DEF WriteLatest, ReviewStoreOK
  <2>3. Knows(op', guard')
    BY <1>0, <1>12, <2>1 DEF WriteLatest, At, Goto, Knows, Ops, Steps
  <2>4. QED
    BY <1>12, <2>2, <2>3, Frame DEF WriteLatest, Typed
<1>13. CASE ClearRequired
  <2>1. RepairStoreOK'
    BY <1>0, <1>13 DEF ClearRequired, RepairStoreOK, repairStore, Heads, NoCommit
  <2>2. Knows(op', guard')
    BY <1>0, <1>13 DEF ClearRequired, At, Goto, Knows, Ops, Steps, reviewStore
  <2>3. QED
    BY <1>13, <2>1, <2>2, Frame DEF ClearRequired, Typed
<1>14. CASE RemoveClone
  <2>1. ReviewStoreOK'
    BY <1>0, <1>14 DEF RemoveClone, ReviewStoreOK
  <2>2. Knows(op', guard')
    BY <1>0, <1>14 DEF RemoveClone, At, Goto, Knows, Ops, Steps
  <2>3. QED
    BY <1>14, <2>1, <2>2, Frame DEF RemoveClone, Typed
<1>15. CASE DropGuard
  <2>1. ReviewStoreOK'
    BY <1>0, <1>15 DEF DropGuard, ReviewStoreOK
  <2>2. Knows(op', guard')
    BY <1>0, <1>15 DEF DropGuard, At, Goto, Knows, Ops, Steps
  <2>3. QED
    BY <1>15, <2>1, <2>2, Frame DEF DropGuard, Typed
<1>16. CASE ReleaseMarker
  <2>1. ReviewStoreOK'
    BY <1>0, <1>16 DEF ReleaseMarker, ReviewStoreOK, Markers
  <2>2. QED
    BY <1>16, <2>1, Frame, IdleKnows DEF ReleaseMarker, Typed
<1>17. CASE MergePreflight
  <2>1. HistoryOK'
    BY <1>0, <1>17 DEF MergePreflight, HistoryOK, GitHubOK, LiveTarget, Targets, spent
  <2>2. QED
    BY <1>17, <2>1, Frame DEF MergePreflight, Typed, store, reviewStore
<1>18. QED
  BY <1>1, <1>2, <1>3, <1>4, <1>5, <1>6, <1>7, <1>9, <1>10, <1>11, <1>12, <1>13,
     <1>14, <1>15, <1>16, <1>17 DEF ReviewNext

\* Refresh keeps the types.
LEMMA RefreshTyped == Typed /\ RefreshNext => Typed'
<1> SUFFICES ASSUME Typed, RefreshNext PROVE Typed'
  OBVIOUS
<1>0. /\ GitHubOK /\ CloneOK /\ ReviewStoreOK /\ RepairStoreOK /\ HistoryOK
      /\ Knows(op, guard) /\ op \in Ops /\ op.head \in Heads /\ op.start \in Heads
      /\ op.name # "idle" => op.base \in Mains /\ op.body \in Bodies
  BY DEF Typed, Knows, Ops
<1>1. CASE RefreshStart
  <2> DEFINE b == Begin("refresh", "rebase", local, NoReview, "none")
  <2>1. /\ "refresh" \in OpNames /\ "rebase" \in Steps /\ local \in Heads
        /\ main \in Mains /\ body \in Bodies /\ required \in Heads
        /\ NoReview \in 0..(MaxReview + 1)
    BY <1>0 DEF GitHubOK, CloneOK, RepairStoreOK, OpNames, Steps, NoReview
  <2>2. b \in Ops /\ b.name = "refresh" /\ b.base \in Mains /\ b.body \in Bodies
    BY <2>1, BeginTyped
  <2>3. op' = [b EXCEPT !.prior = required]
    BY <1>1 DEF RefreshStart
  <2>4. Knows(op', guard)
    BY <2>1, <2>2, <2>3 DEF Knows, Ops
  <2>5. QED
    BY <1>1, <2>4, QuietTyped DEF RefreshStart, Quiet
<1>2. CASE RebaseCandidate
  <2>0. op.name = "refresh" /\ op.base \in 0..MaxMain
    BY <1>0, <1>2 DEF RebaseCandidate, At, Mains
  <2>1. /\ New \in Commits /\ made' \in Heads
        /\ anc' \in [Commits -> SUBSET Commits] /\ onto' \in [Commits -> 0..MaxMain]
    <3>1. NoCommit \in Heads /\ MakeCommit(NoCommit, op.base)
      BY <1>2 DEF RebaseCandidate, NoCommit, Heads
    <3>2. QED
      BY <1>0, <2>0, <3>1, CommitTyped
  <2>2. New \in Heads
    BY <2>1 DEF Commits, Heads
  <2>3. CloneOK'
    BY <1>0, <1>2, <2>1, <2>2 DEF RebaseCandidate, CloneOK
  <2>4. op' = [op EXCEPT !.head = New, !.step = "validate"] /\ "validate" \in Steps
    BY <1>2 DEF RebaseCandidate, Steps
  <2>5. Knows(op', guard)
    BY <1>0, <2>0, <2>2, <2>4 DEF Knows, Ops
  <2>6. QED
    BY <1>2, <2>3, <2>5, Frame DEF RebaseCandidate, Typed, store, reviewStore
<1>3. CASE ValidateRebased
  BY <1>0, <1>3, QuietTyped, GotoKnows DEF ValidateRebased, At, Quiet, Steps
<1>4. CASE VerifyPrePush
  <2>1. op.base \in Mains
    BY <1>0, <1>4 DEF VerifyPrePush, At
  <2>2. validated' \subseteq Heads \X Mains
    BY <1>0, <1>4, <2>1, CertifyTyped DEF VerifyPrePush
  <2>3. HistoryOK'
    BY <1>0, <1>4, <2>2 DEF VerifyPrePush, HistoryOK, spent
  <2>4. Knows(op', guard)
    BY <1>0, <1>4, GotoKnows DEF VerifyPrePush, At, Steps
  <2>5. QED
    BY <1>4, <2>3, <2>4, Frame DEF VerifyPrePush, Typed, store, reviewStore
<1>5. CASE FenceRefresh
  <2>1. RepairStoreOK'
    BY <1>0, <1>5 DEF FenceRefresh, RepairStoreOK, repairStore
  <2>2. Knows(op', guard)
    BY <1>0, <1>5, GotoKnows DEF FenceRefresh, At, Steps
  <2>3. QED
    BY <1>5, <2>1, <2>2, Frame DEF FenceRefresh, Typed, reviewStore
<1>6. CASE PushExactLease
  <2>1. pushed' \subseteq Heads /\ repaired' \subseteq Heads /\ unfenced' \subseteq Heads
    BY <1>0, <1>6, LandedTyped DEF PushExactLease
  <2>2. GitHubOK' /\ HistoryOK'
    BY <1>0, <1>6, <2>1 DEF PushExactLease, GitHubOK, HistoryOK, spent
  <2>3. Knows(op', guard)
    BY <1>0, <1>6, GotoKnows, IdleKnows DEF PushExactLease, At, Goto, Steps
  <2>4. QED
    BY <1>6, <2>2, <2>3, Frame DEF PushExactLease, Typed, store, reviewStore
<1>7. CASE PushNotLanded
  BY <1>0, <1>7, QuietTyped, GotoKnows, IdleKnows
     DEF PushNotLanded, At, Goto, Quiet, Steps
<1>8. CASE VerifyFinal
  BY <1>8, QuietTyped, IdleKnows DEF VerifyFinal, Quiet
<1>9. CASE FinalNotProven
  BY <1>0, <1>9, QuietTyped, GotoKnows DEF FinalNotProven, At, Quiet, Steps
<1>10. CASE Compensate
  <2>1. GitHubOK'
    BY <1>0, <1>10 DEF Compensate, GitHubOK
  <2>2. Knows(op', guard)
    BY <1>0, <1>10, GotoKnows, IdleKnows DEF Compensate, At, Goto, Steps
  <2>3. QED
    BY <1>10, <2>1, <2>2, Frame DEF Compensate, Typed, store, reviewStore
<1>11. CASE CompensationUnproven
  BY <1>11, QuietTyped, IdleKnows DEF CompensationUnproven, Quiet
<1>12. CASE CompensationDrift
  BY <1>0, <1>12, QuietTyped, GotoKnows DEF CompensationDrift, At, Quiet, Steps
<1>13. CASE StopBeforeFence
  BY <1>0, <1>13, QuietTyped, GotoKnows, IdleKnows DEF StopBeforeFence, Quiet, Steps
<1>14. CASE RestoreBoundary
  <2>1. RepairStoreOK'
    BY <1>0, <1>14 DEF RestoreBoundary, RepairStoreOK, repairStore, Ops
  <2>2. Knows(op', guard)
    BY <1>0, <1>14, GotoKnows DEF RestoreBoundary, At, Steps
  <2>3. QED
    BY <1>14, <2>1, <2>2, Frame DEF RestoreBoundary, Typed, reviewStore
<1>15. CASE RestoreHead
  <2>1. CloneOK'
    BY <1>0, <1>15 DEF RestoreHead, CloneOK, commits
  <2>2. QED
    BY <1>15, <2>1, Frame, IdleKnows DEF RestoreHead, Typed, store, reviewStore
<1>16. QED
  BY <1>1, <1>2, <1>3, <1>4, <1>5, <1>6, <1>7, <1>8, <1>9, <1>10, <1>11, <1>12,
     <1>13, <1>14, <1>15 DEF RefreshNext

\* Closeout keeps the types.
LEMMA CloseoutTyped == Typed /\ CloseoutNext => Typed'
<1> SUFFICES ASSUME Typed, CloseoutNext PROVE Typed'
  OBVIOUS
<1>0. /\ GitHubOK /\ CloneOK /\ ReviewStoreOK /\ Knows(op, guard) /\ op \in Ops
  BY DEF Typed, Knows
<1>1. CASE CloseoutStart
  <2> DEFINE b == Begin("closeout", "sync", merged.head, latest.rid, "none")
  <2>1. /\ "closeout" \in OpNames /\ "sync" \in Steps
        /\ local \in Heads /\ remote \in Heads /\ main \in Mains /\ body \in Bodies
    BY <1>0 DEF GitHubOK, CloneOK, OpNames, Steps
  <2>2. merged.head \in Heads /\ latest.rid \in 0..(MaxReview + 1)
    BY <1>0 DEF GitHubOK, ReviewStoreOK, Targets, NoTarget, NoLatest, NoCommit, NoReview,
                Heads, Reviews
  <2>3. b \in Ops /\ b.name = "closeout" /\ b.base \in Mains /\ b.body \in Bodies
    BY <2>1, <2>2, BeginTyped
  <2>4. op' = [b EXCEPT !.start = local, !.prior = remote]
    BY <1>1 DEF CloseoutStart
  <2>5. Knows(op', guard)
    BY <2>1, <2>3, <2>4 DEF Knows, Ops
  <2>6. QED
    BY <1>1, <2>5, QuietTyped DEF CloseoutStart, Quiet
<1>2. CASE SynchronizeMain
  BY <1>0, <1>2, QuietTyped, GotoKnows DEF SynchronizeMain, At, Quiet, Steps
<1>3. CASE ConvergeMetadata
  <2>1. GitHubOK'
    BY <1>0, <1>3 DEF ConvergeMetadata, GitHubOK
  <2>2. Knows(op', guard)
    BY <1>0, <1>3, GotoKnows, IdleKnows DEF ConvergeMetadata, Goto, Steps
  <2>3. QED
    BY <1>3, <2>1, <2>2, Frame DEF ConvergeMetadata, Typed, store, reviewStore
<1>4. CASE DeleteLocalBranch
  <2>1. CloneOK'
    BY <1>0, <1>4 DEF DeleteLocalBranch, CloneOK, commits, NoCommit, Heads
  <2>2. Knows(op', guard)
    BY <1>0, <1>4, GotoKnows DEF DeleteLocalBranch, At, Steps
  <2>3. QED
    BY <1>4, <2>1, <2>2, Frame DEF DeleteLocalBranch, Typed, store, reviewStore
<1>5. CASE VerifyRemoteTip
  BY <1>0, <1>5, QuietTyped, GotoKnows, IdleKnows DEF VerifyRemoteTip, At, Quiet, Steps
<1>6. CASE DeleteRemoteBranch
  <2>1. GitHubOK'
    BY <1>0, <1>6 DEF DeleteRemoteBranch, GitHubOK, NoCommit, Heads
  <2>2. QED
    BY <1>6, <2>1, Frame, IdleKnows DEF DeleteRemoteBranch, Typed, store, reviewStore
<1>7. CASE StopCloseout
  BY <1>7, QuietTyped, IdleKnows DEF StopCloseout, Quiet
<1>8. QED
  BY <1>1, <1>2, <1>3, <1>4, <1>5, <1>6, <1>7 DEF CloseoutNext

-----------------------------------------------------------------------------
\* At the start everything is well typed.
LEMMA InitTyped == Init => Typed
<1> SUFFICES ASSUME Init PROVE Typed
  OBVIOUS
<1>1. GitHubOK /\ CloneOK
  BY DEF Init, GitHubOK, CloneOK, Mains, Bodies, Heads, NoCommit, Commits
<1>2. ReviewStoreOK
  BY DEF Init, ReviewStoreOK, Markers, Records
<1>3. RepairStoreOK
  BY DEF Init, RepairStoreOK, Heads, NoCommit
<1>4. HistoryOK
  BY DEF Init, HistoryOK
<1>5. QED
  BY <1>1, <1>2, <1>3, <1>4, IdleKnows DEF Init, Typed

\* A step that changes nothing, or any step of the system, keeps the types.
LEMMA NextTyped == Typed /\ [Next]_vars => Typed'
<1>1. Typed /\ UNCHANGED vars => Typed'
  BY QuietTyped DEF vars, Quiet, Typed
<1>2. QED
  BY <1>1, EnvironmentTyped, DeliveryTyped, RemediationTyped, ReviewTyped,
     RefreshTyped, CloseoutTyped DEF Next, LckNext

\* Every state of every run is well typed, and the running operation has what
\* its next write needs.
THEOREM Typing == Spec => []Typed
BY InitTyped, NextTyped, PTL DEF Spec

\* TypeOK holds for all bounds: no marker ever names a Review, head or version
\* that does not exist, whichever step wrote it.
THEOREM TypeCorrect == Spec => []TypeOK
<1>1. Typed => TypeOK
  BY DEF Typed, TypeOK, Knows
<1>2. QED
  BY <1>1, Typing, PTL

-----------------------------------------------------------------------------
(* Evidence before effect. *)

\* What the running operation o still has to show for when it publishes its
\* head: from the commit on (Delivery, Remediation), or from the pre-push check
\* on (Refresh), the head is among the validated ones V, and so is the boundary
\* that Refresh may put back.
Backed(o, V) ==
    /\ o.name \in Pipeline /\ o.step \notin {"validate", "commit"} => o.head \in V
    /\ o.name = "refresh" =>
         /\ o.prior \in V
         /\ o.step \in {"fence", "push", "final", "compensate"} => o.head \in V
EvidenceInv == EvidenceBeforeEffect /\ Backed(op, ValidatedHeads)

\* Formal validation has covered the target t.
Proven(t) == EvidenceOf(t) \in validated
\* The verdict accepted last is a PASS for the head and base that were merged.
MergedAsPassed ==
    /\ latest # NoLatest
    /\ record[latest.rid].verdict = "PASS"
    /\ EvidenceOf(record[latest.rid].target) = EvidenceOf(merged)
\* From a Review's guard to its record to the latest pointer to Done, every link
\* is made by an operation that holds the one before.
Chain ==
    /\ \A r \in Reviews : guard[r] # NoTarget => Proven(guard[r])
    /\ \A r \in Reviews : record[r] # NoVerdict => Proven(record[r].target)
    /\ latest # NoLatest => record[latest.rid] # NoVerdict
OpChain ==
    /\ op.name = "prepareReview" /\ op.step \in {"guard", "handoff"} => Proven(op)
    /\ At("completeReview", "latest") => record[op.rid] # NoVerdict
MergeChain ==
    /\ op.name = "closeout" => pr = "merged" /\ MergedAsPassed
    /\ status = "Done" =>
          /\ pr = "merged" /\ MergedAsPassed
          /\ op.name \notin Pipeline \cup {"completeReview"}
ReviewInv == Chain /\ OpChain /\ MergeChain

-----------------------------------------------------------------------------
(* Evidence before effect. *)

\* Validation is never taken back.
LEMMA EvidenceGrows ==
    ASSUME validated \subseteq validated'
    PROVE  ValidatedHeads \subseteq ValidatedHeads'
BY DEF ValidatedHeads

\* Evidence is never withdrawn: what is backed stays backed as the validations grow.
LEMMA BackedGrows ==
    ASSUME NEW o, NEW V, NEW W, V \subseteq W, Backed(o, V)
    PROVE  Backed(o, W)
BY DEF Backed

\* The absent commit needs no evidence.
LEMMA NoCommitValidated == NoCommit \in ValidatedHeads /\ NoCommit \in ValidatedHeads'
BY DEF ValidatedHeads

\* Operations that publish nothing owe no evidence.
LEMMA OtherBacked ==
    ASSUME NEW o, NEW V, o.name \notin Pipeline \cup {"refresh"}
    PROVE  Backed(o, V)
BY DEF Backed

\* Between operations no evidence is owed.
LEMMA IdleBacked == \A V : Backed(Idle, V)
BY DEF Backed, Idle, Pipeline

\* What is certified is the commit itself, when nobody touched the worktree.
LEMMA Certified ==
    ASSUME NEW c, Certify(c), local = op.head, work # "edited"
    PROVE  c \in ValidatedHeads' /\ validated \subseteq validated'
<1>1. validated' = validated \cup {<<c, op.base>>}
  BY DEF Certify
<1>2. <<c, op.base>> \in validated' /\ <<c, op.base>>[1] = c
  BY <1>1
<1>3. c \in {p[1] : p \in validated'}
  BY <1>2
<1>4. QED
  BY <1>1, <1>3 DEF ValidatedHeads

\* A step that publishes nothing keeps the invariant if its operation stays backed.
Unpublished == UNCHANGED <<pushed, session, required>> /\ validated \subseteq validated'
\* A step that publishes, records and fences nothing keeps the evidence invariant.
LEMMA UnpublishedKeeps ==
    ASSUME EvidenceInv, Unpublished, Backed(op', ValidatedHeads')
    PROVE  EvidenceInv'
BY EvidenceGrows DEF EvidenceInv, EvidenceBeforeEffect, Unpublished

\* Nothing outside LCK can publish an unvalidated head in the name of LCK.
LEMMA EnvironmentEvidence == EvidenceInv /\ Environment => EvidenceInv'
<1> SUFFICES ASSUME EvidenceInv, Environment PROVE EvidenceInv'
  OBVIOUS
<1>1. Unpublished
  BY DEF Environment, MainAdvances, ContractEdited, ForeignPush, HumanMerge,
     DeveloperEdit, DeveloperCommit, DeveloperSync, Crash, Unpublished, store,
     repairStore, history
<1>2. op' = op \/ op' = Idle
  BY DEF Environment, MainAdvances, ContractEdited, ForeignPush, HumanMerge,
     DeveloperEdit, DeveloperCommit, DeveloperSync, Crash
<1>3. Backed(op', ValidatedHeads')
  BY <1>1, <1>2, IdleBacked, EvidenceGrows, BackedGrows DEF EvidenceInv, Unpublished
<1>4. QED
  BY <1>1, <1>3, UnpublishedKeeps

\* Moving on past the commit, or stopping, keeps the pipeline backed.
LEMMA PipelineBacked ==
    ASSUME op \in Ops, op.name \in Pipeline, op.step \notin {"validate", "commit"},
           EvidenceInv, NEW step, op' \in {[op EXCEPT !.step = step], Idle}
    PROVE  Backed(op', ValidatedHeads)
BY IdleBacked DEF EvidenceInv, Backed, Pipeline, Ops

\* The delivery pipeline commits, records and pushes only what it validated.
LEMMA DeliveryEvidence == Typed /\ EvidenceInv /\ DeliveryNext => EvidenceInv'
<1> SUFFICES ASSUME Typed, EvidenceInv, DeliveryNext PROVE EvidenceInv'
  OBVIOUS
<1>0. /\ op \in Ops /\ Backed(op, ValidatedHeads) /\ EvidenceBeforeEffect
      /\ session \in Sessions \cup {NoSession}
  BY DEF Typed, Knows, EvidenceInv, RepairStoreOK
<1>1. CASE DeliverPrepare
  BY <1>1, <1>0, UnpublishedKeeps
     DEF DeliverPrepare, Unpublished, store, repairStore, history, ValidatedHeads
<1>2. CASE DeliverStart
  <2>1. Backed(op', ValidatedHeads')
    BY <1>2 DEF DeliverStart, Begin, Backed
  <2>2. QED
    BY <1>2, <2>1, UnpublishedKeeps
       DEF DeliverStart, Unpublished, store, repairStore, history
<1>3. CASE ValidateCandidate
  <2>1. Backed(op', ValidatedHeads')
    BY <1>0, <1>3 DEF ValidateCandidate, PipelineAt, Pipeline, Goto, Backed, Ops
  <2>2. QED
    BY <1>3, <2>1, UnpublishedKeeps
       DEF ValidateCandidate, Unpublished, store, repairStore, history
<1>4. CASE CommitCandidate
  <2>0. local = op.head /\ work # "edited" /\ op.name \in Pipeline
    BY <1>4 DEF CommitCandidate, CandidateUnchanged, PipelineAt
  <2>1. op'.name = op.name /\ op'.head \in ValidatedHeads' /\ validated \subseteq validated'
    <3>1. CASE work = "clean"
      <4>1. Certify(op.head) /\ Goto(AfterCommit)
        BY <1>4, <3>1 DEF CommitCandidate
      <4>2. op'.name = op.name /\ op'.head = op.head
        BY <1>0, <4>1 DEF Goto, Ops
      <4>3. QED
        BY <2>0, <4>1, <4>2, Certified
    <3>2. CASE work # "clean"
      <4>1. Certify(New) /\ op' = [op EXCEPT !.head = New, !.step = AfterCommit]
        BY <1>4, <3>2 DEF CommitCandidate
      <4>2. op'.name = op.name /\ op'.head = New
        BY <1>0, <4>1 DEF Ops
      <4>3. QED
        BY <2>0, <4>1, <4>2, Certified
    <3>3. QED
      BY <3>1, <3>2
  <2>2. Backed(op', ValidatedHeads')
    BY <2>0, <2>1 DEF Backed, Pipeline
  <2>3. QED
    BY <1>4, <2>1, <2>2, UnpublishedKeeps
       DEF CommitCandidate, Unpublished, store, repairStore
<1>5. CASE RecordCandidate
  <2>1. op.head \in ValidatedHeads
    BY <1>0, <1>5 DEF RecordCandidate, PipelineAt, Backed
  <2>2. session'.cand = op.head
    BY <1>0, <1>5 DEF RecordCandidate, Sessions
  <2>3. Backed(op', ValidatedHeads)
    BY <1>0, <1>5, PipelineBacked DEF RecordCandidate, PipelineAt, Goto
  <2>4. UNCHANGED <<pushed, required, validated>>
    BY <1>5 DEF RecordCandidate, history
  <2>5. QED
    BY <1>0, <2>1, <2>2, <2>3, <2>4
       DEF EvidenceInv, EvidenceBeforeEffect, ValidatedHeads
<1>6. CASE PushCandidate
  <2>1. op.head \in ValidatedHeads
    BY <1>0, <1>6 DEF PushCandidate, PipelineAt, Backed
  <2>2. pushed' = pushed \cup {op.head} /\ UNCHANGED <<session, required, validated>>
    BY <1>6 DEF PushCandidate, Landed, store, repairStore
  <2>3. Backed(op', ValidatedHeads)
    BY <1>0, <1>6, PipelineBacked DEF PushCandidate, PipelineAt
  <2>4. QED
    BY <1>0, <2>1, <2>2, <2>3 DEF EvidenceInv, EvidenceBeforeEffect, ValidatedHeads
<1>7. ASSUME op.name \in Pipeline, op.step \notin {"validate", "commit"},
             UNCHANGED <<pushed, session, required, validated>>,
             NEW step, op' \in {[op EXCEPT !.step = step], Idle}
      PROVE  EvidenceInv'
  <2>1. Backed(op', ValidatedHeads)
    BY <1>0, <1>7, PipelineBacked
  <2>2. QED
    BY <1>7, <2>1, UnpublishedKeeps DEF Unpublished, ValidatedHeads
<1>8. CASE AlreadySynced
  BY <1>7, <1>8 DEF AlreadySynced, PipelineAt, Goto, store, repairStore, history
<1>9. CASE ConfirmPush
  BY <1>7, <1>9 DEF ConfirmPush, PipelineAt, Goto, store, repairStore, history
<1>10. CASE EnsureOpenPr
  BY <1>7, <1>10 DEF EnsureOpenPr, At, Pipeline, Goto, store, repairStore, history
<1>11. CASE VerifyPr
  BY <1>7, <1>11 DEF VerifyPr, At, Pipeline, Goto, store, repairStore, history
<1>12. CASE SetReviewStatus
  BY <1>7, <1>12 DEF SetReviewStatus, PipelineAt, Goto, store, repairStore, history
<1>13. CASE VerifyLocalCompletion
  BY <1>7, <1>13 DEF VerifyLocalCompletion, PipelineAt, store, repairStore, history
<1>14. CASE StopPipeline
  BY <1>14, IdleBacked, UnpublishedKeeps
     DEF StopPipeline, Unpublished, store, repairStore, history
<1>15. QED
  BY <1>1, <1>2, <1>3, <1>4, <1>5, <1>6, <1>8, <1>9, <1>10, <1>11, <1>12, <1>13,
     <1>14 DEF DeliveryNext

\* Remediation fences and records only candidates of the validated pipeline.
LEMMA RemediationEvidence == Typed /\ EvidenceInv /\ RemediationNext => EvidenceInv'
<1> SUFFICES ASSUME Typed, EvidenceInv, RemediationNext PROVE EvidenceInv'
  OBVIOUS
<1>0. /\ op \in Ops /\ Backed(op, ValidatedHeads) /\ EvidenceBeforeEffect
  BY DEF Typed, Knows, EvidenceInv
<1>1. ASSUME NEW r, PrepareRepairStart(r) PROVE EvidenceInv'
  <2>1. Backed(op', ValidatedHeads')
    BY <1>1 DEF PrepareRepairStart, Begin, Backed, Pipeline
  <2>2. QED
    BY <1>1, <2>1, UnpublishedKeeps
       DEF PrepareRepairStart, Unpublished, store, repairStore, history
<1>2. ASSUME NEW r, NoChangeReceipt(r) PROVE EvidenceInv'
  <2>1. Backed(op', ValidatedHeads')
    BY <1>2 DEF NoChangeReceipt, Begin, Backed, Pipeline
  <2>2. QED
    BY <1>2, <2>1, UnpublishedKeeps DEF NoChangeReceipt, Unpublished, history
<1>3. ASSUME NEW r, RepairStart(r) PROVE EvidenceInv'
  <2>1. PICK start : RepairBegins(r, start)
    BY <1>3 DEF RepairStart
  <2>2. Backed(op', ValidatedHeads')
    BY <2>1 DEF RepairBegins, Begin, Backed
  <2>3. QED
    BY <1>3, <2>2, UnpublishedKeeps
       DEF RepairStart, Unpublished, store, repairStore, history
<1>4. CASE PrepareRepairWrite
  <2>1. session'.cand = NoCommit /\ op' = Idle /\ UNCHANGED <<pushed, required, validated>>
    BY <1>4 DEF PrepareRepairWrite, history
  <2>2. QED
    BY <1>0, <2>1, IdleBacked
       DEF EvidenceInv, EvidenceBeforeEffect, ValidatedHeads
<1>5. CASE StopPrepareRepair
  BY <1>5, IdleBacked, UnpublishedKeeps
     DEF StopPrepareRepair, Unpublished, store, repairStore, history
<1>6. CASE RaiseBoundary
  <2>1. op.head \in ValidatedHeads
    BY <1>0, <1>6 DEF RaiseBoundary, At, Backed, Pipeline
  <2>2. required' = op.head /\ UNCHANGED <<pushed, session, validated>>
    BY <1>6 DEF RaiseBoundary, repairStore, history
  <2>3. Backed(op', ValidatedHeads)
    BY <1>0, <1>6, PipelineBacked DEF RaiseBoundary, At, Pipeline, Goto
  <2>4. QED
    BY <1>0, <2>1, <2>2, <2>3 DEF EvidenceInv, EvidenceBeforeEffect, ValidatedHeads
<1>7. CASE ReleaseSession
  <2>1. session'.cand = NoCommit /\ op' = Idle /\ UNCHANGED <<pushed, required, validated>>
    BY <1>7 DEF ReleaseSession, NoSession, history
  <2>2. QED
    BY <1>0, <2>1, IdleBacked DEF EvidenceInv, EvidenceBeforeEffect, ValidatedHeads
<1>8. QED
  BY <1>1, <1>2, <1>3, <1>4, <1>5, <1>6, <1>7 DEF RemediationNext

\* Review publishes nothing; it validates, and clears the boundary.
LEMMA ReviewEvidence == Typed /\ EvidenceInv /\ ReviewNext => EvidenceInv'
<1> SUFFICES ASSUME Typed, EvidenceInv, ReviewNext PROVE EvidenceInv'
  OBVIOUS
<1>0. op \in Ops /\ Backed(op, ValidatedHeads) /\ EvidenceBeforeEffect
  BY DEF Typed, Knows, EvidenceInv
<1>1. op'.name \in {"prepareReview", "completeReview"} \/ op' = Idle \/ op' = op
  <2>1. CASE PrepareReviewBegin
    BY <2>1 DEF PrepareReviewBegin, Begin
  <2>2. CASE PrepareReviewClone \/ CompleteReviewStale
              \/ \E v \in Verdicts : CompleteReviewStart(v)
    BY <2>2 DEF PrepareReviewClone, CompleteReviewStart, CompleteReviewStale, Begin
  <2>3. CASE PrepareReviewRecover \/ PrepareReviewValidate \/ PrepareReviewGuard
    BY <1>0, <2>3 DEF PrepareReviewRecover, PrepareReviewValidate, PrepareReviewGuard,
       At, Goto, Ops
  <2>4. CASE WriteRecord \/ WriteLatest \/ ClearRequired \/ RemoveClone \/ DropGuard
    BY <1>0, <2>4 DEF WriteRecord, WriteLatest, ClearRequired, RemoveClone, DropGuard,
       At, Goto, Ops
  <2>5. CASE PrepareReviewHandoff \/ StopPrepareReview \/ ReleaseMarker \/ MergePreflight
    BY <2>5 DEF PrepareReviewHandoff, StopPrepareReview, ReleaseMarker, MergePreflight
  <2>6. QED
    BY <2>1, <2>2, <2>3, <2>4, <2>5 DEF ReviewNext
<1>2. UNCHANGED <<pushed, session>> /\ validated \subseteq validated'
      /\ required' \in {required, NoCommit}
  BY DEF ReviewNext, PrepareReviewBegin, PrepareReviewRecover, PrepareReviewClone,
     PrepareReviewValidate, PrepareReviewGuard, PrepareReviewHandoff,
     StopPrepareReview, CompleteReviewStart, CompleteReviewStale, WriteRecord,
     WriteLatest, ClearRequired, RemoveClone, DropGuard, ReleaseMarker,
     MergePreflight, store, repairStore, history
<1>3. Backed(op', ValidatedHeads')
  BY <1>0, <1>1, <1>2, IdleBacked, EvidenceGrows, BackedGrows, OtherBacked DEF Pipeline
<1>4. QED
  BY <1>0, <1>2, <1>3, EvidenceGrows, NoCommitValidated
     DEF EvidenceInv, EvidenceBeforeEffect

\* Refresh fences and pushes a rebased head only after it was validated unchanged.
LEMMA RefreshEvidence == Typed /\ EvidenceInv /\ RefreshNext => EvidenceInv'
<1> SUFFICES ASSUME Typed, EvidenceInv, RefreshNext PROVE EvidenceInv'
  OBVIOUS
<1>0. /\ op \in Ops /\ Backed(op, ValidatedHeads) /\ EvidenceBeforeEffect
      /\ required \in ValidatedHeads
  BY DEF Typed, Knows, EvidenceInv, EvidenceBeforeEffect
<1>1. CASE RefreshStart
  <2>1. Backed(op', ValidatedHeads)
    BY <1>0, <1>1 DEF RefreshStart, Begin, Backed, Pipeline
  <2>2. QED
    BY <1>1, <2>1, UnpublishedKeeps
       DEF RefreshStart, Unpublished, store, repairStore, history, ValidatedHeads
<1>2. CASE RebaseCandidate
  <2>1. Backed(op', ValidatedHeads)
    BY <1>0, <1>2 DEF RebaseCandidate, At, Backed, Pipeline, Ops
  <2>2. QED
    BY <1>2, <2>1, UnpublishedKeeps
       DEF RebaseCandidate, Unpublished, store, repairStore, history, ValidatedHeads
<1>3. CASE VerifyPrePush
  <2>1. op.head \in ValidatedHeads' /\ validated \subseteq validated'
    BY <1>3, Certified DEF VerifyPrePush, RefreshAuthority
  <2>2. op.prior \in ValidatedHeads'
    BY <1>0, <1>3, <2>1, EvidenceGrows DEF VerifyPrePush, At, Backed
  <2>3. Backed(op', ValidatedHeads')
    BY <1>0, <1>3, <2>1, <2>2 DEF VerifyPrePush, At, Goto, Backed, Pipeline, Ops
  <2>4. QED
    BY <1>3, <2>1, <2>3, UnpublishedKeeps
       DEF VerifyPrePush, Unpublished, store, repairStore
<1>4. CASE FenceRefresh
  <2>1. op.head \in ValidatedHeads
    BY <1>0, <1>4 DEF FenceRefresh, At, Backed
  <2>2. Backed(op', ValidatedHeads)
    BY <1>0, <1>4 DEF FenceRefresh, At, Goto, Backed, Pipeline, Ops
  <2>3. required' = op.head /\ UNCHANGED <<pushed, session, validated>>
    BY <1>4 DEF FenceRefresh, repairStore, history
  <2>4. QED
    BY <1>0, <2>1, <2>2, <2>3 DEF EvidenceInv, EvidenceBeforeEffect, ValidatedHeads
<1>5. CASE PushExactLease
  <2>1. op.head \in ValidatedHeads
    BY <1>0, <1>5 DEF PushExactLease, At, Backed
  <2>2. Backed(op', ValidatedHeads)
    BY <1>0, <1>5, IdleBacked DEF PushExactLease, At, Backed, Pipeline, Ops
  <2>3. pushed' = pushed \cup {op.head} /\ UNCHANGED <<required, session, validated>>
    BY <1>5 DEF PushExactLease, Landed, store, repairStore
  <2>4. QED
    BY <1>0, <2>1, <2>2, <2>3 DEF EvidenceInv, EvidenceBeforeEffect, ValidatedHeads
<1>6. CASE RestoreBoundary
  <2>1. op.prior \in ValidatedHeads
    BY <1>0, <1>6 DEF RestoreBoundary, At, Backed
  <2>2. Backed(op', ValidatedHeads)
    BY <1>0, <1>6 DEF RestoreBoundary, At, Goto, Backed, Pipeline, Ops
  <2>3. required' = op.prior /\ UNCHANGED <<pushed, session, validated>>
    BY <1>6 DEF RestoreBoundary, repairStore, history
  <2>4. QED
    BY <1>0, <2>1, <2>2, <2>3 DEF EvidenceInv, EvidenceBeforeEffect, ValidatedHeads
<1>7. ASSUME UNCHANGED <<pushed, session, required, validated>>,
             Backed(op', ValidatedHeads)
      PROVE  EvidenceInv'
  BY <1>7, UnpublishedKeeps DEF Unpublished, ValidatedHeads
<1>8. CASE ValidateRebased
  <2>1. Backed(op', ValidatedHeads)
    BY <1>0, <1>8 DEF ValidateRebased, At, Goto, Backed, Pipeline, Ops
  <2>2. QED
    BY <1>7, <1>8, <2>1 DEF ValidateRebased, store, repairStore, history
<1>9. CASE PushNotLanded
  <2>1. Backed(op', ValidatedHeads)
    BY <1>0, <1>9, IdleBacked DEF PushNotLanded, At, Backed, Pipeline, Ops
  <2>2. QED
    BY <1>7, <1>9, <2>1 DEF PushNotLanded, store, repairStore, history
<1>10. CASE VerifyFinal
  BY <1>7, <1>10, IdleBacked DEF VerifyFinal, store, repairStore, history
<1>11. CASE FinalNotProven
  <2>1. Backed(op', ValidatedHeads)
    BY <1>0, <1>11 DEF FinalNotProven, At, Goto, Backed, Pipeline, Ops
  <2>2. QED
    BY <1>7, <1>11, <2>1 DEF FinalNotProven, store, repairStore, history
<1>12. CASE Compensate
  <2>1. Backed(op', ValidatedHeads)
    BY <1>0, <1>12, IdleBacked DEF Compensate, At, Backed, Pipeline, Ops
  <2>2. QED
    BY <1>7, <1>12, <2>1 DEF Compensate, store, repairStore, history
<1>13. CASE CompensationUnproven
  BY <1>7, <1>13, IdleBacked DEF CompensationUnproven, store, repairStore, history
<1>14. CASE CompensationDrift
  <2>1. Backed(op', ValidatedHeads)
    BY <1>0, <1>14 DEF CompensationDrift, At, Goto, Backed, Pipeline, Ops
  <2>2. QED
    BY <1>7, <1>14, <2>1 DEF CompensationDrift, store, repairStore, history
<1>15. CASE StopBeforeFence
  <2>1. Backed(op', ValidatedHeads)
    BY <1>0, <1>15, IdleBacked DEF StopBeforeFence, Goto, Backed, Pipeline, Ops
  <2>2. QED
    BY <1>7, <1>15, <2>1 DEF StopBeforeFence, store, repairStore, history
<1>16. CASE RestoreHead
  BY <1>7, <1>16, IdleBacked DEF RestoreHead, store, repairStore, history
<1>17. QED
  BY <1>1, <1>2, <1>3, <1>4, <1>5, <1>6, <1>8, <1>9, <1>10, <1>11, <1>12, <1>13,
     <1>14, <1>15, <1>16 DEF RefreshNext

\* Closeout writes no marker and pushes no head.
LEMMA CloseoutEvidence == Typed /\ EvidenceInv /\ CloseoutNext => EvidenceInv'
<1> SUFFICES ASSUME Typed, EvidenceInv, CloseoutNext PROVE EvidenceInv'
  OBVIOUS
<1>1. op'.name = "closeout" \/ op' = Idle
  BY DEF Typed, Knows, CloseoutNext, CloseoutStart, SynchronizeMain, ConvergeMetadata,
     DeleteLocalBranch, VerifyRemoteTip, DeleteRemoteBranch, StopCloseout, At, Goto,
     Begin, Ops
<1>2. Unpublished
  BY DEF CloseoutNext, CloseoutStart, SynchronizeMain, ConvergeMetadata,
     DeleteLocalBranch, VerifyRemoteTip, DeleteRemoteBranch, StopCloseout,
     Unpublished, store, repairStore, history
<1>3. QED
  BY <1>1, <1>2, IdleBacked, OtherBacked, UnpublishedKeeps DEF Pipeline

\* A Task that is ready for delivery has published nothing.
LEMMA EvidenceInit == Init => EvidenceInv
BY IdleBacked DEF Init, EvidenceInv, EvidenceBeforeEffect, ValidatedHeads, NoSession

\* Every step of the Task keeps the evidence invariant.
LEMMA EvidenceNext == Typed /\ EvidenceInv /\ [Next]_vars => EvidenceInv'
<1>1. EvidenceInv /\ UNCHANGED vars => EvidenceInv'
  BY DEF vars, store, repairStore, history, EvidenceInv, EvidenceBeforeEffect,
     ValidatedHeads
<1>2. QED
  BY <1>1, EnvironmentEvidence, DeliveryEvidence, RemediationEvidence, ReviewEvidence,
     RefreshEvidence, CloseoutEvidence DEF Next, LckNext

\* Nothing LCK publishes, owns as a Remediation candidate or fences for a fresh
\* Review lacks the evidence of a formal validation of exactly that commit,
\* whatever the bounds.
THEOREM EvidenceFirst == Spec => []EvidenceBeforeEffect
<1>1. EvidenceInv => EvidenceBeforeEffect
  BY DEF EvidenceInv
<1>2. QED
  BY <1>1, EvidenceInit, EvidenceNext, Typing, PTL DEF Spec

-----------------------------------------------------------------------------
(* A Task is Done only as reviewed. *)

\* Outside Review the guards, records and the latest pointer do not move.
LEMMA ChainFrame ==
    ASSUME Chain, UNCHANGED <<guard, record, latest>>, validated \subseteq validated'
    PROVE  Chain'
BY DEF Chain, Proven

\* Closing out depends on the PR, the records and the latest pointer.
LEMMA MergeFrame ==
    ASSUME MergeChain, UNCHANGED <<record, latest, pr, merged, status>>,
           op'.name \in {op.name, "idle", "prepareReview", "prepareRepair", "noChange", "refresh"}
    PROVE  MergeChain'
BY DEF MergeChain, MergedAsPassed, Pipeline

\* Operations other than Review and Closeout owe nothing to the chain.
LEMMA OtherOpChain ==
    ASSUME op'.name \notin {"prepareReview", "completeReview"}
    PROVE  OpChain'
BY DEF OpChain, At

\* The idle operation has its own name, so it owes nothing to the chain.
LEMMA IdleName == Idle.name = "idle"
BY DEF Idle

\* The pipeline starts and ends only its own operations.
LEMMA DeliveryName == Typed /\ DeliveryNext => op'.name \in Pipeline \cup {"idle"}
<1> SUFFICES ASSUME Typed, DeliveryNext PROVE op'.name \in Pipeline \cup {"idle"}
  OBVIOUS
<1>0. op \in Ops
  BY DEF Typed, Knows
<1>1. CASE DeliverPrepare \/ VerifyLocalCompletion \/ StopPipeline
  BY <1>0, <1>1, IdleName DEF DeliverPrepare, VerifyLocalCompletion, StopPipeline, PipelineAt, Ops
<1>2. CASE DeliverStart
  BY <1>2 DEF DeliverStart, Begin, Pipeline
<1>3. CASE CommitCandidate
  BY <1>0, <1>3 DEF CommitCandidate, PipelineAt, Goto, Ops
<1>4. CASE PushCandidate
  BY <1>0, <1>4, IdleName DEF PushCandidate, PipelineAt, Ops
<1>5. CASE ValidateCandidate \/ RecordCandidate \/ AlreadySynced \/ ConfirmPush
  BY <1>0, <1>5 DEF ValidateCandidate, RecordCandidate, AlreadySynced, ConfirmPush,
     PipelineAt, Goto, Ops
<1>6. CASE EnsureOpenPr \/ VerifyPr \/ SetReviewStatus
  BY <1>0, <1>6 DEF EnsureOpenPr, VerifyPr, SetReviewStatus, PipelineAt, At, Pipeline,
     Goto, Ops
<1>7. QED
  BY <1>1, <1>2, <1>3, <1>4, <1>5, <1>6 DEF DeliveryNext

\* So does Refresh.
LEMMA RefreshName == Typed /\ RefreshNext => op'.name \in {"refresh", "idle"}
<1> SUFFICES ASSUME Typed, RefreshNext PROVE op'.name \in {"refresh", "idle"}
  OBVIOUS
<1>0. op \in Ops
  BY DEF Typed, Knows
<1>1. CASE RefreshStart
  BY <1>1 DEF RefreshStart, Begin
<1>2. CASE RebaseCandidate \/ ValidateRebased \/ VerifyPrePush \/ FenceRefresh
  BY <1>0, <1>2 DEF RebaseCandidate, ValidateRebased, VerifyPrePush, FenceRefresh,
     At, Goto, Ops
<1>3. CASE PushExactLease \/ PushNotLanded \/ VerifyFinal \/ FinalNotProven
  BY <1>0, <1>3, IdleName DEF PushExactLease, PushNotLanded, VerifyFinal,
     FinalNotProven, At, Goto, Ops
<1>4. CASE Compensate \/ CompensationUnproven \/ CompensationDrift
  BY <1>0, <1>4, IdleName DEF Compensate, CompensationUnproven, CompensationDrift,
     At, Goto, Ops
<1>5. CASE StopBeforeFence \/ RestoreBoundary \/ RestoreHead
  BY <1>0, <1>5, IdleName DEF StopBeforeFence, RestoreBoundary, RestoreHead,
     At, Goto, Ops
<1>6. QED
  BY <1>1, <1>2, <1>3, <1>4, <1>5 DEF RefreshNext

\* And Closeout.
LEMMA CloseoutName == Typed /\ CloseoutNext => op'.name \in {"closeout", "idle"}
<1> SUFFICES ASSUME Typed, CloseoutNext PROVE op'.name \in {"closeout", "idle"}
  OBVIOUS
<1>0. op \in Ops
  BY DEF Typed, Knows
<1>1. CASE CloseoutStart
  BY <1>1 DEF CloseoutStart, Begin
<1>2. CASE SynchronizeMain \/ ConvergeMetadata \/ DeleteLocalBranch \/ VerifyRemoteTip
  BY <1>0, <1>2, IdleName DEF SynchronizeMain, ConvergeMetadata, DeleteLocalBranch,
     VerifyRemoteTip, At, Goto, Ops
<1>3. CASE DeleteRemoteBranch \/ StopCloseout
  BY <1>3, IdleName DEF DeleteRemoteBranch, StopCloseout
<1>4. QED
  BY <1>1, <1>2, <1>3 DEF CloseoutNext

\* A merge, an edit, a push or a crash breaks no link of the Review chain.
LEMMA EnvironmentReview == ReviewInv /\ Environment => ReviewInv'
<1> SUFFICES ASSUME ReviewInv, Environment PROVE ReviewInv'
  OBVIOUS
<1>1. UNCHANGED <<guard, record, latest, validated, status>>
  BY DEF Environment, MainAdvances, ContractEdited, ForeignPush, HumanMerge,
     DeveloperEdit, DeveloperCommit, DeveloperSync, Crash, store, reviewStore,
     history, github
<1>2. op' = op \/ op' = Idle
  BY DEF Environment, MainAdvances, ContractEdited, ForeignPush, HumanMerge,
     DeveloperEdit, DeveloperCommit, DeveloperSync, Crash
<1>3. UNCHANGED <<pr, merged>> \/ pr = "open"
  BY DEF Environment, MainAdvances, ContractEdited, ForeignPush, HumanMerge,
     DeveloperEdit, DeveloperCommit, DeveloperSync, Crash, github
<1>4. Chain'
  BY <1>1, ChainFrame DEF ReviewInv
<1>5. OpChain'
  BY <1>1, <1>2, OtherOpChain, IdleName DEF ReviewInv, OpChain, Proven, At
<1>6. MergeChain'
  <2>1. CASE UNCHANGED <<pr, merged>>
    BY <1>1, <1>2, <2>1, MergeFrame, IdleName DEF ReviewInv
  <2>2. CASE pr = "open"
    BY <1>1, <1>2, <2>2, IdleName DEF ReviewInv, MergeChain
  <2>3. QED
    BY <1>3, <2>1, <2>2
<1>7. QED
  BY <1>4, <1>5, <1>6 DEF ReviewInv

\* No Delivery step is possible once the Task is Done, and none makes it Done.
LEMMA DeliveryReview == Typed /\ ReviewInv /\ DeliveryNext => ReviewInv'
<1> SUFFICES ASSUME Typed, ReviewInv, DeliveryNext PROVE ReviewInv'
  OBVIOUS
<1>0. op \in Ops
  BY DEF Typed, Knows
<1>1. UNCHANGED <<guard, record, latest>> /\ validated \subseteq validated'
  <2>1. UNCHANGED reviewStore
    BY DEF DeliveryNext, DeliverPrepare, DeliverStart, ValidateCandidate, CommitCandidate,
       RecordCandidate, AlreadySynced, PushCandidate, ConfirmPush, EnsureOpenPr,
       VerifyPr, SetReviewStatus, VerifyLocalCompletion, StopPipeline, store
  <2>2. validated \subseteq validated'
    BY DEF DeliveryNext, DeliverPrepare, DeliverStart, ValidateCandidate, CommitCandidate,
       RecordCandidate, AlreadySynced, PushCandidate, ConfirmPush, EnsureOpenPr,
       VerifyPr, SetReviewStatus, VerifyLocalCompletion, StopPipeline, history, Certify
  <2>3. QED
    BY <2>1, <2>2 DEF reviewStore
<1>2. op'.name \in Pipeline \cup {"idle"}
  BY DeliveryName
<1>3. status # "Done"
  <2>1. status = "Done" => op.name \notin Pipeline /\ pr = "merged"
    BY DEF ReviewInv, MergeChain
  <2>2. op.name \in Pipeline \/ status = "Ready" \/ pr # "merged"
    BY DEF DeliveryNext, DeliverPrepare, DeliverStart, ValidateCandidate, CommitCandidate,
       RecordCandidate, AlreadySynced, PushCandidate, ConfirmPush, EnsureOpenPr,
       VerifyPr, SetReviewStatus, VerifyLocalCompletion, StopPipeline, PipelineAt, At,
       Pipeline
  <2>3. QED
    BY <2>1, <2>2
<1>4. status' # "Done"
  BY <1>3 DEF DeliveryNext, DeliverPrepare, DeliverStart, ValidateCandidate, CommitCandidate,
     RecordCandidate, AlreadySynced, PushCandidate, ConfirmPush, EnsureOpenPr,
     VerifyPr, SetReviewStatus, VerifyLocalCompletion, StopPipeline, github
<1>5. Chain' /\ OpChain' /\ MergeChain'
  BY <1>1, <1>2, <1>4, ChainFrame, OtherOpChain DEF ReviewInv, MergeChain, Pipeline
<1>6. QED
  BY <1>5 DEF ReviewInv

\* Remediation starts only on an open PR.
LEMMA RemediationReview == Typed /\ ReviewInv /\ RemediationNext => ReviewInv'
<1> SUFFICES ASSUME Typed, ReviewInv, RemediationNext PROVE ReviewInv'
  OBVIOUS
<1>0. op \in Ops
  BY DEF Typed, Knows
<1>1. UNCHANGED <<guard, record, latest, validated, pr, merged, status>>
  BY DEF RemediationNext, PrepareRepairStart, NoChangeReceipt, RepairStart,
     PrepareRepairWrite, StopPrepareRepair, RaiseBoundary, ReleaseSession, store,
     reviewStore, history, github
<1>2. op'.name \in {"idle", "prepareRepair", "noChange"} \/ (op'.name = "repair" /\ status # "Done")
  <2>1. ASSUME NEW r, PrepareRepairStart(r) \/ NoChangeReceipt(r)
        PROVE  op'.name \in {"prepareRepair", "noChange"}
    BY <2>1 DEF PrepareRepairStart, NoChangeReceipt, Begin
  <2>2. ASSUME NEW r, RepairStart(r) PROVE op'.name = "repair" /\ status # "Done"
    BY <2>2 DEF RepairStart, RepairBegins, RemediationEligible, Begin
  <2>3. CASE PrepareRepairWrite \/ StopPrepareRepair \/ ReleaseSession
    BY <2>3, IdleName DEF PrepareRepairWrite, StopPrepareRepair, ReleaseSession
  <2>4. CASE RaiseBoundary
    BY <1>0, <2>4 DEF RaiseBoundary, At, Goto, Ops, ReviewInv, MergeChain, Pipeline
  <2>5. QED
    BY <2>1, <2>2, <2>3, <2>4 DEF RemediationNext
<1>3. Chain' /\ OpChain'
  BY <1>1, <1>2, ChainFrame, OtherOpChain DEF ReviewInv
<1>4. MergeChain'
  BY <1>1, <1>2, MergeFrame DEF ReviewInv, MergeChain
<1>5. QED
  BY <1>3, <1>4 DEF ReviewInv

\* Refresh adds evidence and moves heads, but touches no guard, record or verdict.
LEMMA RefreshReview == Typed /\ ReviewInv /\ RefreshNext => ReviewInv'
<1> SUFFICES ASSUME Typed, ReviewInv, RefreshNext PROVE ReviewInv'
  OBVIOUS
<1>0. op \in Ops
  BY DEF Typed, Knows
<1>1. UNCHANGED <<guard, record, latest, pr, merged, status>> /\ validated \subseteq validated'
  BY DEF RefreshNext, RefreshStart, RebaseCandidate, ValidateRebased, VerifyPrePush,
     FenceRefresh, PushExactLease, PushNotLanded, VerifyFinal, FinalNotProven,
     Compensate, CompensationUnproven, CompensationDrift, StopBeforeFence,
     RestoreBoundary, RestoreHead, Certify, store, reviewStore, history, github
<1>2. op'.name \in {"refresh", "idle"}
  BY RefreshName
<1>3. Chain' /\ OpChain' /\ MergeChain'
  BY <1>1, <1>2, ChainFrame, OtherOpChain, MergeFrame DEF ReviewInv
<1>4. QED
  BY <1>3 DEF ReviewInv

\* Closeout starts from the latest PASS on what was merged.
LEMMA CloseoutReview == Typed /\ ReviewInv /\ CloseoutNext => ReviewInv'
<1> SUFFICES ASSUME Typed, ReviewInv, CloseoutNext PROVE ReviewInv'
  OBVIOUS
<1>0. op \in Ops /\ merged \in Targets \cup {NoTarget}
  BY DEF Typed, Knows, GitHubOK
<1>1. UNCHANGED <<guard, record, latest, pr, merged, validated>>
  BY DEF CloseoutNext, CloseoutStart, SynchronizeMain, ConvergeMetadata,
     DeleteLocalBranch, VerifyRemoteTip, DeleteRemoteBranch, StopCloseout, store,
     reviewStore, history, github
<1>2. op'.name \in {"closeout", "idle"}
  BY CloseoutName
<1>3. pr = "merged" /\ MergedAsPassed
  <2>1. CASE CloseoutStart
    <3> DEFINE t == [merged EXCEPT !.body = body]
    <3>1. LatestPassOn(t) /\ pr = "merged"
      BY <2>1 DEF CloseoutStart
    <3>2. EvidenceOf(t) = EvidenceOf(merged)
      BY <1>0 DEF EvidenceOf, Targets, NoTarget
    <3>3. latest # NoLatest
      BY <3>1 DEF LatestPassOn, NoLatest
    <3>4. record[latest.rid].verdict = "PASS" /\ record[latest.rid].target = t
      BY <3>1 DEF LatestPassOn
    <3>5. QED
      BY <3>1, <3>2, <3>3, <3>4 DEF MergedAsPassed
  <2>2. CASE op.name = "closeout"
    BY <2>2 DEF ReviewInv, MergeChain
  <2>3. QED
    BY <2>1, <2>2 DEF CloseoutNext, SynchronizeMain, ConvergeMetadata,
       DeleteLocalBranch, VerifyRemoteTip, DeleteRemoteBranch, StopCloseout, At
<1>4. Chain' /\ OpChain'
  BY <1>1, <1>2, ChainFrame, OtherOpChain DEF ReviewInv
<1>5. MergeChain'
  BY <1>1, <1>2, <1>3 DEF MergeChain, MergedAsPassed, Pipeline
<1>6. QED
  BY <1>4, <1>5 DEF ReviewInv

\* Review itself: a guard is written after validation, a record from a guard, the
\* latest pointer from a record.
LEMMA ReviewReview == Typed /\ ReviewInv /\ ReviewNext => ReviewInv'
<1> SUFFICES ASSUME Typed, ReviewInv, ReviewNext PROVE ReviewInv'
  OBVIOUS
<1>0. /\ op \in Ops /\ Chain /\ OpChain /\ MergeChain
      /\ guard \in [Reviews -> Targets \cup {NoTarget}] /\ record \in [Reviews -> Records]
      /\ Knows(op, guard)
  BY DEF Typed, Knows, ReviewStoreOK, ReviewInv
<1>1. CASE PrepareReviewBegin
  <2>0. marker.state \in {"none", "preparing", "handedOff"}
    BY DEF Typed, ReviewStoreOK, Markers, NoMarker
  <2>1. /\ UNCHANGED <<guard, record, latest, validated, pr, merged, status>>
        /\ op'.name = "prepareReview" /\ op'.step \notin {"guard", "handoff"}
    BY <1>1, <2>0 DEF PrepareReviewBegin, Begin, history, github
  <2>2. QED
    BY <1>0, <2>1, ChainFrame, MergeFrame DEF ReviewInv, OpChain, At
<1>2. CASE PrepareReviewRecover
  <2>1. /\ UNCHANGED <<record, latest, validated, pr, merged, status>>
        /\ op'.name = "prepareReview" /\ op'.step = "snapshot"
    BY <1>0, <1>2 DEF PrepareReviewRecover, history, github, Ops
  <2>2. \A r \in Reviews : guard'[r] \in {guard[r], NoTarget}
    BY <1>0, <1>2 DEF PrepareReviewRecover
  <2>3. Chain'
    BY <1>0, <2>1, <2>2 DEF Chain, Proven
  <2>4. QED
    BY <1>0, <2>1, <2>3, MergeFrame DEF ReviewInv, OpChain, At
<1>3. CASE PrepareReviewClone
  <2>1. /\ UNCHANGED <<guard, record, latest, validated, pr, merged, status>>
        /\ op'.name = "prepareReview" /\ op'.step = "validate"
    BY <1>3 DEF PrepareReviewClone, Begin, history, github
  <2>2. QED
    BY <1>0, <2>1, ChainFrame, MergeFrame DEF ReviewInv, OpChain, At
<1>4. CASE PrepareReviewValidate
  <2>1. /\ UNCHANGED <<guard, record, latest, pr, merged, status>>
        /\ op'.name = "prepareReview" /\ op'.head = op.head /\ op'.base = op.base
        /\ validated' = validated \cup {<<op.head, op.base>>}
    BY <1>0, <1>4 DEF PrepareReviewValidate, At, Goto, Ops, store, reviewStore, github
  <2>2. OpChain'
    BY <2>1 DEF OpChain, Proven, EvidenceOf, At
  <2>3. QED
    BY <1>0, <2>1, <2>2, ChainFrame, MergeFrame DEF ReviewInv
<1>5. CASE PrepareReviewGuard
  <2> DEFINE t == [head |-> op.head, base |-> op.base, body |-> op.body]
  <2>1. /\ UNCHANGED <<record, latest, validated, pr, merged, status>>
        /\ op'.name = "prepareReview" /\ op'.head = op.head /\ op'.base = op.base
        /\ guard' = [guard EXCEPT ![op.rid] = t]
    BY <1>0, <1>5 DEF PrepareReviewGuard, At, Goto, Ops, history, github
  <2>2. Proven(op)
    BY <1>0, <1>5 DEF PrepareReviewGuard, At, OpChain
  <2>3. <<t.head, t.base>> \in validated
    BY <2>2 DEF Proven, EvidenceOf
  <2>4. \A r \in Reviews : guard'[r] = guard[r] \/ guard'[r] = t
    BY <1>0, <2>1
  <2>5. Chain'
    BY <1>0, <2>1, <2>3, <2>4 DEF Chain, Proven, EvidenceOf
  <2>6. OpChain'
    BY <2>1, <2>2 DEF OpChain, Proven, EvidenceOf, At
  <2>7. QED
    BY <1>0, <2>1, <2>5, <2>6, MergeFrame DEF ReviewInv
<1>6. ASSUME UNCHANGED <<guard, record, latest, validated, pr, merged, status>>,
             op' = op \/ op' = Idle
      PROVE  ReviewInv'
  <2>1. Chain' /\ MergeChain'
    BY <1>0, <1>6, ChainFrame, MergeFrame, IdleName
  <2>2. OpChain'
    BY <1>0, <1>6, OtherOpChain, IdleName DEF OpChain, Proven, At
  <2>3. QED
    BY <2>1, <2>2 DEF ReviewInv
<1>7. CASE PrepareReviewHandoff \/ StopPrepareReview \/ ReleaseMarker \/ MergePreflight
  BY <1>6, <1>7 DEF PrepareReviewHandoff, StopPrepareReview, ReleaseMarker,
     MergePreflight, store, reviewStore, history, github
<1>8. ASSUME NEW v \in Verdicts, CompleteReviewStart(v) PROVE ReviewInv'
  <2>1. /\ UNCHANGED <<guard, record, latest, validated, pr, merged, status>>
        /\ op'.name = "completeReview" /\ op'.step = "record" /\ pr = "open"
    BY <1>8 DEF CompleteReviewStart, CanComplete, ReviewEligible, Begin, store,
       reviewStore, history, github
  <2>2. Chain' /\ OpChain'
    BY <1>0, <2>1, ChainFrame DEF OpChain, At
  <2>3. MergeChain'
    BY <1>0, <2>1 DEF MergeChain, Pipeline
  <2>4. QED
    BY <2>2, <2>3 DEF ReviewInv
<1>9. CASE CompleteReviewStale
  <2>1. /\ UNCHANGED <<guard, record, latest, validated, pr, merged, status>>
        /\ op'.name = "completeReview" /\ op'.step = "removeClone" /\ pr = "open"
    BY <1>9 DEF CompleteReviewStale, CanComplete, ReviewEligible, Begin, store,
       reviewStore, history, github
  <2>2. Chain' /\ OpChain'
    BY <1>0, <2>1, ChainFrame DEF OpChain, At
  <2>3. MergeChain'
    BY <1>0, <2>1 DEF MergeChain, Pipeline
  <2>4. QED
    BY <2>2, <2>3 DEF ReviewInv
<1>10. ASSUME op.name = "completeReview", status' = status,
              op'.name = "completeReview", op'.step \in Steps
       PROVE  MergeChain'
  BY <1>0, <1>10 DEF MergeChain, Pipeline
<1>11. CASE WriteRecord
  <2> DEFINE n == [verdict |-> op.verdict, target |-> guard[op.rid]]
  <2>1. /\ UNCHANGED <<guard, latest, validated, status>>
        /\ op.name = "completeReview" /\ op'.name = "completeReview"
        /\ op'.step = "latest" /\ op'.rid = op.rid
        /\ record' = [record EXCEPT ![op.rid] = n]
    BY <1>0, <1>11 DEF WriteRecord, At, Goto, Ops, history, github
  <2>2. op.rid \in Reviews /\ op.verdict \in Verdicts /\ guard[op.rid] # NoTarget
    BY <1>0, <1>11 DEF WriteRecord, At, Knows
  <2>3. Proven(guard[op.rid]) /\ n # NoVerdict /\ n.target = guard[op.rid]
    BY <1>0, <2>2 DEF Chain, NoVerdict, Verdicts
  <2>4. record'[op.rid] = n /\ \A r \in Reviews : record'[r] = record[r] \/ record'[r] = n
    BY <1>0, <2>1, <2>2
  <2>5. latest # NoLatest => record'[latest.rid] # NoVerdict
    BY <1>0, <2>1, <2>2, <2>3 DEF Chain
  <2>6. Chain'
    BY <1>0, <2>1, <2>3, <2>4, <2>5 DEF Chain, Proven
  <2>7. OpChain'
    BY <2>1, <2>3, <2>4 DEF OpChain, At
  <2>8. QED
    BY <1>10, <2>1, <2>6, <2>7 DEF ReviewInv, Steps
<1>12. CASE WriteLatest
  <2>1. /\ UNCHANGED <<guard, record, validated, status>>
        /\ op.name = "completeReview" /\ op'.name = "completeReview"
        /\ op'.step = "clear" /\ latest' = [rid |-> op.rid, verdict |-> op.verdict]
    BY <1>0, <1>12 DEF WriteLatest, At, Goto, Ops, history, github
  <2>2. record[op.rid] # NoVerdict
    BY <1>0, <1>12 DEF WriteLatest, OpChain
  <2>3. Chain' /\ OpChain'
    BY <1>0, <2>1, <2>2 DEF Chain, OpChain, Proven, At
  <2>4. QED
    BY <1>10, <2>1, <2>3 DEF ReviewInv, Steps
<1>13. ASSUME UNCHANGED <<record, latest, validated, status>>,
              op.name = "completeReview", op'.name = "completeReview",
              op'.step \in Steps, op'.step # "latest",
              \A r \in Reviews : guard'[r] \in {guard[r], NoTarget}
       PROVE  ReviewInv'
  <2>1. Chain' /\ OpChain'
    BY <1>0, <1>13 DEF Chain, OpChain, Proven, At
  <2>2. QED
    BY <1>10, <1>13, <2>1 DEF ReviewInv
<1>14. CASE ClearRequired \/ RemoveClone
  <2>1. /\ UNCHANGED <<guard, record, latest, validated, status>>
        /\ op.name = "completeReview" /\ op'.name = "completeReview"
        /\ op'.step \in {"removeClone", "dropGuard"}
    BY <1>0, <1>14 DEF ClearRequired, RemoveClone, At, Goto, Ops, reviewStore, history,
       github
  <2>2. QED
    BY <1>13, <2>1 DEF Steps
<1>15. CASE DropGuard
  <2>1. /\ UNCHANGED <<record, latest, validated, status>>
        /\ op.name = "completeReview" /\ op'.name = "completeReview"
        /\ op'.step = "release"
    BY <1>0, <1>15 DEF DropGuard, At, Goto, Ops, history, github
  <2>2. \A r \in Reviews : guard'[r] \in {guard[r], NoTarget}
    BY <1>0, <1>15 DEF DropGuard
  <2>3. QED
    BY <1>13, <2>1, <2>2 DEF Steps
<1>16. QED
  BY <1>1, <1>2, <1>3, <1>4, <1>5, <1>7, <1>8, <1>9, <1>11, <1>12, <1>14, <1>15
     DEF ReviewNext

\* A Task that is ready for delivery has no Review yet.
LEMMA ReviewInit == Init => ReviewInv
<1> SUFFICES ASSUME Init PROVE ReviewInv
  OBVIOUS
<1>1. Chain
  BY DEF Init, Chain
<1>2. OpChain /\ MergeChain
  BY DEF Init, OpChain, MergeChain, Idle, At
<1>3. QED
  BY <1>1, <1>2 DEF ReviewInv

\* Every step of the Task keeps the Review chain.
LEMMA ReviewInvNext == Typed /\ ReviewInv /\ [Next]_vars => ReviewInv'
<1>1. ReviewInv /\ UNCHANGED vars => ReviewInv'
  <2> SUFFICES ASSUME ReviewInv, UNCHANGED vars PROVE ReviewInv'
    OBVIOUS
  <2>1. UNCHANGED <<guard, record, latest, validated, pr, merged, status, op>>
    BY DEF vars, store, reviewStore, history, github
  <2>2. Chain' /\ MergeChain'
    BY <2>1, ChainFrame, MergeFrame DEF ReviewInv
  <2>3. OpChain'
    BY <2>1 DEF ReviewInv, OpChain, Proven, At
  <2>4. QED
    BY <2>2, <2>3 DEF ReviewInv
<1>2. QED
  BY <1>1, EnvironmentReview, DeliveryReview, RemediationReview, ReviewReview,
     RefreshReview, CloseoutReview DEF Next, LckNext

\* The Review chain holds for every run of LCK: each guard was validated, each
\* record is a validated guard, and the latest verdict is a record.
THEOREM ReviewChain == Spec => [](Typed /\ ReviewInv)
BY Typing, ReviewInit, ReviewInvNext, PTL DEF Spec

\* Whatever the bounds, a Task is Done only if the merged head and base are those
\* a Review passed, after a formal validation of exactly them.
THEOREM DoneOnlyAsReviewed == Spec => []DoneIsReviewed
<1>1. Typed /\ ReviewInv => DoneIsReviewed
  <2> SUFFICES ASSUME Typed, ReviewInv, status = "Done" PROVE DoneIsReviewed
    BY DEF DoneIsReviewed
  <2> DEFINE t == record[latest.rid].target
  <2>1. /\ latest # NoLatest /\ record[latest.rid].verdict = "PASS"
        /\ EvidenceOf(t) = EvidenceOf(merged)
    BY DEF ReviewInv, MergeChain, MergedAsPassed
  <2>2. latest.rid \in Reviews
    BY <2>1 DEF Typed, ReviewStoreOK
  <2>3. record[latest.rid] # NoVerdict
    BY <2>1 DEF ReviewInv, Chain
  <2>4. EvidenceOf(t) \in validated
    BY <2>2, <2>3 DEF ReviewInv, Chain, Proven
  <2>5. t.head = merged.head /\ t.base = merged.base
    BY <2>1 DEF EvidenceOf
  <2>6. QED
    BY <2>1, <2>2, <2>4, <2>5 DEF DoneIsReviewed, EvidenceOf
<1>2. QED
  BY <1>1, ReviewChain, PTL

-----------------------------------------------------------------------------
(* What a push may do. *)

\* A plain push is a fast-forward; only Refresh exchanges two heads, its own.
LEMMA PushStep ==
    ASSUME Typed, [Next]_vars, remote' \notin {remote, NoCommit}, foreign' = foreign
    PROVE  \/ IsAncestor(remote, remote')
           \/ op.name = "refresh" /\ {remote, remote'} = {op.start, op.head}
<1>1. foreign \in Nat
  BY DEF Typed, HistoryOK
<1>2. PushCandidate \/ PushExactLease \/ Compensate
  <2>1. ~(UNCHANGED vars) /\ ~Environment
    BY <1>1 DEF vars, Environment, MainAdvances, ContractEdited, ForeignPush, HumanMerge,
       DeveloperEdit, DeveloperCommit, DeveloperSync, Crash, github
  <2>2. DeliveryNext => PushCandidate
    BY DEF DeliveryNext, DeliverPrepare, DeliverStart, ValidateCandidate, CommitCandidate,
       RecordCandidate, AlreadySynced, ConfirmPush, EnsureOpenPr, VerifyPr,
       SetReviewStatus, VerifyLocalCompletion, StopPipeline, github
  <2>3. ~RemediationNext
    BY DEF RemediationNext, PrepareRepairStart, NoChangeReceipt, RepairStart,
       PrepareRepairWrite, StopPrepareRepair, RaiseBoundary, ReleaseSession, github
  <2>4. ~ReviewNext
    BY DEF ReviewNext, PrepareReviewBegin, PrepareReviewRecover, PrepareReviewClone,
       PrepareReviewValidate, PrepareReviewGuard, PrepareReviewHandoff,
       StopPrepareReview, CompleteReviewStart, CompleteReviewStale, WriteRecord,
       WriteLatest, ClearRequired, RemoveClone, DropGuard, ReleaseMarker,
       MergePreflight, github
  <2>5. RefreshNext => PushExactLease \/ Compensate
    BY DEF RefreshNext, RefreshStart, RebaseCandidate, ValidateRebased, VerifyPrePush,
       FenceRefresh, PushNotLanded, VerifyFinal, FinalNotProven, CompensationUnproven,
       CompensationDrift, StopBeforeFence, RestoreBoundary, RestoreHead, github
  <2>6. ~CloseoutNext
    BY DEF CloseoutNext, CloseoutStart, SynchronizeMain, ConvergeMetadata,
       DeleteLocalBranch, VerifyRemoteTip, DeleteRemoteBranch, StopCloseout, github
  <2>7. QED
    BY <2>1, <2>2, <2>3, <2>4, <2>5, <2>6 DEF Next, LckNext
<1>3. CASE PushCandidate
  BY <1>3 DEF PushCandidate, MayFastForward
<1>4. CASE PushExactLease
  BY <1>4 DEF PushExactLease, LeaseHolds, At
<1>5. CASE Compensate
  BY <1>5 DEF Compensate, At
<1>6. QED
  BY <1>2, <1>3, <1>4, <1>5

\* No LCK push loses another writer's work, whatever the bounds: the remote moves
\* forward, or a Refresh exchanges the head it began from and the one it made.
THEOREM ForeignWorkKept == Spec => NoForeignWorkLost
<1>1. Typed /\ [Next]_vars
        => [(remote' \notin {remote, NoCommit} /\ foreign' = foreign) =>
              \/ IsAncestor(remote, remote')
              \/ op.name = "refresh" /\ {remote, remote'} = {op.start, op.head}]_vars
  BY PushStep
<1>2. QED
  BY <1>1, Typing, PTL DEF Spec, NoForeignWorkLost

-----------------------------------------------------------------------------
(* Each step is a step of the promise to the maintainer, or nothing to it. *)

\* What the promise sees of a state.
Accepted == IF latest = NoLatest THEN NoTarget ELSE record[latest.rid]
Closed == IF status = "Done" THEN {EvidenceOf(merged)} ELSE {}

\* A step the promise does not see.
Unseen == UNCHANGED <<validated, ready>> /\ Accepted' = Accepted /\ Closed' = Closed
\* A step that changes nothing the promise sees is a stutter of MergeAuthority.
LEMMA UnseenStutters == Unseen => UNCHANGED Promise!vars
BY DEF Unseen, Accepted, Closed, Promise!vars

\* A Task that is ready for delivery has promised nothing yet.
LEMMA PromiseInit == Init => Promise!Init
BY DEF Init, Promise!Init

\* More evidence: a validation of some target.
LEMMA EvidenceStep ==
    ASSUME NEW c \in Heads, NEW m \in Mains, validated' = validated \cup {<<c, m>>},
           UNCHANGED ready, Accepted' = Accepted, Closed' = Closed
    PROVE  Promise!Next
<1> DEFINE t == [head |-> c, base |-> m, body |-> 1]
<1>1. t \in Targets
  BY BoundsAssumption DEF Targets, Bodies
<1>2. EvidenceOf(t) = <<c, m>>
  BY DEF EvidenceOf
<1>3. Promise!Validate(t)
  BY <1>2 DEF Promise!Validate, Accepted, Closed
<1>4. QED
  BY <1>1, <1>3 DEF Promise!Next

\* A verdict accepted about a validated target.
LEMMA AcceptStep ==
    ASSUME NEW v \in [verdict: Verdicts, target: Targets], Proven(v.target),
           Accepted' = v, UNCHANGED <<validated, ready>>, Closed' = Closed
    PROVE  Promise!Next
<1>1. v \in Promise!Verdict
  BY DEF Promise!Verdict, Verdicts
<1>2. Promise!Accept(v)
  BY DEF Promise!Accept, Proven, Accepted, Closed
<1>3. QED
  BY <1>1, <1>2 DEF Promise!Next

\* A PASS record is not the empty one.
LEMMA PassIsSome ==
    ASSUME NEW t
    PROVE  [verdict |-> "PASS", target |-> t] # NoTarget
<1>1. DOMAIN [verdict |-> "PASS", target |-> t] # DOMAIN NoTarget
  BY DEF NoTarget
<1>2. QED
  BY <1>1

\* A step that leaves validation, verdicts, announcement and closing alone.
LEMMA NothingSeen ==
    ASSUME ReviewInv, UNCHANGED <<validated, ready, record, latest, status>>,
           UNCHANGED merged \/ pr # "merged"
    PROVE  Unseen
<1>1. Accepted' = Accepted
  BY DEF Accepted
<1>2. Closed' = Closed
  BY DEF ReviewInv, MergeChain, Closed
<1>3. QED
  BY <1>1, <1>2 DEF Unseen

-----------------------------------------------------------------------------
\* What happens outside LCK (a merge, an edit, a crash) is invisible to the promise.
LEMMA EnvironmentPromise == ReviewInv /\ Environment => Unseen
<1> SUFFICES ASSUME ReviewInv, Environment PROVE Unseen
  OBVIOUS
<1>1. UNCHANGED <<validated, ready, record, latest, status>>
  BY DEF Environment, MainAdvances, ContractEdited, ForeignPush, HumanMerge,
     DeveloperEdit, DeveloperCommit, DeveloperSync, Crash, store, reviewStore,
     history, github
<1>2. UNCHANGED merged \/ pr # "merged"
  BY DEF Environment, MainAdvances, ContractEdited, ForeignPush, HumanMerge,
     DeveloperEdit, DeveloperCommit, DeveloperSync, Crash, github
<1>3. QED
  BY <1>1, <1>2, NothingSeen

\* Delivery is seen when it certifies a commit.
LEMMA DeliveryPromise ==
    Typed /\ ReviewInv /\ DeliveryNext => Promise!Next \/ Unseen
<1> SUFFICES ASSUME Typed, ReviewInv, DeliveryNext
             PROVE  Promise!Next \/ Unseen
  OBVIOUS
<1>1. UNCHANGED <<ready, record, latest, merged>>
  BY DEF DeliveryNext, DeliverPrepare, DeliverStart, ValidateCandidate, CommitCandidate,
     RecordCandidate, AlreadySynced, PushCandidate, ConfirmPush, EnsureOpenPr, VerifyPr,
     SetReviewStatus, VerifyLocalCompletion, StopPipeline, github, store, reviewStore,
     history
<1>2. status # "Done" /\ status' # "Done"
  <2>1. status = "Done" => op.name \notin Pipeline /\ pr = "merged"
    BY DEF ReviewInv, MergeChain
  <2>2. op.name \in Pipeline \/ status = "Ready" \/ pr # "merged"
    BY DEF DeliveryNext, DeliverPrepare, DeliverStart, ValidateCandidate, CommitCandidate,
       RecordCandidate, AlreadySynced, PushCandidate, ConfirmPush, EnsureOpenPr, VerifyPr,
       SetReviewStatus, VerifyLocalCompletion, StopPipeline, PipelineAt, At, Pipeline
  <2>3. status' \in {status, "InProgress", "Review"}
    BY DEF DeliveryNext, DeliverPrepare, DeliverStart, ValidateCandidate, CommitCandidate,
       RecordCandidate, AlreadySynced, PushCandidate, ConfirmPush, EnsureOpenPr, VerifyPr,
       SetReviewStatus, VerifyLocalCompletion, StopPipeline, github
  <2>4. QED
    BY <2>1, <2>2, <2>3
<1>3. Accepted' = Accepted /\ Closed' = Closed
  BY <1>1, <1>2 DEF Accepted, Closed
<1>4. CASE validated' = validated
  BY <1>1, <1>3, <1>4 DEF Unseen
<1>5. CASE CommitCandidate /\ validated' # validated
  <2>1. op.base \in Mains /\ op.head \in Heads
    BY <1>5 DEF CommitCandidate, PipelineAt, Pipeline, Typed, Knows, Ops
  <2>2. PICK c \in Heads : validated' = validated \cup {<<c, op.base>>}
    <3>1. CASE work = "clean"
      BY <1>5, <2>1, <3>1 DEF CommitCandidate, Certify
    <3>2. CASE work # "clean"
      <4>1. MakeCommit(op.head, MainOf(op.head)) /\ Certify(New)
        BY <1>5, <3>2 DEF CommitCandidate
      <4>2. New \in Heads
        BY <2>1, <4>1, CommitOnTyped DEF Typed
      <4>3. QED
        BY <1>5, <4>1, <4>2 DEF Certify
    <3>3. QED
      BY <3>1, <3>2
  <2>3. QED
    BY <1>1, <1>3, <2>1, <2>2, EvidenceStep
<1>6. QED
  BY <1>4, <1>5 DEF DeliveryNext, DeliverPrepare, DeliverStart, ValidateCandidate,
     RecordCandidate, AlreadySynced, PushCandidate, ConfirmPush, EnsureOpenPr, VerifyPr,
     SetReviewStatus, VerifyLocalCompletion, StopPipeline, history

\* Remediation neither accepts a verdict nor announces or closes a merge.
LEMMA RemediationPromise == ReviewInv /\ RemediationNext => Unseen
<1> SUFFICES ASSUME ReviewInv, RemediationNext PROVE Unseen
  OBVIOUS
<1>1. UNCHANGED <<validated, ready, record, latest, status, merged>>
  BY DEF RemediationNext, PrepareRepairStart, NoChangeReceipt, RepairStart,
     PrepareRepairWrite, StopPrepareRepair, RaiseBoundary, ReleaseSession, store,
     reviewStore, history, github
<1>2. QED
  BY <1>1, NothingSeen

\* Refresh is seen when its candidate passes the pre-push check.
LEMMA RefreshPromise == Typed /\ ReviewInv /\ RefreshNext => Promise!Next \/ Unseen
<1> SUFFICES ASSUME Typed, ReviewInv, RefreshNext PROVE Promise!Next \/ Unseen
  OBVIOUS
<1>1. UNCHANGED <<ready, record, latest, status, merged>>
  BY DEF RefreshNext, RefreshStart, RebaseCandidate, ValidateRebased, VerifyPrePush,
     FenceRefresh, PushExactLease, PushNotLanded, VerifyFinal, FinalNotProven,
     Compensate, CompensationUnproven, CompensationDrift, StopBeforeFence,
     RestoreBoundary, RestoreHead, store, reviewStore, history, github
<1>2. CASE VerifyPrePush /\ validated' # validated
  <2>1. op.base \in Mains /\ op.head \in Heads
    BY <1>2 DEF VerifyPrePush, At, Typed, Knows, Ops
  <2>2. validated' = validated \cup {<<op.head, op.base>>}
    BY <1>2 DEF VerifyPrePush, Certify
  <2>3. QED
    BY <1>1, <2>1, <2>2, EvidenceStep DEF Accepted, Closed
<1>3. CASE validated' = validated
  BY <1>1, <1>3, NothingSeen
<1>4. QED
  BY <1>2, <1>3 DEF RefreshNext, RefreshStart, RebaseCandidate, ValidateRebased,
     FenceRefresh, PushExactLease, PushNotLanded, VerifyFinal, FinalNotProven,
     Compensate, CompensationUnproven, CompensationDrift, StopBeforeFence,
     RestoreBoundary, RestoreHead, history

\* Closeout is seen when the Task becomes Done: the promise is closed once.
LEMMA CloseoutPromise ==
    Typed /\ ReviewInv /\ CloseoutNext => Promise!Next \/ Unseen
<1> SUFFICES ASSUME Typed, ReviewInv, CloseoutNext PROVE Promise!Next \/ Unseen
  OBVIOUS
<1>1. UNCHANGED <<validated, ready, record, latest, merged>>
  BY DEF CloseoutNext, CloseoutStart, SynchronizeMain, ConvergeMetadata,
     DeleteLocalBranch, VerifyRemoteTip, DeleteRemoteBranch, StopCloseout, store,
     reviewStore, history, github
<1>2. CASE status' = status
  BY <1>1, <1>2, NothingSeen
<1>3. CASE ConvergeMetadata /\ status' # status
  <2>1. status' = "Done" /\ status # "Done" /\ op.name = "closeout"
    BY <1>3 DEF ConvergeMetadata
  <2>2. MergedAsPassed
    BY <2>1 DEF ReviewInv, MergeChain
  <2>3. latest.rid \in Reviews /\ record[latest.rid] \in Records
    BY <2>2 DEF MergedAsPassed, Typed, ReviewStoreOK
  <2>4. PICK t \in Targets : record[latest.rid] = [verdict |-> "PASS", target |-> t]
    BY <2>2, <2>3 DEF MergedAsPassed, Records, NoVerdict
  <2>5. /\ Accepted = [verdict |-> "PASS", target |-> t] /\ Accepted # NoTarget
        /\ Accepted.verdict = "PASS" /\ EvidenceOf(Accepted.target) = EvidenceOf(merged)
    BY <2>2, <2>4, PassIsSome DEF Accepted, MergedAsPassed
  <2>6. Closed = {} /\ Closed' = {EvidenceOf(Accepted.target)} /\ Accepted' = Accepted
    BY <1>1, <2>1, <2>5 DEF Closed, Accepted, EvidenceOf
  <2>7. Promise!Close
    BY <1>1, <2>5, <2>6 DEF Promise!Close, Promise!Passed, Accepted, Closed
  <2>8. QED
    BY <2>7 DEF Promise!Next
<1>4. QED
  BY <1>2, <1>3 DEF CloseoutNext, CloseoutStart, SynchronizeMain, DeleteLocalBranch,
     VerifyRemoteTip, DeleteRemoteBranch, StopCloseout, github

\* Review is seen when it validates, when it accepts a verdict (the record of the
\* latest Review, or the latest pointer, is written) and when it announces.
LEMMA ReviewPromise == Typed /\ ReviewInv /\ ReviewNext => Promise!Next \/ Unseen
<1> SUFFICES ASSUME Typed, ReviewInv, ReviewNext PROVE Promise!Next \/ Unseen
  OBVIOUS
<1>0. /\ op \in Ops /\ Knows(op, guard)
      /\ guard \in [Reviews -> Targets \cup {NoTarget}] /\ record \in [Reviews -> Records]
      /\ latest # NoLatest => latest.rid \in Reviews
  BY DEF Typed, Knows, ReviewStoreOK
<1>1. UNCHANGED <<status, merged>>
  BY DEF ReviewNext, PrepareReviewBegin, PrepareReviewRecover, PrepareReviewClone,
     PrepareReviewValidate, PrepareReviewGuard, PrepareReviewHandoff,
     StopPrepareReview, CompleteReviewStart, CompleteReviewStale, WriteRecord,
     WriteLatest, ClearRequired, RemoveClone, DropGuard, ReleaseMarker,
     MergePreflight, github
<1>2. Closed' = Closed
  BY <1>1 DEF Closed
<1>3. CASE PrepareReviewValidate
  <2>1. op.head \in Heads /\ op.base \in Mains
    BY <1>0, <1>3 DEF PrepareReviewValidate, At, Knows, Ops
  <2>2. /\ validated' = validated \cup {<<op.head, op.base>>}
        /\ UNCHANGED <<ready, record, latest>>
    BY <1>3 DEF PrepareReviewValidate, store, reviewStore
  <2>3. QED
    BY <1>2, <2>1, <2>2, EvidenceStep DEF Accepted
<1>4. CASE WriteRecord
  <2> DEFINE n == [verdict |-> op.verdict, target |-> guard[op.rid]]
  <2>1. op.rid \in Reviews /\ op.verdict \in Verdicts /\ guard[op.rid] # NoTarget
    BY <1>0, <1>4 DEF WriteRecord, At, Knows
  <2>2. guard[op.rid] \in Targets /\ Proven(guard[op.rid])
    BY <1>0, <2>1 DEF ReviewInv, Chain
  <2>3. record' = [record EXCEPT ![op.rid] = n] /\ UNCHANGED <<latest, validated, ready>>
    BY <1>4 DEF WriteRecord, history
  <2>4. CASE latest # NoLatest /\ latest.rid = op.rid
    <3>1. Accepted' = n
      BY <1>0, <2>1, <2>3, <2>4 DEF Accepted
    <3>2. n \in [verdict: Verdicts, target: Targets] /\ n.target = guard[op.rid]
      BY <2>1, <2>2
    <3>3. QED
      BY <1>2, <2>2, <2>3, <3>1, <3>2, AcceptStep
  <2>5. CASE ~(latest # NoLatest /\ latest.rid = op.rid)
    <3>1. Accepted' = Accepted
      BY <1>0, <2>1, <2>3, <2>5 DEF Accepted
    <3>2. QED
      BY <1>2, <2>3, <3>1 DEF Unseen
  <2>6. QED
    BY <2>4, <2>5
<1>5. CASE WriteLatest
  <2>1. op.rid \in Reviews /\ op.verdict \in Verdicts
    BY <1>0, <1>5 DEF WriteLatest, At, Knows
  <2>2. record[op.rid] # NoVerdict
    BY <1>5 DEF WriteLatest, ReviewInv, OpChain
  <2>3. /\ record[op.rid] \in [verdict: Verdicts, target: Targets]
        /\ Proven(record[op.rid].target)
    BY <1>0, <2>1, <2>2 DEF ReviewInv, Chain, Records
  <2>4. /\ latest' = [rid |-> op.rid, verdict |-> op.verdict]
        /\ UNCHANGED <<record, validated, ready>>
    BY <1>5 DEF WriteLatest, history
  <2>5. latest' # NoLatest
    BY <2>1, <2>4 DEF NoLatest, NoReview, Reviews
  <2>6. Accepted' = record[op.rid]
    BY <2>4, <2>5 DEF Accepted
  <2>7. QED
    BY <1>2, <2>3, <2>4, <2>6, AcceptStep
<1>6. CASE MergePreflight
  <2>1. /\ LatestPassOn(LiveTarget) /\ ready' = LiveTarget
        /\ UNCHANGED <<validated, record, latest>>
    BY <1>6 DEF MergePreflight, store, reviewStore
  <2>2. latest # NoLatest
    BY <2>1 DEF LatestPassOn, NoLatest
  <2>3. Accepted = [verdict |-> "PASS", target |-> LiveTarget] /\ Accepted' = Accepted
    BY <2>1, <2>2 DEF LatestPassOn, Accepted
  <2>4. Accepted # NoTarget /\ Accepted.verdict = "PASS" /\ Accepted.target = LiveTarget
    BY <2>3, PassIsSome
  <2>5. Promise!Announce
    BY <1>2, <2>1, <2>3, <2>4 DEF Promise!Announce, Promise!Passed, Accepted, Closed
  <2>6. QED
    BY <2>5 DEF Promise!Next
<1>7. CASE UNCHANGED <<validated, ready, record, latest>>
  BY <1>1, <1>7, NothingSeen
<1>8. QED
  BY <1>3, <1>4, <1>5, <1>6, <1>7 DEF ReviewNext, PrepareReviewBegin, PrepareReviewRecover,
     PrepareReviewClone, PrepareReviewGuard, PrepareReviewHandoff, StopPrepareReview,
     CompleteReviewStart, CompleteReviewStale, ClearRequired, RemoveClone, DropGuard,
     ReleaseMarker, store, reviewStore, history

\* Every step of LCK is a step of MergeAuthority or a stutter.
LEMMA PromiseStep ==
    Typed /\ ReviewInv /\ [Next]_vars => [Promise!Next]_(Promise!vars)
<1>1. ReviewInv /\ UNCHANGED vars => Unseen
  BY DEF vars, store, reviewStore, history, github, Unseen, Accepted, Closed
<1>2. Typed /\ ReviewInv /\ Next => Promise!Next \/ Unseen
  BY EnvironmentPromise, DeliveryPromise, RemediationPromise, ReviewPromise,
     RefreshPromise, CloseoutPromise DEF Next, LckNext
<1>3. QED
  BY <1>1, <1>2, UnseenStutters

\* Whatever the bounds, every run of LCK keeps the promise to the maintainer:
\* verdicts only about validated targets, READY and Done only for the target of
\* the verdict accepted last, and only if it is PASS.
THEOREM PromiseKept == Spec => ImplementsMergeAuthority
BY PromiseInit, PromiseStep, ReviewChain, PTL DEF Spec, Promise!Spec, ImplementsMergeAuthority
=============================================================================
