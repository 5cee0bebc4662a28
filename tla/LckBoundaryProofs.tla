------------------------- MODULE LckBoundaryProofs -------------------------
(***************************************************************************)
(* For every value of the bounds, no head that Remediation or Refresh       *)
(* pushed stays on the Task branch unreviewed without a boundary or an      *)
(* owner, but for the head of a repair without a session that has raised no *)
(* boundary; only the death of the process leaves a session behind a raised *)
(* boundary, and only another writer's push lets Closeout delete an         *)
(* unproven head.                                                           *)
(***************************************************************************)
EXTENDS LckSafetyProofs

\* Some Review has judged the head c.
Judged(c) == \E r \in Reviews : record[r].target.head = c
\* Remediation or Refresh pushed c, not as a repair without a session that has raised
\* no boundary for it, and no Review has judged it.
Unreviewed(c) == c \in repaired \ unfenced /\ ~Judged(c)

\* Commits are numbered in the order they are made, and descend transitively.
Ancestry ==
    /\ \A c \in Commits : anc[c] \subseteq 1..c /\ (c > made => anc[c] = {})
    /\ \A c \in Commits : \A d \in anc[c] : anc[d] \subseteq anc[c]
\* The heads the operation o works with have been made; a rebased one after the one
\* it replaces.
OpMade(o) ==
    /\ o.head <= made
    /\ o.name = "refresh" =>
         /\ o.start <= made
         /\ o.step \in {"validate", "verify", "fence", "push", "final", "compensate"} => o.start < o.head
\* Every head in use has been made.
MadeSoFar ==
    /\ repaired \subseteq 1..made
    /\ remote <= made /\ local <= made
    /\ session.start <= made /\ session.cand <= made
    /\ OpMade(op)
    /\ merged.head <= made
GraphInv == Ancestry /\ MadeSoFar

-----------------------------------------------------------------------------
\* A new commit has the ancestors of its parent and itself; the others keep theirs.
LEMMA CommitDescends ==
    ASSUME CloneOK, Ancestry, NEW p \in Heads, p <= made, NEW base, MakeCommit(p, base)
    PROVE  /\ made' = made + 1 /\ New \in Commits /\ New = made + 1
           /\ \A c \in Commits : c # New => anc'[c] = anc[c]
           /\ anc'[New] = {New} \cup (IF p = NoCommit THEN {} ELSE anc[p])
           /\ Ancestry'
<1>1. /\ made \in Heads /\ made < MaxCommit /\ made' = made + 1 /\ New = made + 1
      /\ New \in Commits
  <2>1. made \in Heads /\ made < MaxCommit /\ made' = made + 1 /\ New = made + 1
    BY DEF CloneOK, MakeCommit, New
  <2>2. QED
    BY <2>1, BoundsAssumption DEF Commits, Heads
<1>2. /\ \A c \in Commits : c # New => anc'[c] = anc[c]
      /\ anc'[New] = {New} \cup (IF p = NoCommit THEN {} ELSE anc[p])
  BY <1>1 DEF CloneOK, MakeCommit
<1>3. p # NoCommit => p \in Commits /\ anc[p] \subseteq 1..made
  BY <1>1 DEF Ancestry, Heads, Commits, NoCommit
<1>4. \A c \in Commits : anc'[c] \subseteq 1..c /\ (c > made' => anc'[c] = {})
  <2> TAKE c \in Commits
  <2>1. CASE c = New
    BY <1>1, <1>2, <1>3, <2>1 DEF Commits, Heads
  <2>2. CASE c # New
    BY <1>1, <1>2, <2>2 DEF Ancestry, Commits, Heads
  <2>3. QED
    BY <2>1, <2>2
<1>5. \A c \in Commits : \A d \in anc'[c] : anc'[d] \subseteq anc'[c]
  <2> SUFFICES ASSUME NEW c \in Commits, NEW d \in anc'[c] PROVE anc'[d] \subseteq anc'[c]
    OBVIOUS
  <2>1. CASE d = New
    <3>1. c = New
      BY <1>1, <1>2, <2>1 DEF Ancestry, Commits, Heads
    <3>2. QED
      BY <2>1, <3>1
  <2>2. CASE d # New /\ c # New
    <3>1. anc'[c] = anc[c] /\ d \in Commits
      BY <1>2, <1>4, <2>2 DEF CloneOK
    <3>2. anc[d] \subseteq anc[c] /\ anc'[d] = anc[d]
      BY <1>2, <2>2, <3>1 DEF Ancestry
    <3>3. QED
      BY <3>1, <3>2
  <2>3. CASE d # New /\ c = New
    <3>1. p # NoCommit /\ d \in anc[p]
      BY <1>2, <2>3
    <3>2. d \in Commits /\ anc[d] \subseteq anc[p]
      BY <1>3, <3>1 DEF Ancestry, CloneOK
    <3>3. QED
      BY <1>2, <2>3, <3>1, <3>2
  <2>4. QED
    BY <2>1, <2>2, <2>3
<1>6. QED
  BY <1>1, <1>2, <1>4, <1>5 DEF Ancestry

\* A new head, whatever was made before it, is the last one made.
LEMMA CommitOnDescends ==
    ASSUME CloneOK, Ancestry, NEW p \in Heads, p <= made, MakeCommit(p, MainOf(p))
    PROVE  /\ made \in Nat /\ made' = made + 1 /\ New \in Commits /\ New = made + 1
           /\ \A c \in Commits : c # New => anc'[c] = anc[c]
           /\ Ancestry'
BY CommitDescends DEF CloneOK, Heads

\* A step that makes no commit and puts no head where a later one was.
GraphFrame ==
    /\ UNCHANGED commits
    /\ remote' <= made /\ local' <= made /\ repaired' \subseteq 1..made
    /\ session'.start <= made /\ session'.cand <= made
    /\ merged'.head <= made /\ OpMade(op')
\* Such a step keeps the graph.
LEMMA GraphFrames == GraphInv /\ GraphFrame => GraphInv'
BY DEF GraphInv, GraphFrame, Ancestry, MadeSoFar, OpMade, commits

\* What the type of the state and the graph say of the heads in use.
LEMMA HeadsMade ==
    ASSUME Typed, GraphInv
    PROVE  /\ made \in Nat /\ made \in Heads
           /\ remote \in 0..made /\ local \in 0..made /\ op.head \in 0..made
           /\ session.start \in 0..made /\ session.cand \in 0..made
           /\ op.name = "refresh" => op.start \in 0..made
           /\ merged.head \in 0..made
           /\ remote \in Heads /\ local \in Heads /\ op.head \in Heads
           /\ op \in Ops
<1>1. /\ made \in Heads /\ remote \in Heads /\ local \in Heads /\ op \in Ops
      /\ session \in Sessions \cup {NoSession}
  BY DEF Typed, GitHubOK, CloneOK, RepairStoreOK, Knows
<1>2. op.head \in Heads /\ op.start \in Heads
  BY <1>1 DEF Ops
<1>3. session.start \in Heads /\ session.cand \in Heads
  BY <1>1, BoundsAssumption DEF Sessions, NoSession, NoCommit, Heads
<1>4. merged.head \in Heads
  BY BoundsAssumption DEF Typed, GitHubOK, Targets, NoTarget, NoCommit, Heads
<1>5. QED
  BY <1>1, <1>2, <1>3, <1>4 DEF GraphInv, MadeSoFar, OpMade, Heads

\* No operation, and an operation that does not rebase and goes on with its head.
LEMMA OtherMade ==
    ASSUME Typed, GraphInv
    PROVE  /\ OpMade(Idle)
           /\ \A o : o.name # "refresh" /\ o.head <= made => OpMade(o)
           /\ op.name # "refresh" => \A step : OpMade([op EXCEPT !.step = step])
<1>1. made \in Nat /\ op \in Ops /\ op.head <= made
  BY HeadsMade
<1>2. QED
  BY <1>1 DEF OpMade, Idle, NoCommit, Ops

\* Steps outside LCK keep the graph.
LEMMA EnvironmentGraph == Typed /\ GraphInv /\ Environment => GraphInv'
<1> SUFFICES ASSUME Typed, GraphInv, Environment PROVE GraphInv'
  OBVIOUS
<1>0. CloneOK /\ Ancestry /\ MadeSoFar /\ NoCommit = 0
  BY DEF Typed, GraphInv, NoCommit
<1>1. CASE ForeignPush
  <2>1. PICK p \in {NoCommit, remote} : MakeCommit(p, MainOf(p))
    BY <1>1 DEF ForeignPush
  <2>2. p \in Heads /\ p <= made
    BY <1>0, <2>1, HeadsMade, BoundsAssumption DEF Heads
  <2>3. made' = made + 1 /\ New = made + 1 /\ Ancestry'
    BY <1>0, <2>1, <2>2, CommitOnDescends
  <2>4. QED
    BY <1>0, <1>1, <2>3, HeadsMade
       DEF ForeignPush, GraphInv, MadeSoFar, OpMade, clone, store, repairStore, history
<1>2. CASE DeveloperCommit
  <2>1. made' = made + 1 /\ New = made + 1 /\ Ancestry'
    BY <1>0, <1>2, HeadsMade, CommitOnDescends DEF DeveloperCommit
  <2>2. QED
    BY <1>0, <1>2, <2>1, HeadsMade
       DEF DeveloperCommit, GraphInv, MadeSoFar, OpMade, github, store, repairStore, history
<1>3. CASE DeveloperSync
  BY <1>0, <1>3, GraphFrames
     DEF DeveloperSync, GraphFrame, MadeSoFar, github, store, repairStore, history
<1>4. CASE Crash
  BY <1>0, <1>4, GraphFrames, OtherMade
     DEF Crash, GraphFrame, MadeSoFar, github, clone, store, repairStore, history
<1>5. CASE MainAdvances \/ ContractEdited \/ DeveloperEdit
  BY <1>0, <1>5, GraphFrames
     DEF MainAdvances, ContractEdited, DeveloperEdit, GraphFrame, MadeSoFar,
     github, clone, store, repairStore, history
<1>6. CASE HumanMerge
  <2>1. merged'.head = remote
    BY <1>6 DEF HumanMerge, LiveTarget
  <2>2. QED
    BY <1>0, <1>6, <2>1, GraphFrames
       DEF HumanMerge, GraphFrame, MadeSoFar, clone, store, repairStore, history
<1>7. QED
  BY <1>1, <1>2, <1>3, <1>4, <1>5, <1>6 DEF Environment

\* The pipeline commits on the head it froze and pushes the head it committed.
LEMMA DeliveryGraph == Typed /\ GraphInv /\ DeliveryNext => GraphInv'
<1> SUFFICES ASSUME Typed, GraphInv, DeliveryNext PROVE GraphInv'
  OBVIOUS
<1>0. CloneOK /\ Ancestry /\ MadeSoFar /\ op \in Ops /\ NoCommit = 0
  BY HeadsMade DEF Typed, GraphInv, NoCommit
<1>1. CASE CommitCandidate
  <2>0. op.name # "refresh" /\ UNCHANGED <<github, store, repaired>>
    BY <1>1 DEF CommitCandidate, PipelineAt, Pipeline
  <2>1. CASE work = "clean"
    <3>1. op' = [op EXCEPT !.step = AfterCommit] /\ UNCHANGED <<clone, commits>>
      BY <1>1, <2>1 DEF CommitCandidate, Goto
    <3>2. OpMade(op')
      BY <2>0, <3>1, OtherMade
    <3>3. QED
      BY <1>0, <2>0, <3>1, <3>2, GraphFrames
         DEF GraphFrame, MadeSoFar, github, clone, store, repairStore
  <2>2. CASE work # "clean"
    <3>1. /\ MakeCommit(op.head, MainOf(op.head)) /\ local' = New
          /\ op' = [op EXCEPT !.head = New, !.step = AfterCommit]
      BY <1>1, <2>2 DEF CommitCandidate
    <3>2. op'.head = New /\ op'.name # "refresh"
      BY <1>0, <2>0, <3>1 DEF Ops
    <3>3. made' = made + 1 /\ New = made + 1 /\ Ancestry'
      BY <1>0, <3>1, HeadsMade, CommitOnDescends
    <3>4. QED
      BY <1>0, <2>0, <3>1, <3>2, <3>3, HeadsMade
         DEF GraphInv, MadeSoFar, OpMade, github, store, repairStore
  <2>3. QED
    BY <2>1, <2>2
<1>2. CASE RecordCandidate
  <2>1. session'.start = session.start /\ session'.cand = op.head /\ op.head <= made
    BY <1>2, HeadsMade DEF RecordCandidate, Typed, RepairStoreOK, Sessions
  <2>2. OpMade(op')
    BY <1>2, OtherMade DEF RecordCandidate, PipelineAt, Pipeline, Goto
  <2>3. QED
    BY <1>0, <1>2, <2>1, <2>2, GraphFrames
       DEF RecordCandidate, GraphFrame, MadeSoFar, github, clone, history
<1>3. CASE PushCandidate
  <2>1. op.head \in 1..made
    BY <1>0, <1>3, HeadsMade DEF PushCandidate, MayFastForward, IsAncestor
  <2>2. OpMade(op')
    BY <1>3, OtherMade DEF PushCandidate, PipelineAt, Pipeline
  <2>3. QED
    BY <1>0, <1>3, <2>1, <2>2, GraphFrames
       DEF PushCandidate, Landed, GraphFrame, MadeSoFar, clone, store, repairStore
<1>4. CASE DeliverStart
  <2>1. OpMade(op')
    BY <1>0, <1>4, OtherMade DEF DeliverStart, Begin, MadeSoFar
  <2>2. QED
    BY <1>0, <1>4, <2>1, GraphFrames
       DEF DeliverStart, GraphFrame, MadeSoFar, github, store, repairStore, history
<1>5. CASE DeliverPrepare
  BY <1>0, <1>5, GraphFrames
     DEF DeliverPrepare, GraphFrame, MadeSoFar, clone, store, repairStore, history
<1>6. ASSUME NEW step, op.name \in Pipeline, op' \in {[op EXCEPT !.step = step], Idle},
             UNCHANGED <<clone, commits, store, history, remote, merged>>
      PROVE  GraphInv'
  <2>1. OpMade(op')
    BY <1>6, OtherMade DEF Pipeline
  <2>2. QED
    BY <1>0, <1>6, <2>1, GraphFrames DEF GraphFrame, MadeSoFar, clone, store, repairStore, history
<1>7. CASE ValidateCandidate \/ AlreadySynced \/ ConfirmPush
  BY <1>6, <1>7 DEF ValidateCandidate, AlreadySynced, ConfirmPush, PipelineAt, Goto, github
<1>8. CASE EnsureOpenPr \/ VerifyPr \/ SetReviewStatus
  BY <1>6, <1>8 DEF EnsureOpenPr, VerifyPr, SetReviewStatus, PipelineAt, At, Pipeline, Goto, github
<1>9. CASE VerifyLocalCompletion \/ StopPipeline
  BY <1>6, <1>9 DEF VerifyLocalCompletion, StopPipeline, PipelineAt, github
<1>10. QED
  BY <1>1, <1>2, <1>3, <1>4, <1>5, <1>7, <1>8, <1>9 DEF DeliveryNext

\* Remediation keeps the graph: a session starts from the remote head.
LEMMA RemediationGraph == Typed /\ GraphInv /\ RemediationNext => GraphInv'
<1> SUFFICES ASSUME Typed, GraphInv, RemediationNext PROVE GraphInv'
  OBVIOUS
<1>0. MadeSoFar /\ op \in Ops /\ NoCommit = 0
  BY HeadsMade DEF GraphInv, NoCommit
<1>1. ASSUME NEW r, PrepareRepairStart(r) \/ NoChangeReceipt(r) PROVE GraphInv'
  <2>1. OpMade(op')
    BY <1>0, <1>1, OtherMade DEF PrepareRepairStart, NoChangeReceipt, Begin, MadeSoFar
  <2>2. UNCHANGED <<github, clone, commits, session, repaired>>
    BY <1>1 DEF PrepareRepairStart, NoChangeReceipt, store, repairStore, history
  <2>3. QED
    BY <1>0, <2>1, <2>2, GraphFrames DEF GraphFrame, MadeSoFar, github, clone
<1>2. ASSUME NEW r, RepairStart(r) PROVE GraphInv'
  <2>1. PICK start : RepairBegins(r, start)
    BY <1>2 DEF RepairStart
  <2>2. OpMade(op')
    BY <1>0, <2>1, OtherMade DEF RepairBegins, Begin, MadeSoFar
  <2>3. QED
    BY <1>0, <1>2, <2>2, GraphFrames
       DEF RepairStart, GraphFrame, MadeSoFar, github, store, repairStore, history
<1>3. CASE PrepareRepairWrite
  <2>1. session'.start = op.head /\ session'.cand = NoCommit /\ op' = Idle
        /\ UNCHANGED <<github, clone, commits, repaired>>
    BY <1>3 DEF PrepareRepairWrite, history
  <2>2. QED
    BY <1>0, <2>1, GraphFrames, OtherMade, HeadsMade DEF GraphFrame, MadeSoFar, github, clone
<1>4. CASE StopPrepareRepair
  BY <1>0, <1>4, GraphFrames, OtherMade
     DEF StopPrepareRepair, GraphFrame, MadeSoFar, github, clone, store, repairStore, history
<1>5. CASE RaiseBoundary
  <2>1. OpMade(op')
    BY <1>5, OtherMade DEF RaiseBoundary, At, Goto
  <2>2. QED
    BY <1>0, <1>5, <2>1, GraphFrames
       DEF RaiseBoundary, GraphFrame, MadeSoFar, github, clone, repairStore, history
<1>6. CASE ReleaseSession
  BY <1>0, <1>6, GraphFrames, OtherMade, HeadsMade
     DEF ReleaseSession, NoSession, GraphFrame, MadeSoFar, github, clone, history
<1>7. QED
  BY <1>1, <1>2, <1>3, <1>4, <1>5, <1>6 DEF RemediationNext

\* Review moves no head.
LEMMA ReviewGraph == Typed /\ GraphInv /\ ReviewNext => GraphInv'
<1> SUFFICES ASSUME Typed, GraphInv, ReviewNext PROVE GraphInv'
  OBVIOUS
<1>0. MadeSoFar /\ op \in Ops /\ op.head <= made /\ NoCommit = 0 /\ NoCommit <= made
  BY HeadsMade DEF GraphInv, NoCommit
<1>1. OpMade(op')
  <2>1. CASE PrepareReviewBegin \/ PrepareReviewClone \/ CompleteReviewStale
              \/ \E v \in Verdicts : CompleteReviewStart(v)
    BY <1>0, <2>1, OtherMade
       DEF PrepareReviewBegin, PrepareReviewClone, CompleteReviewStart, CompleteReviewStale, Begin,
       MadeSoFar
  <2>2. CASE PrepareReviewRecover \/ PrepareReviewValidate \/ PrepareReviewGuard
    <3>1. op'.name # "refresh" /\ op'.head = op.head
      BY <1>0, <2>2 DEF PrepareReviewRecover, PrepareReviewValidate, PrepareReviewGuard, At, Goto, Ops
    <3>2. QED
      BY <1>0, <3>1, OtherMade
  <2>3. CASE WriteRecord \/ WriteLatest \/ ClearRequired \/ RemoveClone \/ DropGuard
    BY <2>3, OtherMade DEF WriteRecord, WriteLatest, ClearRequired, RemoveClone, DropGuard, At, Goto
  <2>4. CASE PrepareReviewHandoff \/ StopPrepareReview \/ ReleaseMarker \/ MergePreflight
    BY <1>0, <2>4, OtherMade
       DEF PrepareReviewHandoff, StopPrepareReview, ReleaseMarker, MergePreflight, MadeSoFar
  <2>5. QED
    BY <2>1, <2>2, <2>3, <2>4 DEF ReviewNext
<1>2. UNCHANGED <<commits, remote, merged, local, session, repaired>>
  BY DEF ReviewNext, PrepareReviewBegin, PrepareReviewRecover, PrepareReviewClone,
     PrepareReviewValidate, PrepareReviewGuard, PrepareReviewHandoff,
     StopPrepareReview, CompleteReviewStart, CompleteReviewStale, WriteRecord,
     WriteLatest, ClearRequired, RemoveClone, DropGuard, ReleaseMarker,
     MergePreflight, github, clone, store, repairStore, history
<1>3. QED
  BY <1>0, <1>1, <1>2, GraphFrames DEF GraphFrame, MadeSoFar

\* Refresh makes one commit and moves the branch between it and the head it started from.
LEMMA RefreshGraph == Typed /\ GraphInv /\ RefreshNext => GraphInv'
<1> SUFFICES ASSUME Typed, GraphInv, RefreshNext PROVE GraphInv'
  OBVIOUS
<1>0. CloneOK /\ Ancestry /\ MadeSoFar /\ op \in Ops /\ OpMade(op) /\ OpMade(Idle) /\ NoCommit = 0
  BY HeadsMade, OtherMade DEF Typed, GraphInv, MadeSoFar, NoCommit
<1>1. CASE RefreshStart
  <2>1. op'.head = local /\ op'.start = local /\ op'.step = "rebase"
    BY <1>1 DEF RefreshStart, Begin
  <2>2. OpMade(op')
    BY <1>0, <2>1 DEF OpMade, MadeSoFar
  <2>3. QED
    BY <1>0, <1>1, <2>2, GraphFrames
       DEF RefreshStart, GraphFrame, MadeSoFar, github, clone, store, repairStore, history
<1>2. CASE RebaseCandidate
  <2>1. MakeCommit(NoCommit, op.base) /\ NoCommit \in Heads /\ NoCommit <= made
    BY <1>0, <1>2, HeadsMade, BoundsAssumption DEF RebaseCandidate, Heads
  <2>2. made' = made + 1 /\ New = made + 1 /\ Ancestry'
    BY <1>0, <2>1, CommitDescends
  <2>3. op'.head = New /\ op'.start = op.start /\ op.name = "refresh"
    BY <1>0, <1>2 DEF RebaseCandidate, At, Ops
  <2>4. QED
    BY <1>0, <1>2, <2>2, <2>3, HeadsMade
       DEF RebaseCandidate, GraphInv, MadeSoFar, OpMade, github, store, repairStore, history
<1>3. CASE PushExactLease \/ PushNotLanded
  <2>1. op' \in {[op EXCEPT !.step = "final"], [op EXCEPT !.step = "restoreBoundary"], Idle}
        /\ At("refresh", "push")
    BY <1>3 DEF PushExactLease, PushNotLanded
  <2>2. OpMade(op')
    BY <1>0, <2>1 DEF OpMade, At, Ops
  <2>3. op.head \in 1..made
    BY <1>0, <2>1, HeadsMade DEF OpMade, At
  <2>4. QED
    BY <1>0, <1>3, <2>2, <2>3, GraphFrames
       DEF PushExactLease, PushNotLanded, Landed, GraphFrame, MadeSoFar, github, clone, store,
       repairStore, history
<1>4. CASE Compensate
  <2>1. op' \in {[op EXCEPT !.step = "restoreBoundary"], Idle} /\ At("refresh", "compensate")
    BY <1>4 DEF Compensate
  <2>2. OpMade(op') /\ op.start <= made
    BY <1>0, <2>1 DEF OpMade, At, Ops
  <2>3. QED
    BY <1>0, <1>4, <2>2, GraphFrames
       DEF Compensate, GraphFrame, MadeSoFar, clone, store, repairStore, history
<1>5. CASE RestoreHead
  <2>1. op.start <= made
    BY <1>0, <1>5 DEF RestoreHead, At, OpMade
  <2>2. QED
    BY <1>0, <1>5, <2>1, GraphFrames
       DEF RestoreHead, GraphFrame, MadeSoFar, github, store, repairStore, history
<1>6. CASE ValidateRebased \/ VerifyPrePush \/ FenceRefresh \/ FinalNotProven
  <2>1. OpMade(op')
    BY <1>0, <1>6 DEF ValidateRebased, VerifyPrePush, FenceRefresh, FinalNotProven, At, Goto, OpMade, Ops
  <2>2. QED
    BY <1>0, <1>6, <2>1, GraphFrames
       DEF ValidateRebased, VerifyPrePush, FenceRefresh, FinalNotProven,
       GraphFrame, MadeSoFar, github, clone, store, repairStore, history
<1>7. CASE CompensationDrift \/ RestoreBoundary
  <2>1. OpMade(op')
    BY <1>0, <1>7 DEF CompensationDrift, RestoreBoundary, At, Goto, OpMade, Ops
  <2>2. QED
    BY <1>0, <1>7, <2>1, GraphFrames
       DEF CompensationDrift, RestoreBoundary, GraphFrame, MadeSoFar, github, clone, store,
       repairStore, history
<1>8. CASE VerifyFinal \/ CompensationUnproven \/ StopBeforeFence
  <2>1. OpMade(op')
    <3>1. CASE Goto("restoreHead")
      BY <1>0, <3>1 DEF Goto, OpMade, Ops
    <3>2. CASE op' = Idle
      BY <1>0, <3>2
    <3>3. QED
      BY <1>8, <3>1, <3>2 DEF VerifyFinal, CompensationUnproven, StopBeforeFence
  <2>2. QED
    BY <1>0, <1>8, <2>1, GraphFrames
       DEF VerifyFinal, CompensationUnproven, StopBeforeFence,
       GraphFrame, MadeSoFar, github, clone, store, repairStore, history
<1>9. QED
  BY <1>1, <1>2, <1>3, <1>4, <1>5, <1>6, <1>7, <1>8 DEF RefreshNext

\* Closeout only takes heads away.
LEMMA CloseoutGraph == Typed /\ GraphInv /\ CloseoutNext => GraphInv'
<1> SUFFICES ASSUME Typed, GraphInv, CloseoutNext PROVE GraphInv'
  OBVIOUS
<1>0. MadeSoFar /\ OpMade(op) /\ op \in Ops /\ NoCommit = 0 /\ NoCommit <= made
  BY HeadsMade DEF GraphInv, MadeSoFar, NoCommit
<1>1. OpMade(op')
  <2>1. CASE CloseoutStart
    BY <1>0, <2>1, OtherMade DEF CloseoutStart, Begin, MadeSoFar
  <2>2. CASE op' = Idle
    BY <2>2, OtherMade
  <2>3. CASE \E step : op' = [op EXCEPT !.step = step] /\ op.name = "closeout"
    BY <2>3, OtherMade
  <2>4. QED
    BY <2>1, <2>2, <2>3 DEF CloseoutNext, SynchronizeMain, ConvergeMetadata, DeleteLocalBranch,
       VerifyRemoteTip, DeleteRemoteBranch, StopCloseout, At, Goto
<1>2. remote' \in {remote, NoCommit} /\ local' \in {local, NoCommit}
      /\ UNCHANGED <<commits, merged, session, repaired>>
  BY DEF CloseoutNext, CloseoutStart, SynchronizeMain, ConvergeMetadata, DeleteLocalBranch,
     VerifyRemoteTip, DeleteRemoteBranch, StopCloseout, github, clone, store, repairStore, history
<1>3. QED
  BY <1>0, <1>1, <1>2, GraphFrames DEF GraphFrame, MadeSoFar

\* The branch of a Task that is ready for delivery holds no commit.
LEMMA GraphInit == Init => GraphInv
BY BoundsAssumption DEF Init, GraphInv, Ancestry, MadeSoFar, OpMade, Idle, NoSession, NoTarget, NoCommit, Commits

\* Every step of the Task keeps the graph of commits.
LEMMA GraphNext == Typed /\ GraphInv /\ [Next]_vars => GraphInv'
<1>1. Typed /\ GraphInv /\ UNCHANGED vars => GraphInv'
  BY GraphFrames DEF vars, github, clone, store, repairStore, history, GraphFrame, GraphInv, MadeSoFar
<1>2. QED
  BY <1>1, EnvironmentGraph, DeliveryGraph, RemediationGraph, ReviewGraph, RefreshGraph, CloseoutGraph
     DEF Next, LckNext

-----------------------------------------------------------------------------
\* The steps of the pipeline behind its push.
PushedSteps == {"pr", "prVerify", "status", "final", "boundary", "release"}
\* What the running operation o relies on: Remediation and Refresh on a PR, Closeout on
\* its merge, the pipeline on a head of its own, and on the branch once it is pushed.
Relies(o) ==
    /\ pr = "none" => o.name \notin {"repair", "prepareRepair", "noChange", "refresh"}
    /\ o.name = "closeout" => pr = "merged"
    /\ o.name \in Pipeline /\ remote = NoCommit => pr = "none" /\ o.step \notin PushedSteps
    /\ o.name \in Pipeline =>
         IF o.step \in {"validate", "commit"}
         THEN o.head = NoCommit /\ local = NoCommit => work # "clean"
         ELSE o.head # NoCommit
    /\ o.name \in {"repair", "prepareRepair"} => o.head # NoCommit
    /\ o.name = "refresh" => o.start # NoCommit
\* Before there is a PR nothing was repaired and no session prepared; an open PR has a branch.
PrInv ==
    /\ pr = "none" => repaired = {} /\ session = NoSession
    /\ remote = NoCommit => pr # "open"
    /\ session # NoSession => session.start # NoCommit
    /\ Relies(op)

\* No operation relies on nothing.
LEMMA IdleRelies == Relies(Idle) /\ Relies(Idle)'
BY DEF Relies, Idle, Pipeline

\* Steps outside LCK keep what operations rely on: nobody takes the branch of an open PR away.
LEMMA EnvironmentPr == Typed /\ GraphInv /\ PrInv /\ Environment => PrInv'
<1> SUFFICES ASSUME Typed, GraphInv, PrInv, Environment PROVE PrInv'
  OBVIOUS
<1>0. made \in Nat /\ NoCommit = 0 /\ New # NoCommit
  BY HeadsMade DEF NoCommit, New
<1>1. CASE ForeignPush
  BY <1>0, <1>1 DEF ForeignPush, PrInv, Relies, clone, store, repairStore, history
<1>2. CASE DeveloperCommit \/ DeveloperSync
  BY <1>0, <1>2 DEF DeveloperCommit, DeveloperSync, PrInv, Relies, github, store, repairStore, history
<1>3. CASE Crash
  BY <1>3, IdleRelies DEF Crash, PrInv, github, store, repairStore, history
<1>4. CASE HumanMerge
  BY <1>4 DEF HumanMerge, PrInv, Relies, clone, store, repairStore, history
<1>5. CASE MainAdvances \/ ContractEdited \/ DeveloperEdit
  BY <1>5 DEF MainAdvances, ContractEdited, DeveloperEdit, PrInv, Relies, github, clone, store,
     repairStore, history
<1>6. QED
  BY <1>1, <1>2, <1>3, <1>4, <1>5 DEF Environment

\* The pipeline opens the PR only when its head is on the branch.
LEMMA DeliveryPr == Typed /\ GraphInv /\ PrInv /\ DeliveryNext => PrInv'
<1> SUFFICES ASSUME Typed, GraphInv, PrInv, DeliveryNext PROVE PrInv'
  OBVIOUS
<1>0. op \in Ops /\ Relies(op) /\ made \in Nat /\ NoCommit = 0 /\ New # NoCommit
  BY HeadsMade DEF PrInv, NoCommit, New
<1>1. CASE CommitCandidate
  <2>0. /\ op.name \in Pipeline /\ op.step = "commit" /\ local = op.head
        /\ UNCHANGED <<github, store, repaired>>
    BY <1>1 DEF CommitCandidate, PipelineAt, CandidateUnchanged
  <2>1. op'.name = op.name /\ op'.step = AfterCommit /\ op'.head # NoCommit /\ op'.head \in {op.head, New}
    <3>1. CASE work = "clean"
      BY <1>0, <1>1, <2>0, <3>1 DEF CommitCandidate, Goto, Relies, Ops
    <3>2. CASE work # "clean"
      <4>1. op' = [op EXCEPT !.head = New, !.step = AfterCommit]
        BY <1>1, <3>2 DEF CommitCandidate
      <4>2. QED
        BY <1>0, <4>1 DEF Ops
    <3>3. QED
      BY <3>1, <3>2
  <2>2. Relies(op)'
    BY <1>0, <2>0, <2>1 DEF Relies, AfterCommit, PushedSteps, Pipeline, github
  <2>3. QED
    BY <2>0, <2>2 DEF PrInv, github, store, repairStore
<1>2. CASE RecordCandidate
  <2>1. session'.start = session.start /\ session # NoSession
    BY <1>2 DEF RecordCandidate, Typed, RepairStoreOK, Sessions
  <2>2. op'.name = op.name /\ op'.step = "push" /\ op'.head = op.head
        /\ op.name \in Pipeline /\ op.step = "record"
    BY <1>0, <1>2 DEF RecordCandidate, PipelineAt, Goto, Ops
  <2>3. Relies(op)'
    BY <1>0, <1>2, <2>2 DEF RecordCandidate, Relies, PushedSteps, Pipeline, github
  <2>4. QED
    BY <1>2, <2>1, <2>3 DEF RecordCandidate, PrInv, github, history
<1>3. CASE PushCandidate
  <2>1. op.name \in Pipeline /\ op.step = "push" /\ op.head # NoCommit
    BY <1>0, <1>3 DEF PushCandidate, PipelineAt, Relies
  <2>2. op' = Idle \/ (op'.name = op.name /\ op'.step = "confirm" /\ op'.head = op.head)
    BY <1>0, <1>3 DEF PushCandidate, Ops
  <2>3. Relies(op)'
    BY <1>0, <1>3, <2>1, <2>2, IdleRelies DEF PushCandidate, Relies, PushedSteps, Pipeline
  <2>4. pr = "none" => repaired' = repaired
    BY <1>3, <1>0, <2>1 DEF PushCandidate, Landed, Relies, Pipeline
  <2>5. QED
    BY <1>3, <2>1, <2>3, <2>4 DEF PushCandidate, PrInv, store, repairStore
<1>4. CASE AlreadySynced \/ ConfirmPush
  <2>1. op.name \in Pipeline /\ op.step \in {"push", "confirm"} /\ remote = op.head
    BY <1>4 DEF AlreadySynced, ConfirmPush, PipelineAt
  <2>2. op'.name = op.name /\ op'.step = "pr" /\ op'.head = op.head
    BY <1>0, <1>4 DEF AlreadySynced, ConfirmPush, Goto, Ops
  <2>3. QED
    BY <1>0, <1>4, <2>1, <2>2 DEF AlreadySynced, ConfirmPush, PrInv, Relies, PushedSteps, Pipeline,
       github, clone, store, repairStore, history
<1>5. CASE EnsureOpenPr
  <2>1. op'.name = "deliver" /\ op'.step = "prVerify" /\ op'.head = op.head /\ op.name = "deliver"
        /\ op.step = "pr"
    BY <1>0, <1>5 DEF EnsureOpenPr, At, Goto, Ops
  <2>2. remote # NoCommit
    BY <1>0, <2>1 DEF Relies, PushedSteps, Pipeline
  <2>3. QED
    BY <1>0, <1>5, <2>1, <2>2 DEF EnsureOpenPr, PrInv, Relies, Pipeline, clone, store, repairStore, history
<1>6. CASE VerifyPr \/ SetReviewStatus
  <2>1. /\ op.name \in Pipeline /\ op.step \in {"pr", "prVerify", "status"}
        /\ op'.name = op.name /\ op'.step \in PushedSteps /\ op'.head = op.head
    BY <1>0, <1>6 DEF VerifyPr, SetReviewStatus, At, PipelineAt, Pipeline, PushedSteps, Goto, Ops
  <2>2. UNCHANGED <<remote, pr, local, work, session, repaired>>
    BY <1>6 DEF VerifyPr, SetReviewStatus, github, clone, store, repairStore, history
  <2>3. Relies(op)'
    BY <1>0, <2>1, <2>2 DEF Relies, PushedSteps, Pipeline
  <2>4. QED
    BY <2>2, <2>3 DEF PrInv
<1>7. CASE VerifyLocalCompletion \/ StopPipeline
  <2>1. UNCHANGED <<remote, pr, local, work, session, repaired>>
    BY <1>7 DEF VerifyLocalCompletion, StopPipeline, github, clone, store, repairStore, history
  <2>2. CASE op' = Idle
    BY <2>1, <2>2, IdleRelies DEF PrInv
  <2>3. CASE op' = [op EXCEPT !.step = "boundary"] /\ PipelineAt("final")
    <3>1. op'.name = op.name /\ op'.step = "boundary" /\ op'.head = op.head
      BY <1>0, <2>3 DEF Ops
    <3>2. Relies(op)'
      BY <1>0, <2>1, <2>3, <3>1 DEF Relies, PipelineAt, Pipeline, PushedSteps
    <3>3. QED
      BY <2>1, <3>2 DEF PrInv
  <2>4. QED
    BY <1>7, <2>2, <2>3 DEF VerifyLocalCompletion, StopPipeline
<1>8. CASE DeliverStart
  <2>1. op'.name = "deliver" /\ op'.step = "validate" /\ op'.head = local
    BY <1>8 DEF DeliverStart, Begin
  <2>2. UNCHANGED <<remote, pr, local, session, repaired>> /\ pr # "merged"
    BY <1>8 DEF DeliverStart, github, store, repairStore, history
  <2>3. local = NoCommit => work' # "clean"
    BY <1>8 DEF DeliverStart, StageCandidate
  <2>4. pr \in {"none", "open", "merged"}
    BY DEF Typed, GitHubOK
  <2>5. Relies(op)'
    BY <2>1, <2>2, <2>3, <2>4 DEF Relies, PushedSteps, Pipeline, PrInv
  <2>6. QED
    BY <2>2, <2>5 DEF PrInv
<1>9. CASE DeliverPrepare
  BY <1>9 DEF DeliverPrepare, PrInv, Relies, clone, store, repairStore, history
<1>10. CASE ValidateCandidate
  <2>1. op.name \in Pipeline /\ op.step = "validate" /\ op'.name = op.name /\ op'.step = "commit"
        /\ op'.head = op.head
    BY <1>0, <1>10 DEF ValidateCandidate, PipelineAt, Goto, Ops
  <2>2. QED
    BY <1>0, <1>10, <2>1 DEF ValidateCandidate, PrInv, Relies, PushedSteps, Pipeline, github, clone, store,
       repairStore, history
<1>11. QED
  BY <1>1, <1>2, <1>3, <1>4, <1>5, <1>6, <1>7, <1>8, <1>9, <1>10 DEF DeliveryNext

\* Remediation begins on an open PR, from a head that is on its branch.
LEMMA RemediationPr == Typed /\ PrInv /\ RemediationNext => PrInv'
<1> SUFFICES ASSUME Typed, PrInv, RemediationNext PROVE PrInv'
  OBVIOUS
<1>0. op \in Ops /\ Relies(op)
  BY DEF PrInv, Typed, Knows
<1>1. ASSUME NEW r, PrepareRepairStart(r) PROVE PrInv'
  BY <1>1 DEF PrepareRepairStart, RemediationEligible, Begin, PrInv, Relies, Pipeline, github, clone,
     store, repairStore, history
<1>2. ASSUME NEW r, NoChangeReceipt(r) PROVE PrInv'
  BY <1>2 DEF NoChangeReceipt, RemediationEligible, Begin, PrInv, Relies, Pipeline, github, clone, history
<1>3. ASSUME NEW r, RepairStart(r) PROVE PrInv'
  <2>1. PICK start : RepairBegins(r, start)
    BY <1>3 DEF RepairStart
  <2>2. op'.name = "repair" /\ op'.step = "validate" /\ op'.head = local /\ pr = "open" /\ local # NoCommit
    BY <2>1 DEF RepairBegins, RemediationEligible, OwnedCandidate, Begin, PrInv
  <2>3. QED
    BY <1>3, <2>2 DEF RepairStart, PrInv, Relies, PushedSteps, Pipeline, github, store, repairStore, history
<1>4. CASE PrepareRepairWrite
  <2>1. session'.start = op.head /\ op.head # NoCommit /\ pr # "none"
    BY <1>0, <1>4 DEF PrepareRepairWrite, At, Relies
  <2>2. QED
    BY <1>4, <2>1, IdleRelies DEF PrepareRepairWrite, PrInv, github, clone, history
<1>5. CASE StopPrepareRepair
  BY <1>5, IdleRelies DEF StopPrepareRepair, PrInv, github, clone, store, repairStore, history
<1>6. CASE RaiseBoundary
  <2>1. op.name = "repair" /\ op.step = "boundary" /\ op'.name = op.name /\ op'.step = "release"
        /\ op'.head = op.head
    BY <1>0, <1>6 DEF RaiseBoundary, At, Goto, Ops
  <2>2. QED
    BY <1>0, <1>6, <2>1 DEF RaiseBoundary, PrInv, Relies, PushedSteps, Pipeline, github, clone,
       repairStore, history
<1>7. CASE ReleaseSession
  BY <1>7, IdleRelies DEF ReleaseSession, PrInv, github, clone, history
<1>8. QED
  BY <1>1, <1>2, <1>3, <1>4, <1>5, <1>6, <1>7 DEF RemediationNext

\* Review starts and ends only its own operations, or none.
LEMMA ReviewName ==
    Typed /\ ReviewNext => op'.name \in {"prepareReview", "completeReview", "idle"}
<1> SUFFICES ASSUME Typed, ReviewNext
             PROVE  op'.name \in {"prepareReview", "completeReview", "idle"}
  OBVIOUS
<1>0. op \in Ops
  BY DEF Typed, Knows
<1>1. CASE PrepareReviewBegin \/ PrepareReviewClone \/ CompleteReviewStale
            \/ \E v \in Verdicts : CompleteReviewStart(v)
  BY <1>1 DEF PrepareReviewBegin, PrepareReviewClone, CompleteReviewStart, CompleteReviewStale, Begin
<1>2. CASE PrepareReviewRecover \/ PrepareReviewValidate \/ PrepareReviewGuard
  BY <1>0, <1>2 DEF PrepareReviewRecover, PrepareReviewValidate, PrepareReviewGuard, At, Goto, Ops
<1>3. CASE WriteRecord \/ WriteLatest \/ ClearRequired \/ RemoveClone \/ DropGuard
  BY <1>0, <1>3 DEF WriteRecord, WriteLatest, ClearRequired, RemoveClone, DropGuard, At, Goto, Ops
<1>4. CASE PrepareReviewHandoff \/ StopPrepareReview \/ ReleaseMarker \/ MergePreflight
  BY <1>4 DEF PrepareReviewHandoff, StopPrepareReview, ReleaseMarker, MergePreflight, Idle
<1>5. QED
  BY <1>1, <1>2, <1>3, <1>4 DEF ReviewNext

\* Review relies on none of this.
LEMMA ReviewPr == Typed /\ PrInv /\ ReviewNext => PrInv'
<1> SUFFICES ASSUME Typed, PrInv, ReviewNext PROVE PrInv'
  OBVIOUS
<1>1. op'.name \in {"prepareReview", "completeReview", "idle"}
  BY ReviewName
<1>2. UNCHANGED <<remote, pr, local, work, session, repaired>>
  BY DEF ReviewNext, PrepareReviewBegin, PrepareReviewRecover, PrepareReviewClone,
     PrepareReviewValidate, PrepareReviewGuard, PrepareReviewHandoff,
     StopPrepareReview, CompleteReviewStart, CompleteReviewStale, WriteRecord,
     WriteLatest, ClearRequired, RemoveClone, DropGuard, ReleaseMarker,
     MergePreflight, github, clone, store, repairStore, history
<1>3. QED
  BY <1>1, <1>2 DEF PrInv, Relies, Pipeline

\* Refresh exchanges one head of an open PR for another.
LEMMA RefreshPr == Typed /\ GraphInv /\ PrInv /\ RefreshNext => PrInv'
<1> SUFFICES ASSUME Typed, GraphInv, PrInv, RefreshNext PROVE PrInv'
  OBVIOUS
<1>0. op \in Ops /\ Relies(op) /\ OpMade(op) /\ NoCommit = 0
  BY DEF PrInv, Typed, Knows, GraphInv, MadeSoFar, NoCommit
<1>1. CASE RefreshStart
  BY <1>1 DEF RefreshStart, Begin, PrInv, Relies, Pipeline, github, clone, store, repairStore, history
<1>2. op.name = "refresh" => pr # "none" /\ op.start # NoCommit
  BY <1>0 DEF Relies
<1>3. ASSUME op.name = "refresh", op' = Idle \/ (op'.name = op.name /\ op'.start = op.start),
             UNCHANGED <<pr, session>>, pr # "none", remote' = NoCommit => remote = NoCommit
      PROVE  PrInv'
  BY <1>2, <1>3, IdleRelies DEF PrInv, Relies, Pipeline
<1>4. CASE PushExactLease
  <2>1. op.name = "refresh" /\ op.head # NoCommit
    BY <1>0, <1>4, HeadsMade DEF PushExactLease, At, OpMade
  <2>2. op' = Idle \/ (op'.name = op.name /\ op'.start = op.start)
    BY <1>0, <1>4 DEF PushExactLease, Ops
  <2>3. QED
    BY <1>2, <1>3, <1>4, <2>1, <2>2 DEF PushExactLease, store, repairStore
<1>5. CASE Compensate
  <2>1. op.name = "refresh"
    BY <1>5 DEF Compensate, At
  <2>2. op' = Idle \/ (op'.name = op.name /\ op'.start = op.start)
    BY <1>0, <1>5 DEF Compensate, Ops
  <2>3. QED
    BY <1>2, <1>3, <1>5, <2>1, <2>2 DEF Compensate, store, repairStore
<1>6. CASE RebaseCandidate \/ ValidateRebased \/ VerifyPrePush \/ FenceRefresh \/ PushNotLanded
  <2>1. op.name = "refresh" /\ (op' = Idle \/ (op'.name = op.name /\ op'.start = op.start))
    BY <1>0, <1>6 DEF RebaseCandidate, ValidateRebased, VerifyPrePush, FenceRefresh, PushNotLanded, At,
       Goto, Ops
  <2>2. QED
    BY <1>2, <1>3, <1>6, <2>1 DEF RebaseCandidate, ValidateRebased, VerifyPrePush, FenceRefresh,
       PushNotLanded, github, store, repairStore
<1>7. CASE VerifyFinal \/ FinalNotProven \/ CompensationUnproven \/ CompensationDrift
  <2>1. op.name = "refresh" /\ (op' = Idle \/ (op'.name = op.name /\ op'.start = op.start))
    BY <1>0, <1>7 DEF VerifyFinal, FinalNotProven, CompensationUnproven, CompensationDrift, At, Goto, Ops
  <2>2. QED
    BY <1>2, <1>3, <1>7, <2>1 DEF VerifyFinal, FinalNotProven, CompensationUnproven,
       CompensationDrift, github, store, repairStore
<1>8. CASE StopBeforeFence \/ RestoreBoundary \/ RestoreHead
  <2>1. op.name = "refresh" /\ (op' = Idle \/ (op'.name = op.name /\ op'.start = op.start))
    BY <1>0, <1>8 DEF StopBeforeFence, RestoreBoundary, RestoreHead, At, Goto, Ops
  <2>2. QED
    BY <1>2, <1>3, <1>8, <2>1 DEF StopBeforeFence, RestoreBoundary, RestoreHead, github, store, repairStore
<1>9. QED
  BY <1>1, <1>4, <1>5, <1>6, <1>7, <1>8 DEF RefreshNext

\* Closeout takes the branch away only after the merge.
LEMMA CloseoutPr == Typed /\ PrInv /\ CloseoutNext => PrInv'
<1> SUFFICES ASSUME Typed, PrInv, CloseoutNext PROVE PrInv'
  OBVIOUS
<1>1. pr = "merged" /\ (op'.name = "closeout" \/ op' = Idle)
  BY DEF Typed, Knows, PrInv, Relies, CloseoutNext, CloseoutStart, SynchronizeMain, ConvergeMetadata,
     DeleteLocalBranch, VerifyRemoteTip, DeleteRemoteBranch, StopCloseout, At, Goto, Begin, Ops
<1>2. UNCHANGED <<pr, session>>
  BY DEF CloseoutNext, CloseoutStart, SynchronizeMain, ConvergeMetadata, DeleteLocalBranch,
     VerifyRemoteTip, DeleteRemoteBranch, StopCloseout, github, store, repairStore
<1>3. QED
  BY <1>1, <1>2, IdleRelies DEF PrInv, Relies, Pipeline

\* A Task that is ready for delivery has no PR.
LEMMA PrInit == Init => PrInv
BY IdleRelies DEF Init, PrInv

\* Every step of the Task keeps what is said of its PR.
LEMMA PrNext == Typed /\ GraphInv /\ PrInv /\ [Next]_vars => PrInv'
<1>1. PrInv /\ UNCHANGED vars => PrInv'
  BY DEF vars, github, clone, store, repairStore, history, PrInv, Relies
<1>2. QED
  BY <1>1, EnvironmentPr, DeliveryPr, RemediationPr, ReviewPr, RefreshPr, CloseoutPr DEF Next, LckNext

-----------------------------------------------------------------------------
\* A record, once written, is about the target of the Review's guard for good: a Review's
\* id is new when its guard is written, and only its own guard goes into its record.
RecordsKeepTarget ==
    /\ \A r \in Reviews : guard[r] # NoTarget => r <= opened
    /\ \A r \in Reviews : record[r] # NoVerdict =>
         r <= opened /\ (guard[r] # NoTarget => record[r].target = guard[r])
    /\ op.name = "prepareReview" /\ op.step \in {"validate", "guard"} =>
         op.rid <= opened /\ record[op.rid] = NoVerdict

\* Remediation starts and ends only its own operations.
LEMMA RemediationName ==
    Typed /\ RemediationNext => op'.name \in {"idle", "prepareRepair", "noChange", "repair"}
<1> SUFFICES ASSUME Typed, RemediationNext
             PROVE  op'.name \in {"idle", "prepareRepair", "noChange", "repair"}
  OBVIOUS
<1>0. op \in Ops
  BY DEF Typed, Knows
<1>1. ASSUME NEW r, PrepareRepairStart(r) \/ NoChangeReceipt(r)
      PROVE  op'.name \in {"prepareRepair", "noChange"}
  BY <1>1 DEF PrepareRepairStart, NoChangeReceipt, Begin
<1>2. ASSUME NEW r, RepairStart(r) PROVE op'.name = "repair"
  BY <1>2 DEF RepairStart, RepairBegins, Begin
<1>3. CASE PrepareRepairWrite \/ StopPrepareRepair \/ ReleaseSession
  BY <1>3, IdleName DEF PrepareRepairWrite, StopPrepareRepair, ReleaseSession
<1>4. CASE RaiseBoundary
  BY <1>0, <1>4 DEF RaiseBoundary, At, Goto, Ops
<1>5. QED
  BY <1>1, <1>2, <1>3, <1>4 DEF RemediationNext

\* No step outside Review writes a guard, a record or a Review id.
LEMMA OnlyReviewRecords ==
    ASSUME Typed, Environment \/ DeliveryNext \/ RemediationNext \/ RefreshNext \/ CloseoutNext
    PROVE  /\ UNCHANGED <<guard, record, opened>>
           /\ op' = op \/ op'.name # "prepareReview"
<1>1. CASE Environment
  BY <1>1, IdleName DEF Environment, MainAdvances, ContractEdited, ForeignPush, HumanMerge,
     DeveloperEdit, DeveloperCommit, DeveloperSync, Crash, store, reviewStore, spent
<1>2. CASE DeliveryNext
  <2>1. UNCHANGED <<reviewStore, opened>>
    BY <1>2 DEF DeliveryNext, DeliverPrepare, DeliverStart, ValidateCandidate, CommitCandidate,
       RecordCandidate, AlreadySynced, PushCandidate, ConfirmPush, EnsureOpenPr,
       VerifyPr, SetReviewStatus, VerifyLocalCompletion, StopPipeline, store, spent
  <2>2. QED
    BY <1>2, <2>1, DeliveryName DEF reviewStore, Pipeline
<1>3. CASE RemediationNext
  <2>1. UNCHANGED <<reviewStore, opened>>
    BY <1>3 DEF RemediationNext, PrepareRepairStart, NoChangeReceipt, RepairStart,
       PrepareRepairWrite, StopPrepareRepair, RaiseBoundary, ReleaseSession, store, spent
  <2>2. QED
    BY <1>3, <2>1, RemediationName DEF reviewStore
<1>4. CASE RefreshNext
  <2>1. UNCHANGED <<reviewStore, opened>>
    BY <1>4 DEF RefreshNext, RefreshStart, RebaseCandidate, ValidateRebased, VerifyPrePush,
       FenceRefresh, PushExactLease, PushNotLanded, VerifyFinal, FinalNotProven,
       Compensate, CompensationUnproven, CompensationDrift, StopBeforeFence,
       RestoreBoundary, RestoreHead, store, spent
  <2>2. QED
    BY <1>4, <2>1, RefreshName DEF reviewStore
<1>5. CASE CloseoutNext
  <2>1. UNCHANGED <<reviewStore, opened>>
    BY <1>5 DEF CloseoutNext, CloseoutStart, SynchronizeMain, ConvergeMetadata,
       DeleteLocalBranch, VerifyRemoteTip, DeleteRemoteBranch, StopCloseout, store, spent
  <2>2. QED
    BY <1>5, <2>1, CloseoutName DEF reviewStore
<1>6. QED
  BY <1>1, <1>2, <1>3, <1>4, <1>5

\* Review writes a record from the guard of a Review that had none.
LEMMA ReviewRecords == Typed /\ RecordsKeepTarget /\ ReviewNext => RecordsKeepTarget'
<1> SUFFICES ASSUME Typed, RecordsKeepTarget, ReviewNext PROVE RecordsKeepTarget'
  OBVIOUS
<1>0. /\ op \in Ops /\ Knows(op, guard) /\ opened \in 0..MaxReview
      /\ guard \in [Reviews -> Targets \cup {NoTarget}] /\ record \in [Reviews -> Records]
  BY DEF Typed, Knows, ReviewStoreOK, HistoryOK
<1>1. CASE PrepareReviewRecover
  <2>1. op'.step = "snapshot"
    BY <1>0, <1>1 DEF PrepareReviewRecover, Ops
  <2>2. guard' = [r \in Reviews |-> guard'[r]] /\ \A r \in Reviews : guard'[r] \in {guard[r], NoTarget}
    BY <1>1 DEF PrepareReviewRecover
  <2>3. UNCHANGED <<record, opened>>
    BY <1>1 DEF PrepareReviewRecover, spent
  <2>4. QED
    BY <2>1, <2>2, <2>3 DEF RecordsKeepTarget
<1>2. CASE PrepareReviewClone
  <2>1. op'.rid = opened + 1 /\ op'.step = "validate" /\ opened' = opened + 1 /\ opened + 1 \in Reviews
        /\ UNCHANGED <<guard, record>>
    BY <1>0, <1>2, BoundsAssumption DEF PrepareReviewClone, Begin, Reviews
  <2>2. record[opened + 1] = NoVerdict
    BY <1>0, <2>1 DEF RecordsKeepTarget
  <2>3. \A r \in Reviews : r <= opened => r <= opened + 1
    BY <1>0 DEF Reviews
  <2>4. QED
    BY <1>0, <2>1, <2>2, <2>3 DEF RecordsKeepTarget
<1>3. CASE PrepareReviewValidate
  <2>1. op.step = "validate" /\ op.name = "prepareReview" /\ op'.rid = op.rid
        /\ UNCHANGED <<guard, record, opened>>
    BY <1>0, <1>3 DEF PrepareReviewValidate, At, Goto, Ops, store, reviewStore, spent
  <2>2. QED
    BY <2>1 DEF RecordsKeepTarget
<1>4. CASE PrepareReviewGuard
  <2>1. op.step = "guard" /\ op.name = "prepareReview" /\ op'.step = "handoff"
        /\ UNCHANGED <<record, opened>>
    BY <1>0, <1>4 DEF PrepareReviewGuard, At, Goto, Ops, spent
  <2>2. \A r \in Reviews : r # op.rid => guard'[r] = guard[r]
    BY <1>0, <1>4 DEF PrepareReviewGuard
  <2>3. op.rid <= opened /\ record[op.rid] = NoVerdict
    BY <2>1 DEF RecordsKeepTarget
  <2>4. QED
    BY <2>1, <2>2, <2>3 DEF RecordsKeepTarget
<1>5. CASE WriteRecord
  <2>1. /\ op.name = "completeReview" /\ op.step = "record" /\ op.rid \in Reviews
        /\ guard[op.rid] # NoTarget /\ op'.name = "completeReview"
        /\ UNCHANGED <<guard, opened>>
    BY <1>0, <1>5 DEF WriteRecord, At, Goto, Knows, Ops, spent
  <2>2. /\ record'[op.rid].target = guard[op.rid]
        /\ \A r \in Reviews : r # op.rid => record'[r] = record[r]
    BY <1>0, <1>5, <2>1 DEF WriteRecord
  <2>3. QED
    BY <2>1, <2>2 DEF RecordsKeepTarget
<1>6. CASE DropGuard
  <2>1. op'.name = "completeReview" /\ UNCHANGED <<record, opened>>
    BY <1>0, <1>6 DEF DropGuard, At, Goto, Ops, spent
  <2>2. \A r \in Reviews : guard'[r] \in {guard[r], NoTarget}
    BY <1>0, <1>6 DEF DropGuard
  <2>3. QED
    BY <2>1, <2>2 DEF RecordsKeepTarget
<1>7. CASE PrepareReviewBegin
  <2>1. op'.step \in {"snapshot", "recoverClone", "recoverHandoff"}
    BY <1>7 DEF PrepareReviewBegin, Begin, Typed, ReviewStoreOK, Markers, NoMarker
  <2>2. QED
    BY <1>7, <2>1 DEF PrepareReviewBegin, RecordsKeepTarget, spent
<1>8. CASE PrepareReviewHandoff \/ StopPrepareReview \/ ReleaseMarker \/ MergePreflight
  <2>1. (op' = op \/ op'.name # "prepareReview") /\ UNCHANGED <<guard, record, opened>>
    BY <1>8, IdleName DEF PrepareReviewHandoff, StopPrepareReview, ReleaseMarker, MergePreflight,
       store, reviewStore, spent
  <2>2. QED
    BY <2>1 DEF RecordsKeepTarget
<1>9. CASE CompleteReviewStale \/ \E v \in Verdicts : CompleteReviewStart(v)
  BY <1>9 DEF CompleteReviewStale, CompleteReviewStart, Begin, RecordsKeepTarget, store, reviewStore, spent
<1>10. CASE WriteLatest \/ ClearRequired \/ RemoveClone
  <2>1. op'.name = "completeReview" /\ UNCHANGED <<guard, record, opened>>
    BY <1>0, <1>10 DEF WriteLatest, ClearRequired, RemoveClone, At, Goto, Ops, store, reviewStore, spent
  <2>2. QED
    BY <2>1 DEF RecordsKeepTarget
<1>11. QED
  BY <1>1, <1>2, <1>3, <1>4, <1>5, <1>6, <1>7, <1>8, <1>9, <1>10 DEF ReviewNext

\* Nothing is recorded of a Task that is ready for delivery.
LEMMA RecordsInit == Init => RecordsKeepTarget
BY IdleName DEF Init, RecordsKeepTarget

\* Every step of the Task keeps its records about their targets.
LEMMA RecordsNext == Typed /\ RecordsKeepTarget /\ [Next]_vars => RecordsKeepTarget'
<1> SUFFICES ASSUME Typed, RecordsKeepTarget, [Next]_vars PROVE RecordsKeepTarget'
  OBVIOUS
<1>1. CASE ReviewNext
  BY <1>1, ReviewRecords
<1>2. CASE UNCHANGED <<guard, record, opened>> /\ (op' = op \/ op'.name # "prepareReview")
  BY <1>2 DEF RecordsKeepTarget
<1>3. QED
  BY <1>1, <1>2, OnlyReviewRecords DEF Next, LckNext, vars, store, reviewStore, spent

-----------------------------------------------------------------------------
\* The branch has not gone back behind c.
NoReturn(c) == c # NoCommit /\ remote \in anc[c] => remote = c
\* The branch is at h, or where another writer put it.
AtOrForeign(h) == remote = h \/ remote \notin repaired
\* What is on the branch, repaired and not reviewed, is fenced or owned by the session;
\* no session starts from such a head; and no head, once repaired, can be pushed again.
HeadsInv ==
    /\ Unreviewed(remote) => required # NoCommit \/ session.cand = remote
    /\ session # NoSession => ~Unreviewed(session.start)
    /\ NoReturn(session.start)
    /\ \A c \in repaired : NoReturn(c)

\* What the running operation o owes the boundary.
RepairOwes(o) ==
    /\ session # NoSession => o.start = session.start
    /\ o.step = "push" /\ session # NoSession => session.cand = o.head
    /\ o.step = "release" => required # NoCommit
PrepareRepairOwes(o) ==
    /\ required = NoCommit /\ AtOrForeign(o.head) /\ NoReturn(o.head)
    /\ Unreviewed(o.head) => session.cand = o.head
CompleteReviewOwes(o) ==
    o.step \in {"record", "latest", "clear"} =>
      /\ AtOrForeign(o.head)
      /\ o.step = "record" => guard[o.rid].head = o.head
      /\ o.step \in {"latest", "clear"} => record[o.rid].target.head = o.head
Rebased == {"validate", "verify", "fence", "push"}
Landing == {"final", "compensate"}
RefreshOwes(o) ==
    /\ session = NoSession
    /\ \A c \in repaired : o.start \in anc[c] => o.start = c
    /\ Unreviewed(o.start) => o.prior # NoCommit
    /\ o.step \in Rebased => \A c \in repaired : c < o.head
    /\ o.step \in Rebased \cup Landing => anc[o.head] = {o.head}
    /\ o.step \in {"rebase", "validate", "verify", "fence", "restoreHead"} => required = o.prior
    /\ o.step \in Landing \cup {"push", "restoreBoundary"} => required # NoCommit
    /\ AtOrForeign(IF o.step \in Landing THEN o.head ELSE o.start)
Owes(o) ==
    /\ o.name = "repair" => RepairOwes(o)
    /\ o.name = "prepareRepair" => PrepareRepairOwes(o)
    /\ o.name = "noChange" => ~Unreviewed(remote)
    /\ o.name = "completeReview" => CompleteReviewOwes(o)
    /\ o.name = "refresh" => RefreshOwes(o)
\* The invariants that a step may use, and what it has to keep.
Given == Typed /\ GraphInv /\ PrInv /\ RecordsKeepTarget /\ HeadsInv /\ Owes(op)
Kept  == HeadsInv' /\ Owes(op)'

-----------------------------------------------------------------------------
\* A judged head stays judged.
LEMMA JudgedStays ==
    ASSUME Typed, RecordsKeepTarget, [Next]_vars, NEW c, c # NoCommit, Judged(c)
    PROVE  Judged(c)'
<1>1. PICK r \in Reviews : record[r].target.head = c
  BY DEF Judged
<1>2. CASE UNCHANGED record
  BY <1>1, <1>2 DEF Judged
<1>3. CASE WriteRecord
  <2>1. /\ record \in [Reviews -> Records] /\ op.rid \in Reviews /\ guard[op.rid] # NoTarget
        /\ record' = [record EXCEPT ![op.rid] = [verdict |-> op.verdict, target |-> guard[op.rid]]]
    BY <1>3 DEF Typed, ReviewStoreOK, Knows, WriteRecord, At
  <2>2. record[r] # NoVerdict
    BY <1>1 DEF NoVerdict, NoTarget
  <2>3. CASE r = op.rid
    <3>1. record[r].target = guard[r]
      BY <2>1, <2>2, <2>3 DEF RecordsKeepTarget
    <3>2. record'[r].target = guard[r]
      BY <2>1, <2>3
    <3>3. QED
      BY <1>1, <3>1, <3>2 DEF Judged
  <2>4. CASE r # op.rid
    BY <1>1, <2>1, <2>4 DEF Judged
  <2>5. QED
    BY <2>3, <2>4
<1>4. CASE ReviewNext /\ ~WriteRecord
  <2>1. UNCHANGED record
    BY <1>4 DEF ReviewNext, PrepareReviewBegin, PrepareReviewRecover, PrepareReviewClone,
       PrepareReviewValidate, PrepareReviewGuard, PrepareReviewHandoff,
       StopPrepareReview, CompleteReviewStart, CompleteReviewStale,
       WriteLatest, ClearRequired, RemoveClone, DropGuard, ReleaseMarker,
       MergePreflight, store, reviewStore
  <2>2. QED
    BY <1>2, <2>1
<1>5. QED
  BY <1>2, <1>3, <1>4, OnlyReviewRecords DEF Next, LckNext, vars, store, reviewStore

\* Every step leaves the ancestors of the commits made before it alone.
LEMMA AncestorsStay ==
    ASSUME Typed, GraphInv, [Next]_vars
    PROVE  \A c \in 1..made : anc'[c] = anc[c]
<1>0. CloneOK /\ Ancestry /\ NoCommit = 0
  BY DEF Typed, GraphInv, NoCommit
<1>1. ASSUME NEW p \in Heads, p <= made, NEW base, MakeCommit(p, base)
      PROVE  \A c \in 1..made : anc'[c] = anc[c]
  <2>1. made \in Nat /\ New = made + 1 /\ \A c \in Commits : c # New => anc'[c] = anc[c]
    BY <1>0, <1>1, HeadsMade, CommitDescends
  <2>2. made <= MaxCommit
    BY <1>0, BoundsAssumption DEF CloneOK, Heads
  <2>3. QED
    BY <2>1, <2>2, BoundsAssumption DEF Commits
<1>2. CASE ForeignPush
  <2>1. PICK p \in {NoCommit, remote} : MakeCommit(p, MainOf(p))
    BY <1>2 DEF ForeignPush
  <2>2. p \in Heads /\ p <= made
    BY <1>0, <2>1, HeadsMade, BoundsAssumption DEF Heads
  <2>3. QED
    BY <1>1, <2>1, <2>2
<1>3. CASE DeveloperCommit
  <2>1. MakeCommit(local, MainOf(local)) /\ local \in Heads /\ local <= made
    BY <1>3, HeadsMade DEF DeveloperCommit
  <2>2. QED
    BY <1>1, <2>1
<1>4. CASE CommitCandidate
  <2>1. UNCHANGED commits \/ MakeCommit(op.head, MainOf(op.head))
    BY <1>4 DEF CommitCandidate
  <2>2. op.head \in Heads /\ op.head <= made
    BY HeadsMade
  <2>3. QED
    BY <1>1, <2>1, <2>2 DEF commits
<1>5. CASE RebaseCandidate
  <2>1. MakeCommit(NoCommit, op.base) /\ NoCommit \in Heads /\ NoCommit <= made
    BY <1>0, <1>5, HeadsMade, BoundsAssumption DEF RebaseCandidate, Heads
  <2>2. QED
    BY <1>1, <2>1
<1>6. CASE UNCHANGED commits
  BY <1>6 DEF commits
<1>7. Environment /\ ~ForeignPush /\ ~DeveloperCommit => UNCHANGED commits
  BY DEF Environment, MainAdvances, ContractEdited, HumanMerge, DeveloperEdit, DeveloperSync, Crash
<1>8. DeliveryNext /\ ~CommitCandidate => UNCHANGED commits
  BY DEF DeliveryNext, DeliverPrepare, DeliverStart, ValidateCandidate, RecordCandidate, AlreadySynced,
     PushCandidate, ConfirmPush, EnsureOpenPr, VerifyPr, SetReviewStatus, VerifyLocalCompletion, StopPipeline
<1>9. RemediationNext => UNCHANGED commits
  BY DEF RemediationNext, PrepareRepairStart, NoChangeReceipt, RepairStart, PrepareRepairWrite,
     StopPrepareRepair, RaiseBoundary, ReleaseSession
<1>10. ReviewNext => UNCHANGED commits
  BY DEF ReviewNext, PrepareReviewBegin, PrepareReviewRecover, PrepareReviewClone,
     PrepareReviewValidate, PrepareReviewGuard, PrepareReviewHandoff, StopPrepareReview,
     CompleteReviewStart, CompleteReviewStale, WriteRecord, WriteLatest, ClearRequired, RemoveClone,
     DropGuard, ReleaseMarker, MergePreflight
<1>11. RefreshNext /\ ~RebaseCandidate => UNCHANGED commits
  BY DEF RefreshNext, RefreshStart, ValidateRebased, VerifyPrePush, FenceRefresh, PushExactLease,
     PushNotLanded, VerifyFinal, FinalNotProven, Compensate, CompensationUnproven, CompensationDrift,
     StopBeforeFence, RestoreBoundary, RestoreHead
<1>12. CloseoutNext => UNCHANGED commits
  BY DEF CloseoutNext, CloseoutStart, SynchronizeMain, ConvergeMetadata, DeleteLocalBranch,
     VerifyRemoteTip, DeleteRemoteBranch, StopCloseout
<1>13. QED
  BY <1>2, <1>3, <1>4, <1>5, <1>6, <1>7, <1>8, <1>9, <1>10, <1>11, <1>12 DEF Next, LckNext, vars

\* The repaired heads are commits that were made; the absent commit is not one.
LEMMA RepairedMade ==
    ASSUME Typed, GraphInv
    PROVE  /\ repaired \subseteq 1..made /\ NoCommit \notin repaired
           /\ \A c : Unreviewed(c) => c # NoCommit
           /\ session.start # NoCommit => session.start \in 1..made
           /\ op.head # NoCommit => op.head \in 1..made
BY HeadsMade DEF GraphInv, MadeSoFar, Unreviewed, NoCommit

\* A step that repairs no further head makes no head unreviewed.
LEMMA UnreviewedStays ==
    ASSUME Given, [Next]_vars, repaired' = repaired, unfenced' = unfenced, NEW c, Unreviewed(c)'
    PROVE  Unreviewed(c)
<1>1. c \in repaired /\ c # NoCommit /\ ~Judged(c)'
  BY RepairedMade DEF Given, Unreviewed
<1>2. QED
  BY <1>1, JudgedStays DEF Given, Unreviewed

\* Where the branch and the session stay, a head it has not gone behind stays one.
LEMMA ReturnFrame ==
    ASSUME Given, [Next]_vars, remote' = remote, NEW c \in 1..made \cup {NoCommit}, NoReturn(c)
    PROVE  NoReturn(c)'
BY AncestorsStay DEF Given, NoReturn

\* A step that moves neither the branch nor the session, and takes no boundary down.
LEMMA HeadsFrame ==
    ASSUME Given, [Next]_vars, UNCHANGED <<remote, repaired, unfenced, session>>,
           required' = required \/ required' # NoCommit
    PROVE  HeadsInv'
<1>1. HeadsInv /\ Typed /\ GraphInv
  BY DEF Given
<1>2. Unreviewed(remote)' => required' # NoCommit \/ session'.cand = remote'
  BY <1>1, UnreviewedStays DEF HeadsInv
<1>3. session' # NoSession => ~Unreviewed(session.start)'
  BY <1>1, UnreviewedStays DEF HeadsInv
<1>4. NoReturn(session.start)' /\ \A c \in repaired' : NoReturn(c)'
  BY <1>1, RepairedMade, ReturnFrame DEF HeadsInv
<1>5. QED
  BY <1>2, <1>3, <1>4 DEF HeadsInv

\* No operation owes anything.
LEMMA IdleOwes == Owes(Idle)'
BY DEF Owes, Idle

\* A step outside the running operation leaves what it owes as it was, also one that
\* puts a new commit on the branch.
LEMMA OwesFrame ==
    ASSUME Given, [Next]_vars, UNCHANGED <<repaired, unfenced, session, required, guard, record, op>>,
           remote' = remote \/ remote' \notin 1..made
    PROVE  Owes(op)'
<1>0. Typed /\ GraphInv /\ Owes(op) /\ Relies(op) /\ Ancestry
  BY DEF Given, PrInv, GraphInv
<1>1. \A h : AtOrForeign(h) => (remote' = h \/ remote' \notin repaired)
  BY <1>0, RepairedMade DEF AtOrForeign
<1>2. \A c : Unreviewed(c)' => Unreviewed(c)
  BY UnreviewedStays
<1>3. CASE op.name = "repair"
  BY <1>0, <1>3 DEF Owes, RepairOwes
<1>4. CASE op.name = "prepareRepair"
  <2>1. op.head \in 1..made /\ anc[op.head] \subseteq 1..op.head
    BY <1>0, <1>4, RepairedMade, BoundsAssumption DEF Relies, Ancestry, Commits, Typed, CloneOK, Heads
  <2>2. anc'[op.head] = anc[op.head]
    BY <1>0, <2>1, AncestorsStay
  <2>3. NoReturn(op.head)'
    BY <1>0, <1>4, <2>1, <2>2, HeadsMade DEF Owes, PrepareRepairOwes, NoReturn
  <2>4. PrepareRepairOwes(op)'
    BY <1>0, <1>1, <1>2, <1>4, <2>3 DEF Owes, PrepareRepairOwes, AtOrForeign
  <2>5. QED
    BY <1>4, <2>4 DEF Owes
<1>5. CASE op.name = "noChange"
  <2>1. Unreviewed(remote)' => remote' = remote
    BY <1>0, RepairedMade DEF Unreviewed
  <2>2. ~Unreviewed(remote)'
    BY <1>0, <1>2, <1>5, <2>1 DEF Owes
  <2>3. QED
    BY <1>5, <2>2 DEF Owes
<1>6. CASE op.name = "completeReview"
  BY <1>0, <1>1, <1>6 DEF Owes, CompleteReviewOwes, AtOrForeign
<1>7. CASE op.name = "refresh"
  <2>1. \A c \in repaired : anc'[c] = anc[c]
    BY <1>0, AncestorsStay, RepairedMade
  <2>2. op.step \in Rebased \cup Landing => anc'[op.head] = anc[op.head]
    <3>1. op.step \in Rebased \cup Landing => op.head \in 1..made
      BY <1>0, <1>7, HeadsMade DEF GraphInv, MadeSoFar, OpMade, Rebased, Landing
    <3>2. QED
      BY <1>0, <3>1, AncestorsStay
  <2>3. RefreshOwes(op)'
    BY <1>0, <1>1, <1>2, <1>7, <2>1, <2>2 DEF Owes, RefreshOwes, AtOrForeign
  <2>4. QED
    BY <1>7, <2>3 DEF Owes
<1>8. CASE op.name \notin {"repair", "prepareRepair", "noChange", "completeReview", "refresh"}
  BY <1>8 DEF Owes
<1>9. QED
  BY <1>3, <1>4, <1>5, <1>6, <1>7, <1>8

\* Steps outside LCK put no repaired head on the branch.
LEMMA EnvironmentBoundary == ASSUME Given, Environment PROVE Kept
<1>0. /\ Typed /\ GraphInv /\ HeadsInv /\ Ancestry /\ [Next]_vars
      /\ UNCHANGED <<repaired, unfenced, session, required, guard, record>>
  BY DEF Given, GraphInv, Next, Environment, MainAdvances, ContractEdited, ForeignPush, HumanMerge,
     DeveloperEdit, DeveloperCommit, DeveloperSync, Crash, store, reviewStore, repairStore, history
<1>1. CASE ForeignPush
  <2>1. remote' = made + 1 /\ op' = op /\ made \in Nat
    BY <1>0, <1>1, HeadsMade DEF ForeignPush, New
  <2>2. Owes(op)'
    BY <1>0, <2>1, OwesFrame
  <2>3. remote' \notin repaired'
    BY <1>0, <2>1, RepairedMade
  <2>4. ASSUME NEW c \in 1..made \cup {NoCommit} PROVE NoReturn(c)'
    <3>1. c # NoCommit => c \in Commits
      BY <1>0, <2>1, <2>4, BoundsAssumption DEF Typed, CloneOK, Heads, Commits
    <3>2. c # NoCommit => anc'[c] \subseteq 1..c /\ c \in 1..made
      BY <1>0, <2>4, <3>1, AncestorsStay DEF Ancestry
    <3>3. QED
      BY <2>1, <3>2 DEF NoReturn
  <2>5. session # NoSession => ~Unreviewed(session.start)'
    BY <1>0, UnreviewedStays DEF HeadsInv
  <2>6. HeadsInv'
    BY <1>0, <2>3, <2>4, <2>5, RepairedMade DEF HeadsInv, Unreviewed
  <2>7. QED
    BY <2>2, <2>6 DEF Kept
<1>2. CASE Environment /\ ~ForeignPush
  <2>1. remote' = remote /\ op' \in {op, Idle}
    BY <1>2 DEF Environment, MainAdvances, ContractEdited, HumanMerge, DeveloperEdit, DeveloperCommit,
       DeveloperSync, Crash, github
  <2>2. Owes(op)'
    BY <1>0, <2>1, OwesFrame, IdleOwes
  <2>3. QED
    BY <1>0, <2>1, <2>2, HeadsFrame DEF Kept
<1>3. QED
  BY <1>1, <1>2

\* Review Prepare and Merge Preflight leave all this alone; a recorded verdict is about the head
\* that was on the branch; the boundary is taken down when that verdict is the latest.
LEMMA ReviewBoundary == ASSUME Given, ReviewNext PROVE Kept
<1>0. /\ Typed /\ GraphInv /\ HeadsInv /\ Owes(op) /\ [Next]_vars /\ op \in Ops
      /\ UNCHANGED <<remote, repaired, unfenced, session>>
  BY ZenonT(60) DEF Given, Typed, Knows, Next, LckNext, ReviewNext, PrepareReviewBegin, PrepareReviewRecover,
     PrepareReviewClone, PrepareReviewValidate, PrepareReviewGuard, PrepareReviewHandoff,
     StopPrepareReview, CompleteReviewStart, CompleteReviewStale, WriteRecord, WriteLatest, ClearRequired,
     RemoveClone, DropGuard, ReleaseMarker, MergePreflight, github, store, repairStore, history
<1>1. CASE ClearRequired
  <2>1. /\ op.name = "completeReview" /\ op.step = "clear" /\ op.rid \in Reviews
        /\ op'.name = "completeReview" /\ op'.step = "removeClone"
    BY <1>0, <1>1 DEF ClearRequired, At, Goto, Ops, Typed, Knows
  <2>2. AtOrForeign(op.head) /\ record[op.rid].target.head = op.head
    BY <1>0, <2>1 DEF Owes, CompleteReviewOwes
  <2>3. ~Unreviewed(remote)
    BY <2>1, <2>2 DEF AtOrForeign, Unreviewed, Judged
  <2>4. ~Unreviewed(remote)'
    BY <1>0, <2>3, UnreviewedStays
  <2>5. session # NoSession => ~Unreviewed(session.start)'
    BY <1>0, UnreviewedStays DEF HeadsInv
  <2>6. NoReturn(session.start)' /\ \A c \in repaired' : NoReturn(c)'
    BY <1>0, RepairedMade, ReturnFrame DEF HeadsInv
  <2>7. HeadsInv'
    BY <1>0, <2>4, <2>5, <2>6 DEF HeadsInv
  <2>8. Owes(op)'
    BY <2>1 DEF Owes, CompleteReviewOwes
  <2>9. QED
    BY <2>7, <2>8 DEF Kept
<1>2. CASE ReviewNext /\ ~ClearRequired
  <2>1. required' = required
    BY <1>2 DEF ReviewNext, PrepareReviewBegin, PrepareReviewRecover,
       PrepareReviewClone, PrepareReviewValidate, PrepareReviewGuard, PrepareReviewHandoff,
       StopPrepareReview, CompleteReviewStart, CompleteReviewStale, WriteRecord, WriteLatest,
       RemoveClone, DropGuard, ReleaseMarker, MergePreflight, store
  <2>2. HeadsInv'
    BY <1>0, <2>1, HeadsFrame
  <2>3. Owes(op)'
    <3>1. CASE WriteRecord
      <4>1. /\ op.name = "completeReview" /\ op.step = "record" /\ op.rid \in Reviews
            /\ op'.name = "completeReview" /\ op'.step = "latest" /\ op'.head = op.head /\ op'.rid = op.rid
        BY <1>0, <3>1 DEF WriteRecord, At, Goto, Ops, Typed, Knows
      <4>2. AtOrForeign(op.head) /\ guard[op.rid].head = op.head
        BY <1>0, <4>1 DEF Owes, CompleteReviewOwes
      <4>3. record'[op.rid].target = guard[op.rid]
        BY <1>0, <3>1, <4>1 DEF WriteRecord, Typed, ReviewStoreOK
      <4>4. QED
        BY <1>0, <4>1, <4>2, <4>3 DEF Owes, CompleteReviewOwes, AtOrForeign
    <3>2. CASE WriteLatest
      <4>1. /\ op.name = "completeReview" /\ op.step = "latest" /\ UNCHANGED record
            /\ op'.name = "completeReview" /\ op'.step = "clear" /\ op'.head = op.head /\ op'.rid = op.rid
        BY <1>0, <3>2 DEF WriteLatest, At, Goto, Ops
      <4>2. QED
        BY <1>0, <4>1 DEF Owes, CompleteReviewOwes, AtOrForeign
    <3>3. CASE \E v \in Verdicts : CompleteReviewStart(v)
      <4>1. /\ op'.name = "completeReview" /\ op'.step = "record" /\ op'.head = remote
            /\ op'.rid = marker.rid /\ LiveTarget = guard[marker.rid] /\ UNCHANGED guard
        BY <3>3 DEF CompleteReviewStart, Begin, store, reviewStore
      <4>2. guard[marker.rid].head = remote
        BY <4>1 DEF LiveTarget
      <4>3. QED
        BY <1>0, <4>1, <4>2 DEF Owes, CompleteReviewOwes, AtOrForeign
    <3>4. CASE CompleteReviewStale \/ RemoveClone \/ DropGuard
      <4>1. op'.name = "completeReview" /\ op'.step \notin {"record", "latest", "clear"}
        BY <1>0, <3>4 DEF CompleteReviewStale, RemoveClone, DropGuard, Begin, At, Goto, Ops
      <4>2. QED
        BY <4>1 DEF Owes, CompleteReviewOwes
    <3>5. CASE PrepareReviewBegin \/ PrepareReviewRecover \/ PrepareReviewClone \/ PrepareReviewValidate
               \/ PrepareReviewGuard
      <4>1. CASE PrepareReviewBegin \/ PrepareReviewClone
        BY <4>1 DEF PrepareReviewBegin, PrepareReviewClone, Begin, Owes
      <4>2. CASE PrepareReviewRecover \/ PrepareReviewValidate \/ PrepareReviewGuard
        <5>1. op'.name = "prepareReview"
          BY <1>0, <4>2 DEF PrepareReviewRecover, PrepareReviewValidate, PrepareReviewGuard, At, Goto, Ops
        <5>2. QED
          BY <5>1 DEF Owes
      <4>3. QED
        BY <3>5, <4>1, <4>2
    <3>6. CASE PrepareReviewHandoff \/ StopPrepareReview \/ ReleaseMarker \/ MergePreflight
      <4>1. op' = Idle
        BY <3>6 DEF PrepareReviewHandoff, StopPrepareReview, ReleaseMarker, MergePreflight
      <4>2. QED
        BY <4>1, IdleOwes
    <3>7. QED
      BY <1>2, <3>1, <3>2, <3>3, <3>4, <3>5, <3>6 DEF ReviewNext
  <2>4. QED
    BY <2>2, <2>3 DEF Kept
<1>3. QED
  BY <1>1, <1>2

\* Closeout takes the branch away, which no repaired head is lost by.
LEMMA CloseoutBoundary == ASSUME Given, CloseoutNext PROVE Kept
<1>0. /\ Typed /\ GraphInv /\ HeadsInv /\ Ancestry /\ [Next]_vars
      /\ UNCHANGED <<repaired, unfenced, session, required>> /\ remote' \in {remote, NoCommit}
  BY DEF Given, GraphInv, Next, LckNext, CloseoutNext, CloseoutStart, SynchronizeMain, ConvergeMetadata,
     DeleteLocalBranch, VerifyRemoteTip, DeleteRemoteBranch, StopCloseout, github, store, repairStore, history
<1>1. Owes(op)'
  <2>1. op'.name \in {"closeout", "idle"}
    BY <1>0, CloseoutName
  <2>2. QED
    BY <2>1 DEF Owes
<1>2. CASE remote' = remote
  BY <1>0, <1>1, <1>2, HeadsFrame DEF Kept
<1>3. CASE remote' = NoCommit
  <2>1. ~Unreviewed(remote)'
    BY <1>0, <1>3, RepairedMade DEF Unreviewed
  <2>2. session # NoSession => ~Unreviewed(session.start)'
    BY <1>0, UnreviewedStays DEF HeadsInv
  <2>3. ASSUME NEW c \in 1..made \cup {NoCommit} PROVE NoReturn(c)'
    <3>1. c # NoCommit => c \in Commits
      BY <1>0, <2>3, HeadsMade, BoundsAssumption DEF Heads, Commits
    <3>2. c # NoCommit => anc'[c] \subseteq 1..c
      BY <1>0, <2>3, <3>1, AncestorsStay DEF Ancestry
    <3>3. QED
      BY <1>3, <3>2 DEF NoReturn, NoCommit
  <2>4. HeadsInv'
    BY <1>0, <2>1, <2>2, <2>3, RepairedMade DEF HeadsInv
  <2>5. QED
    BY <1>1, <2>4 DEF Kept
<1>4. QED
  BY <1>0, <1>2, <1>3

\* A push by the pipeline goes past a head that the branch has not gone behind, and so to
\* another one.
LEMMA PushGoesOn ==
    ASSUME Given, PushCandidate, NEW c \in repaired \cup {session.start}, c # NoCommit, NoReturn(c)
    PROVE  c # op.head /\ NoReturn(c)'
<1>0. /\ Typed /\ GraphInv /\ Ancestry /\ PrInv /\ Relies(op) /\ [Next]_vars
      /\ op.name \in Pipeline /\ remote' = op.head /\ remote # op.head /\ IsAncestor(remote, op.head)
  BY DEF Given, GraphInv, PrInv, PushCandidate, MayFastForward, PipelineAt, Next, LckNext, DeliveryNext
<1>1. c \in 1..made /\ op.head \in 0..made /\ made \in Heads
  BY <1>0, RepairedMade, HeadsMade
<1>2. remote # NoCommit
  BY <1>0 DEF PrInv, Relies, NoSession
<1>3. op.head # NoCommit /\ remote \in anc[op.head]
  BY <1>0, <1>2 DEF IsAncestor
<1>4. c \in Commits /\ op.head \in Commits
  BY <1>1, <1>3, BoundsAssumption DEF Heads, Commits, NoCommit
<1>5. c # op.head
  BY <1>0, <1>3 DEF NoReturn
<1>6. op.head \notin anc[c]
  <2>1. SUFFICES ASSUME op.head \in anc[c] PROVE FALSE
    OBVIOUS
  <2>2. remote \in anc[c]
    BY <1>3, <1>4, <2>1, <1>0 DEF Ancestry
  <2>3. c \in anc[op.head]
    BY <1>3, <2>2 DEF NoReturn
  <2>4. c \in 1..op.head /\ op.head \in 1..c
    BY <1>0, <1>4, <2>1, <2>3 DEF Ancestry
  <2>5. QED
    BY <1>4, <1>5, <2>4 DEF Commits
<1>7. UNCHANGED anc
  BY DEF PushCandidate, commits
<1>8. QED
  BY <1>0, <1>5, <1>6, <1>7 DEF NoReturn

\* Delivery puts no repaired head on the branch again; Remediation owns what it pushes under
\* a session.
LEMMA DeliveryBoundary == ASSUME Given, DeliveryNext PROVE Kept
<1>0. /\ Typed /\ GraphInv /\ HeadsInv /\ PrInv /\ Relies(op) /\ Owes(op) /\ [Next]_vars /\ op \in Ops
  BY DEF Given, PrInv, Typed, Knows, Next, LckNext
<1>1. CASE PushCandidate
  <2>1. /\ UNCHANGED <<required, session, record>> /\ remote' = op.head
        /\ op.name \in Pipeline /\ op.step = "push"
        /\ repaired' = IF op.name = "repair" THEN repaired \cup {op.head} ELSE repaired
        /\ unfenced' = IF op.name = "repair" /\ session = NoSession
                       THEN unfenced \cup {op.head} ELSE unfenced
    BY <1>1 DEF PushCandidate, Landed, PipelineAt, Pipeline, store, reviewStore, repairStore
  <2>2. op.head \notin repaired
    BY <1>0, <1>1, RepairedMade, PushGoesOn DEF HeadsInv
  <2>3. op.head \in repaired' \ unfenced' => session'.cand = remote'
    BY <1>0, <2>1, <2>2 DEF Owes, RepairOwes
  <2>4. session # NoSession => ~Unreviewed(session.start)'
    <3>1. session # NoSession => session.start # op.head
      BY <1>0, <1>1, PushGoesOn DEF HeadsInv, PrInv
    <3>2. QED
      BY <1>0, <2>1, <3>1 DEF HeadsInv, Unreviewed, Judged
  <2>5. NoReturn(session.start)'
    <3>1. CASE session.start = NoCommit
      BY <2>1, <3>1 DEF NoReturn
    <3>2. CASE session.start # NoCommit
      BY <1>0, <1>1, <2>1, <3>2, PushGoesOn DEF HeadsInv, NoReturn
    <3>3. QED
      BY <3>1, <3>2
  <2>6. \A c \in repaired' : NoReturn(c)'
    <3>1. TAKE c \in repaired'
    <3>2. CASE c = op.head
      BY <2>1, <3>2 DEF NoReturn
    <3>3. CASE c # op.head
      <4>1. c \in repaired /\ c # NoCommit
        BY <1>0, <2>1, <3>1, <3>3, RepairedMade
      <4>2. QED
        BY <1>0, <1>1, <4>1, PushGoesOn DEF HeadsInv
    <3>4. QED
      BY <3>2, <3>3
  <2>7. HeadsInv'
    BY <2>1, <2>3, <2>4, <2>5, <2>6 DEF HeadsInv, Unreviewed
  <2>8. op' = Idle \/ (op'.name \in Pipeline /\ op'.step = "confirm")
    BY <1>0, <1>1, <2>1 DEF PushCandidate, Ops
  <2>9. (op'.name = op.name /\ op'.start = op.start) \/ op' = Idle
    BY <1>0, <1>1 DEF PushCandidate, Ops
  <2>10. QED
    BY <1>0, <2>1, <2>7, <2>8, <2>9, IdleOwes DEF Kept, Owes, RepairOwes, Pipeline
<1>2. CASE RecordCandidate
  <2>1. /\ op.name \in Pipeline /\ op'.name = op.name /\ op'.step = "push" /\ op'.head = op.head
        /\ op'.start = op.start
        /\ session # NoSession /\ session'.start = session.start /\ session'.cand = op.head
        /\ session.cand \in {NoCommit, op.head} /\ UNCHANGED <<remote, repaired, unfenced, required, record, anc>>
    BY <1>0, <1>2 DEF RecordCandidate, PipelineAt, Goto, Ops, Typed, RepairStoreOK, Sessions, github,
       history, reviewStore, commits
  <2>2. Unreviewed(remote) => remote # NoCommit
    BY <1>0, RepairedMade
  <2>3. HeadsInv'
    BY <1>0, <2>1, <2>2 DEF HeadsInv, Unreviewed, Judged, NoReturn
  <2>4. Owes(op)'
    BY <1>0, <2>1 DEF Owes, RepairOwes, Pipeline
  <2>5. QED
    BY <2>3, <2>4 DEF Kept
<1>3. ASSUME op' = Idle \/ (op'.name \in Pipeline /\ op'.step \notin {"push", "release"})
             \/ (op'.name \in Pipeline /\ op'.step = "push" /\ (op'.name = "repair" => session = NoSession)),
             op'.name = "repair" => op.name = "repair" /\ op'.start = op.start,
             UNCHANGED <<remote, store, repaired, unfenced>>
      PROVE  Kept
  <2>1. UNCHANGED <<session, required>>
    BY <1>3 DEF store, repairStore
  <2>2. Owes(op)'
    BY <1>0, <1>3, <2>1, IdleOwes DEF Owes, RepairOwes, Pipeline
  <2>3. QED
    BY <1>0, <1>3, <2>1, <2>2, HeadsFrame DEF Kept
<1>4. CASE CommitCandidate
  <2>1. op'.name = op.name /\ op.name \in Pipeline /\ op'.step = AfterCommit
        /\ op'.start = op.start
    BY <1>0, <1>4 DEF CommitCandidate, PipelineAt, Goto, Ops
  <2>2. UNCHANGED <<remote, store, repaired, unfenced>>
    BY <1>4 DEF CommitCandidate, github
  <2>3. QED
    BY <1>3, <2>1, <2>2 DEF AfterCommit
<1>5. CASE DeliverPrepare \/ DeliverStart
  <2>1. op' = Idle \/ (op'.name = "deliver" /\ op'.step = "validate")
    BY <1>5 DEF DeliverPrepare, DeliverStart, Begin
  <2>2. UNCHANGED <<remote, store, repaired, unfenced>>
    BY <1>5 DEF DeliverPrepare, DeliverStart, github, history
  <2>3. QED
    BY <1>3, <2>1, <2>2 DEF Idle, Pipeline
<1>6. CASE ValidateCandidate \/ AlreadySynced \/ ConfirmPush
  <2>1. op'.name \in Pipeline /\ op'.step \in {"commit", "pr"}
        /\ op'.name = op.name /\ op'.start = op.start
    BY <1>0, <1>6 DEF ValidateCandidate, AlreadySynced, ConfirmPush, PipelineAt, Goto, Ops
  <2>2. UNCHANGED <<remote, store, repaired, unfenced>>
    BY <1>6 DEF ValidateCandidate, AlreadySynced, ConfirmPush, github, history
  <2>3. QED
    BY <1>3, <2>1, <2>2
<1>7. CASE EnsureOpenPr \/ VerifyPr \/ SetReviewStatus
  <2>1. op'.name \in Pipeline /\ op'.step \in {"prVerify", "status", "final"}
        /\ op'.name = op.name /\ op'.start = op.start
    BY <1>0, <1>7 DEF EnsureOpenPr, VerifyPr, SetReviewStatus, PipelineAt, At, Pipeline, Goto, Ops
  <2>2. UNCHANGED <<remote, store, repaired, unfenced>>
    BY <1>7 DEF EnsureOpenPr, VerifyPr, SetReviewStatus, github, history
  <2>3. QED
    BY <1>3, <2>1, <2>2
<1>8. CASE VerifyLocalCompletion \/ StopPipeline
  <2>1. op' = Idle \/ (op'.name = "repair" /\ op'.step = "boundary" /\ op.name = "repair"
                         /\ op'.start = op.start)
    BY <1>0, <1>8 DEF VerifyLocalCompletion, StopPipeline, PipelineAt, Pipeline, Ops
  <2>2. UNCHANGED <<remote, store, repaired, unfenced>>
    BY <1>8 DEF VerifyLocalCompletion, StopPipeline, github, history
  <2>3. QED
    BY <1>3, <2>1, <2>2 DEF Idle, Pipeline
<1>9. QED
  BY <1>1, <1>2, <1>4, <1>5, <1>6, <1>7, <1>8 DEF DeliveryNext

\* A session starts where the branch is; it ends under the boundary, or untouched.
LEMMA RemediationBoundary == ASSUME Given, RemediationNext PROVE Kept
<1>0. /\ Typed /\ GraphInv /\ HeadsInv /\ PrInv /\ Relies(op) /\ Owes(op) /\ [Next]_vars /\ op \in Ops
      /\ UNCHANGED <<remote, repaired, record, anc>>
  BY DEF Given, PrInv, Typed, Knows, Next, LckNext, RemediationNext, PrepareRepairStart, NoChangeReceipt,
     RepairStart, PrepareRepairWrite, StopPrepareRepair, RaiseBoundary, ReleaseSession, github, commits,
     store, reviewStore, history
<1>1. ASSUME NEW r, PrepareRepairStart(r) PROVE Kept
  <2>1. /\ op'.name = "prepareRepair" /\ op'.head = remote /\ required = NoCommit
        /\ UNCHANGED <<session, required, unfenced>>
    BY <1>1 DEF PrepareRepairStart, Begin, store, repairStore, history
  <2>2. Owes(op)'
    BY <1>0, <2>1 DEF Owes, PrepareRepairOwes, AtOrForeign, HeadsInv, NoReturn, Unreviewed, Judged
  <2>3. QED
    BY <1>0, <2>1, <2>2, HeadsFrame DEF Kept
<1>2. ASSUME NEW r, NoChangeReceipt(r) PROVE Kept
  <2>1. /\ op'.name = "noChange" /\ session # NoSession /\ remote = session.start
        /\ UNCHANGED <<session, required, unfenced>>
    BY <1>2 DEF NoChangeReceipt, TargetUntouched, Begin, history
  <2>2. Owes(op)'
    BY <1>0, <2>1 DEF Owes, HeadsInv, Unreviewed, Judged
  <2>3. QED
    BY <1>0, <2>1, <2>2, HeadsFrame DEF Kept
<1>3. ASSUME NEW r, RepairStart(r) PROVE Kept
  <2>1. PICK start : RepairBegins(r, start) /\ (session # NoSession => start = session.start)
    BY <1>3 DEF RepairStart
  <2>2. op'.name = "repair" /\ op'.step = "validate" /\ op'.start = start
        /\ UNCHANGED <<session, required, unfenced>>
    BY <1>3, <2>1 DEF RepairStart, RepairBegins, Begin, store, repairStore, history
  <2>3. Owes(op)'
    BY <2>1, <2>2 DEF Owes, RepairOwes
  <2>4. QED
    BY <1>0, <2>2, <2>3, HeadsFrame DEF Kept
<1>4. CASE PrepareRepairWrite
  <2>1. /\ op.name = "prepareRepair" /\ op' = Idle /\ UNCHANGED <<required, unfenced>>
        /\ session = NoSession \/ session.start = op.head
        /\ session'.start = op.head
    BY <1>4 DEF PrepareRepairWrite, At, SessionWritable, history
  <2>2. /\ AtOrForeign(op.head) /\ NoReturn(op.head)
        /\ Unreviewed(op.head) => session.cand = op.head
    BY <1>0, <2>1 DEF Owes, PrepareRepairOwes
  <2>3. ~Unreviewed(op.head)
    <3>1. SUFFICES ASSUME Unreviewed(op.head) PROVE FALSE
      OBVIOUS
    <3>2. session.cand = op.head /\ op.head # NoCommit
      BY <1>0, <2>2, <3>1, RepairedMade
    <3>3. session # NoSession
      BY <3>2 DEF NoSession
    <3>4. QED
      BY <1>0, <2>1, <3>1, <3>3 DEF HeadsInv
  <2>4. ~Unreviewed(remote)
    BY <2>2, <2>3 DEF AtOrForeign, Unreviewed
  <2>5. HeadsInv'
    BY <1>0, <2>1, <2>2, <2>3, <2>4 DEF HeadsInv, Unreviewed, Judged, NoReturn
  <2>6. QED
    BY <2>1, <2>5, IdleOwes DEF Kept
<1>5. CASE StopPrepareRepair
  <2>1. op' = Idle /\ UNCHANGED <<session, required, unfenced>>
    BY <1>5 DEF StopPrepareRepair, store, repairStore, history
  <2>2. QED
    BY <1>0, <2>1, HeadsFrame, IdleOwes DEF Kept
<1>6. CASE RaiseBoundary
  <2>1. /\ op.name = "repair" /\ op.step = "boundary" /\ required' = op.head /\ UNCHANGED session
        /\ op'.name = "repair" /\ op'.step = "release" /\ op'.start = op.start
        /\ op.head # op.start /\ unfenced' = unfenced \ {op.head}
    BY <1>0, <1>6 DEF RaiseBoundary, At, Goto, Ops, repairStore
  <2>2. required' # NoCommit
    BY <1>0, <2>1 DEF Relies
  <2>3. session # NoSession => op.start = session.start
    BY <1>0, <2>1 DEF Owes, RepairOwes
  <2>4. Owes(op)'
    BY <2>1, <2>2, <2>3 DEF Owes, RepairOwes
  <2>5. session # NoSession => ~Unreviewed(session.start)'
    BY <1>0, <2>1, <2>3 DEF HeadsInv, Unreviewed, Judged
  <2>6. HeadsInv'
    BY <1>0, <2>1, <2>2, <2>5 DEF HeadsInv, NoReturn
  <2>7. QED
    BY <2>4, <2>6 DEF Kept
<1>7. CASE ReleaseSession
  <2>1. /\ session' = NoSession /\ op' = Idle /\ UNCHANGED <<required, unfenced>>
        /\ op.name \in {"repair", "noChange"} /\ op.step = "release"
    BY <1>7 DEF ReleaseSession, history
  <2>2. required # NoCommit \/ ~Unreviewed(remote)
    BY <1>0, <2>1 DEF Owes, RepairOwes
  <2>3. HeadsInv'
    BY <1>0, <2>1, <2>2 DEF HeadsInv, Unreviewed, Judged, NoReturn, NoSession
  <2>4. QED
    BY <2>1, <2>3, IdleOwes DEF Kept
<1>8. QED
  BY <1>1, <1>2, <1>3, <1>4, <1>5, <1>6, <1>7 DEF RemediationNext

\* Refresh exchanges the head it started from for one that has no other ancestor, and takes
\* its boundary down only when the branch is not at a head that needs it.
LEMMA RefreshBoundary == ASSUME Given, RefreshNext PROVE Kept
<1>0. /\ Typed /\ GraphInv /\ HeadsInv /\ Ancestry /\ OpMade(op) /\ Owes(op) /\ [Next]_vars /\ op \in Ops
      /\ UNCHANGED <<session, record>>
  BY DEF Given, GraphInv, MadeSoFar, Typed, Knows, Next, LckNext, RefreshNext, RefreshStart,
     RebaseCandidate, ValidateRebased, VerifyPrePush, FenceRefresh, PushExactLease, PushNotLanded,
     VerifyFinal, FinalNotProven, Compensate, CompensationUnproven, CompensationDrift, StopBeforeFence,
     RestoreBoundary, RestoreHead, store, reviewStore, repairStore
<1>r. op.name = "refresh" => RefreshOwes(op)
  BY <1>0 DEF Owes
<1>n. NoSession.start = NoCommit /\ NoReturn(NoCommit)'
  BY DEF NoSession, NoReturn
<1>1. CASE RefreshStart
  <2>1. /\ session = NoSession /\ UNCHANGED <<remote, repaired, unfenced, required, anc>>
        /\ op'.name = "refresh" /\ op'.step = "rebase" /\ op'.start = remote /\ op'.prior = required
    BY <1>1 DEF RefreshStart, NoHandoff, Begin, github, commits, store, history
  <2>2. Unreviewed(remote) => required # NoCommit
    BY <1>0, <2>1, RepairedMade DEF HeadsInv, NoSession
  <2>3. \A c \in repaired : remote \in anc[c] => remote = c
    BY <1>0, RepairedMade DEF HeadsInv, NoReturn
  <2>4. RefreshOwes(op)'
    BY <1>0, <2>1, <2>2, <2>3 DEF RefreshOwes, Rebased, Landing, AtOrForeign, Unreviewed, Judged
  <2>5. QED
    BY <1>0, <2>1, <2>4, HeadsFrame DEF Kept, Owes
<1>2. CASE RebaseCandidate
  <2>1. /\ op.name = "refresh" /\ op.step = "rebase" /\ UNCHANGED <<remote, repaired, unfenced, required>>
        /\ op'.name = "refresh" /\ op'.step = "validate" /\ op'.head = New
        /\ op'.start = op.start /\ op'.prior = op.prior /\ MakeCommit(NoCommit, op.base)
    BY <1>0, <1>2, HeadsMade DEF RebaseCandidate, At, Ops, Typed, github, store, history
  <2>2. /\ New = made + 1 /\ New \in Commits /\ \A c \in Commits : c # New => anc'[c] = anc[c]
        /\ anc'[New] = {New}
    <3>1. NoCommit \in Heads /\ NoCommit <= made /\ CloneOK
      BY <1>0, HeadsMade, BoundsAssumption DEF Heads, NoCommit, Typed
    <3>2. QED
      BY <1>0, <2>1, <3>1, CommitDescends
  <2>3. \A c \in repaired : c < New /\ anc'[c] = anc[c]
    BY <1>0, <2>2, RepairedMade, HeadsMade, AncestorsStay
  <2>4. RefreshOwes(op)'
    BY <1>0, <1>r, <2>1, <2>2, <2>3 DEF RefreshOwes, Rebased, Landing, AtOrForeign, Unreviewed, Judged
  <2>5. QED
    BY <1>0, <2>1, <2>4, HeadsFrame DEF Kept, Owes
<1>3. ASSUME op.name = "refresh", op'.name = "refresh", UNCHANGED <<remote, repaired, unfenced, anc>>,
             op'.start = op.start, op'.head = op.head, op'.prior = op.prior,
             required' = required \/ required' # NoCommit, RefreshOwes(op)'
      PROVE  Kept
  BY <1>0, <1>3, HeadsFrame DEF Kept, Owes
<1>4. CASE ValidateRebased \/ VerifyPrePush
  <2>1. /\ op.name = "refresh" /\ op'.name = "refresh"
        /\ UNCHANGED <<remote, repaired, unfenced, anc, required>>
        /\ op'.start = op.start /\ op'.head = op.head /\ op'.prior = op.prior
        /\ op.step \in {"validate", "verify"} /\ op'.step \in {"verify", "fence"}
    BY <1>0, <1>4 DEF ValidateRebased, VerifyPrePush, At, Goto, Ops, github, commits, store, history
  <2>2. RefreshOwes(op)'
    BY <1>0, <1>r, <2>1 DEF RefreshOwes, Rebased, Landing, AtOrForeign, Unreviewed, Judged
  <2>3. QED
    BY <1>3, <2>1, <2>2
<1>5. CASE FenceRefresh
  <2>1. /\ op.name = "refresh" /\ op'.name = "refresh" /\ UNCHANGED <<remote, repaired, unfenced, anc>>
        /\ op'.start = op.start /\ op'.head = op.head /\ op'.prior = op.prior
        /\ op.step = "fence" /\ op'.step = "push" /\ required' = op.head
    BY <1>0, <1>5 DEF FenceRefresh, At, Goto, Ops, github, commits, history
  <2>2. required' # NoCommit
    BY <1>0, <2>1, HeadsMade DEF OpMade, NoCommit
  <2>3. RefreshOwes(op)'
    BY <1>0, <1>r, <2>1, <2>2 DEF RefreshOwes, Rebased, Landing, AtOrForeign, Unreviewed, Judged
  <2>4. QED
    BY <1>3, <2>1, <2>2, <2>3
<1>6. CASE PushExactLease
  <2>1. /\ op.name = "refresh" /\ op.step = "push" /\ UNCHANGED <<required, anc>>
        /\ remote = op.start /\ remote' = op.head /\ repaired' = repaired \cup {op.head}
        /\ unfenced' = unfenced
        /\ op' = Idle \/ (op'.name = "refresh" /\ op'.step = "final" /\ op'.start = op.start
                           /\ op'.head = op.head /\ op'.prior = op.prior)
    BY <1>0, <1>6 DEF PushExactLease, LeaseHolds, Landed, At, Ops, commits, store
  <2>2. /\ session = NoSession /\ required # NoCommit /\ anc[op.head] = {op.head}
        /\ op.start < op.head /\ op.start \in Nat /\ op.head \in Nat
        /\ \A c \in repaired : c < op.head
    BY <1>0, <1>r, <2>1, HeadsMade DEF RefreshOwes, Rebased, OpMade
  <2>3. \A c \in repaired : op.head \notin anc[c]
    <3>1. TAKE c \in repaired
    <3>2. c \in Commits /\ c < op.head
      BY <1>0, <2>2, <3>1, RepairedMade, HeadsMade, BoundsAssumption DEF Commits, Heads
    <3>3. QED
      BY <1>0, <2>2, <3>2 DEF Ancestry, Commits
  <2>4. HeadsInv'
    BY <1>0, <1>n, <2>1, <2>2, <2>3 DEF HeadsInv, NoReturn
  <2>5. Owes(op)'
    <3>1. CASE op' = Idle
      BY <3>1, IdleOwes
    <3>2. CASE op'.name = "refresh" /\ op'.step = "final" /\ op'.start = op.start
               /\ op'.head = op.head /\ op'.prior = op.prior
      <4>1. op.start \notin anc[op.head] /\ op.start # op.head
        BY <2>2
      <4>2. RefreshOwes(op)'
        BY <1>0, <1>r, <2>1, <2>2, <3>2, <4>1 DEF RefreshOwes, Rebased, Landing, AtOrForeign,
           Unreviewed, Judged
      <4>3. QED
        BY <3>2, <4>2 DEF Owes
    <3>3. QED
      BY <2>1, <3>1, <3>2
  <2>6. QED
    BY <2>4, <2>5 DEF Kept
<1>7. CASE Compensate
  <2>1. /\ op.name = "refresh" /\ op.step = "compensate" /\ UNCHANGED <<required, anc, repaired, unfenced>>
        /\ remote' = op.start
        /\ op' = Idle \/ (op'.name = "refresh" /\ op'.step = "restoreBoundary" /\ op'.start = op.start
                           /\ op'.head = op.head /\ op'.prior = op.prior)
    BY <1>0, <1>7 DEF Compensate, At, Ops, commits, store, history
  <2>2. /\ session = NoSession /\ required # NoCommit
        /\ \A c \in repaired : op.start \in anc[c] => op.start = c
    BY <1>r, <2>1 DEF RefreshOwes, Landing
  <2>3. HeadsInv'
    BY <1>0, <1>n, <2>1, <2>2 DEF HeadsInv, NoReturn
  <2>4. Owes(op)'
    <3>1. CASE op' = Idle
      BY <3>1, IdleOwes
    <3>2. CASE op'.name = "refresh" /\ op'.step = "restoreBoundary" /\ op'.start = op.start
               /\ op'.head = op.head /\ op'.prior = op.prior
      <4>1. RefreshOwes(op)'
        BY <1>0, <1>r, <2>1, <2>2, <3>2 DEF RefreshOwes, Rebased, Landing, AtOrForeign,
           Unreviewed, Judged
      <4>2. QED
        BY <3>2, <4>1 DEF Owes
    <3>3. QED
      BY <2>1, <3>1, <3>2
  <2>5. QED
    BY <2>3, <2>4 DEF Kept
<1>8. CASE RestoreBoundary
  <2>1. /\ op.name = "refresh" /\ op.step = "restoreBoundary" /\ UNCHANGED <<remote, anc, repaired, unfenced>>
        /\ required' = op.prior /\ op'.name = "refresh" /\ op'.step = "restoreHead"
        /\ op'.start = op.start /\ op'.head = op.head /\ op'.prior = op.prior
    BY <1>0, <1>8 DEF RestoreBoundary, At, Goto, Ops, github, commits, history
  <2>2. /\ session = NoSession /\ AtOrForeign(op.start)
        /\ Unreviewed(op.start) => op.prior # NoCommit
    BY <1>r, <2>1 DEF RefreshOwes, Landing
  <2>3. HeadsInv'
    BY <1>0, <1>n, <2>1, <2>2 DEF HeadsInv, NoReturn, AtOrForeign, Unreviewed, Judged
  <2>4. RefreshOwes(op)'
    BY <1>0, <1>r, <2>1, <2>2 DEF RefreshOwes, Rebased, Landing, AtOrForeign, Unreviewed, Judged
  <2>5. QED
    BY <2>1, <2>3, <2>4 DEF Kept, Owes
<1>9. ASSUME op' = Idle, UNCHANGED <<remote, repaired, unfenced, store>> PROVE Kept
  BY <1>0, <1>9, HeadsFrame, IdleOwes DEF Kept, store
<1>10. CASE PushNotLanded \/ FinalNotProven \/ CompensationDrift \/ StopBeforeFence
  <2>1. /\ op.name = "refresh" /\ UNCHANGED <<remote, repaired, unfenced, anc, store, required>>
        /\ op' = Idle \/
           (/\ op'.name = "refresh" /\ op'.start = op.start /\ op'.head = op.head /\ op'.prior = op.prior
            /\ \/ op.step = "push" /\ op'.step = "restoreBoundary"
               \/ op.step = "final" /\ op'.step = "compensate"
               \/ op.step = "compensate" /\ op'.step = "restoreBoundary" /\ remote # op.head
               \/ op.step \in {"rebase", "validate", "verify", "fence"} /\ op'.step = "restoreHead")
    BY <1>0, <1>10 DEF PushNotLanded, FinalNotProven, CompensationDrift, RemoteDrifted, StopBeforeFence,
       At, Goto, Ops, github, commits, store, history
  <2>2. CASE op' = Idle
    BY <1>9, <2>1, <2>2
  <2>3. CASE op' # Idle
    <3>1. RefreshOwes(op)'
      BY <1>0, <1>r, <2>1, <2>3 DEF RefreshOwes, Rebased, Landing, AtOrForeign, Unreviewed, Judged
    <3>2. QED
      BY <1>3, <2>1, <2>3, <3>1
  <2>4. QED
    BY <2>2, <2>3
<1>11. CASE VerifyFinal \/ CompensationUnproven \/ RestoreHead
  <2>1. op' = Idle /\ UNCHANGED <<remote, repaired, unfenced, store>>
    BY <1>11 DEF VerifyFinal, CompensationUnproven, RestoreHead, github, history
  <2>2. QED
    BY <1>9, <2>1
<1>12. QED
  BY <1>1, <1>2, <1>4, <1>5, <1>6, <1>7, <1>8, <1>10, <1>11 DEF RefreshNext

\* Before a Task is delivered, nothing was repaired.
LEMMA BoundaryInit == Init => HeadsInv /\ Owes(op)
BY DEF Init, HeadsInv, NoReturn, Unreviewed, NoSession, Owes, Idle

\* Every step of the Task keeps what its heads and its running operation owe the boundary.
LEMMA BoundaryNext == Given /\ [Next]_vars => Kept
<1> SUFFICES ASSUME Given, [Next]_vars PROVE Kept
  OBVIOUS
<1>1. CASE UNCHANGED vars
  <2>1. UNCHANGED <<remote, repaired, unfenced, session, required, guard, record, op>>
    BY <1>1 DEF vars, github, store, reviewStore, repairStore, history
  <2>2. HeadsInv'
    BY <2>1, HeadsFrame
  <2>3. Owes(op)'
    BY <2>1, OwesFrame
  <2>4. QED
    BY <2>2, <2>3 DEF Kept
<1>2. QED
  BY <1>1, EnvironmentBoundary, DeliveryBoundary, RemediationBoundary, ReviewBoundary,
     RefreshBoundary, CloseoutBoundary DEF Next, LckNext

\* Between operations, a head that Remediation or Refresh pushed and no Review has judged
\* is fenced by the boundary or owned by a session, whatever another writer, the developer
\* and process death do, for all bounds.  Excepted is the head of a Remediation Complete
\* that had no session, until its boundary is raised (remediation.py:691-699, 737-739, 775).
THEOREM BoundaryHolds == Spec => []FreshReviewBoundary
<1>1. Init => GraphInv /\ PrInv /\ RecordsKeepTarget /\ HeadsInv /\ Owes(op)
  BY GraphInit, PrInit, RecordsInit, BoundaryInit
<1>2. Typed /\ GraphInv /\ PrInv /\ RecordsKeepTarget /\ HeadsInv /\ Owes(op) /\ [Next]_vars
        => (GraphInv /\ PrInv /\ RecordsKeepTarget /\ HeadsInv /\ Owes(op))'
  BY GraphNext, PrNext, RecordsNext, BoundaryNext DEF Given, Kept
<1>3. HeadsInv => FreshReviewBoundary
  BY DEF HeadsInv, Unreviewed, Judged, FreshReviewBoundary
<1>4. QED
  BY <1>1, <1>2, <1>3, Typing, PTL DEF Spec

-----------------------------------------------------------------------------
\* A boundary and a session stand together only while a repair that raised the one has
\* still to end the other; o is the running operation.
NotLocked(o) ==
    /\ required = NoCommit \/ session = NoSession \/ (o.name = "repair" /\ o.step = "release")
    /\ o.name = "prepareRepair" => required = NoCommit
    /\ o.name = "refresh" => session = NoSession

\* An operation that neither writes a session nor rebases, and changes no marker.
LEMMA NotLockedFrame ==
    ASSUME NotLocked(op), UNCHANGED <<required, session>>, ~At("repair", "release"),
           op'.name \notin {"prepareRepair", "refresh"}
    PROVE  NotLocked(op)'
BY DEF NotLocked, At

\* No step but the death of the process leaves a session behind a raised boundary.
LEMMA NotLockedNext == Typed /\ NotLocked(op) /\ [Next]_vars /\ ~Crash => NotLocked(op)'
<1> SUFFICES ASSUME Typed, NotLocked(op), [Next]_vars, ~Crash PROVE NotLocked(op)'
  OBVIOUS
<1>0. op \in Ops /\ Idle.name = "idle"
  BY IdleName DEF Typed, Knows
<1>1. CASE Environment \/ UNCHANGED vars
  <2>1. UNCHANGED <<required, session, op>>
    BY <1>1 DEF Environment, MainAdvances, ContractEdited, ForeignPush, HumanMerge, DeveloperEdit,
       DeveloperCommit, DeveloperSync, vars, store, repairStore
  <2>2. QED
    BY <2>1 DEF NotLocked
<1>2. CASE DeliveryNext
  <2>1. /\ UNCHANGED required /\ ~At("repair", "release") /\ (session' = session \/ session # NoSession)
    BY <1>0, <1>2 DEF DeliveryNext, DeliverPrepare, DeliverStart, ValidateCandidate, CommitCandidate,
       RecordCandidate, AlreadySynced, PushCandidate, ConfirmPush, EnsureOpenPr, VerifyPr,
       SetReviewStatus, VerifyLocalCompletion, StopPipeline, PipelineAt, At, Pipeline, store, repairStore
  <2>2. op'.name \notin {"prepareRepair", "refresh"}
    BY <1>2, DeliveryName DEF Pipeline
  <2>3. QED
    BY <2>1, <2>2 DEF NotLocked, At
<1>3. ASSUME NEW r, PrepareRepairStart(r) \/ NoChangeReceipt(r) \/ RepairStart(r) PROVE NotLocked(op)'
  <2>1. required = NoCommit /\ UNCHANGED <<required, session>>
    BY <1>3 DEF PrepareRepairStart, NoChangeReceipt, RepairStart, store, repairStore
  <2>2. op'.name # "refresh"
    <3>1. op'.name \in {"prepareRepair", "noChange", "repair"}
      BY <1>3 DEF PrepareRepairStart, NoChangeReceipt, RepairStart, RepairBegins, Begin
    <3>2. QED
      BY <3>1
  <2>3. QED
    BY <2>1, <2>2 DEF NotLocked
<1>4. CASE PrepareRepairWrite
  BY <1>0, <1>4 DEF PrepareRepairWrite, At, NotLocked
<1>5. CASE StopPrepareRepair
  BY <1>0, <1>5, NotLockedFrame DEF StopPrepareRepair, At, store, repairStore
<1>6. CASE RaiseBoundary
  <2>1. op'.name = "repair" /\ op'.step = "release"
    BY <1>0, <1>6 DEF RaiseBoundary, At, Goto, Ops
  <2>2. QED
    BY <2>1 DEF NotLocked
<1>7. CASE ReleaseSession
  BY <1>0, <1>7 DEF ReleaseSession, NotLocked
<1>8. CASE ReviewNext
  <2>1. op'.name \in {"prepareReview", "completeReview", "idle"}
    BY <1>8, ReviewName
  <2>2. required' \in {required, NoCommit} /\ UNCHANGED session
    BY <1>8 DEF ReviewNext, PrepareReviewBegin, PrepareReviewRecover, PrepareReviewClone,
       PrepareReviewValidate, PrepareReviewGuard, PrepareReviewHandoff, StopPrepareReview,
       CompleteReviewStart, CompleteReviewStale, WriteRecord, WriteLatest, ClearRequired,
       RemoveClone, DropGuard, ReleaseMarker, MergePreflight, store, repairStore
  <2>3. op.name # "repair"
    BY <1>0, <1>8 DEF ReviewNext, PrepareReviewBegin, PrepareReviewRecover, PrepareReviewClone,
       PrepareReviewValidate, PrepareReviewGuard, PrepareReviewHandoff, StopPrepareReview,
       CompleteReviewStart, CompleteReviewStale, CanComplete, WriteRecord, WriteLatest, ClearRequired,
       RemoveClone, DropGuard, ReleaseMarker, MergePreflight, At
  <2>4. QED
    BY <2>1, <2>2, <2>3 DEF NotLocked
<1>9. CASE RefreshNext
  <2>1. session = NoSession /\ UNCHANGED session
    BY <1>9 DEF RefreshNext, RefreshStart, NoHandoff, RebaseCandidate, ValidateRebased, VerifyPrePush,
       FenceRefresh, PushExactLease, PushNotLanded, VerifyFinal, FinalNotProven, Compensate,
       CompensationUnproven, CompensationDrift, StopBeforeFence, RestoreBoundary, RestoreHead,
       At, NotLocked, store, repairStore
  <2>2. op'.name # "prepareRepair"
    BY <1>9, RefreshName
  <2>3. QED
    BY <2>1, <2>2 DEF NotLocked
<1>10. CASE CloseoutNext
  <2>1. UNCHANGED <<required, session>> /\ ~At("repair", "release")
    BY <1>0, <1>10 DEF CloseoutNext, CloseoutStart, SynchronizeMain, ConvergeMetadata, DeleteLocalBranch,
       VerifyRemoteTip, DeleteRemoteBranch, StopCloseout, At, store, repairStore
  <2>2. QED
    BY <1>10, <2>1, CloseoutName, NotLockedFrame
<1>11. QED
  BY <1>1, <1>2, <1>3, <1>4, <1>5, <1>6, <1>7, <1>8, <1>9, <1>10 DEF Next, LckNext, RemediationNext

\* A session outlives the boundary of its own repair only through the death of the process:
\* as long as none has died, no leftover session locks later invocations out.
THEOREM LockedOnlyByACrash == Spec => [](crashes = 0 => NoLockedSession)
<1>1. Init => (crashes = 0 => NotLocked(op))
  BY IdleName DEF Init, NotLocked
<1>2. Typed /\ (crashes = 0 => NotLocked(op)) /\ [Next]_vars => (crashes = 0 => NotLocked(op))'
  <2> SUFFICES ASSUME Typed, crashes = 0 => NotLocked(op), [Next]_vars, crashes' = 0
               PROVE  NotLocked(op)'
    OBVIOUS
  <2>1. crashes \in Nat
    BY DEF Typed, HistoryOK
  <2>2. ~Crash
    BY <2>1 DEF Crash
  <2>3. crashes = 0
    <3>1. CASE Environment \/ UNCHANGED vars
      BY <2>2, <3>1 DEF Environment, MainAdvances, ContractEdited, ForeignPush, HumanMerge,
         DeveloperEdit, DeveloperCommit, DeveloperSync, vars, spent
    <3>2. CASE DeliveryNext \/ RemediationNext
      BY <3>2 DEF DeliveryNext, DeliverPrepare, DeliverStart, ValidateCandidate, CommitCandidate,
         RecordCandidate, AlreadySynced, PushCandidate, ConfirmPush, EnsureOpenPr, VerifyPr,
         SetReviewStatus, VerifyLocalCompletion, StopPipeline,
         RemediationNext, PrepareRepairStart, NoChangeReceipt, RepairStart,
         PrepareRepairWrite, StopPrepareRepair, RaiseBoundary, ReleaseSession, spent
    <3>3. CASE ReviewNext
      BY <3>3 DEF ReviewNext, PrepareReviewBegin, PrepareReviewRecover, PrepareReviewClone,
         PrepareReviewValidate, PrepareReviewGuard, PrepareReviewHandoff, StopPrepareReview,
         CompleteReviewStart, CompleteReviewStale, WriteRecord, WriteLatest, ClearRequired,
         RemoveClone, DropGuard, ReleaseMarker, MergePreflight, spent
    <3>4. CASE RefreshNext \/ CloseoutNext
      BY <3>4 DEF RefreshNext, RefreshStart, RebaseCandidate, ValidateRebased, VerifyPrePush,
         FenceRefresh, PushExactLease, PushNotLanded, VerifyFinal, FinalNotProven, Compensate,
         CompensationUnproven, CompensationDrift, StopBeforeFence, RestoreBoundary, RestoreHead,
         CloseoutNext, CloseoutStart, SynchronizeMain, ConvergeMetadata, DeleteLocalBranch,
         VerifyRemoteTip, DeleteRemoteBranch, StopCloseout, spent
    <3>5. QED
      BY <3>1, <3>2, <3>3, <3>4 DEF Next, LckNext
  <2>4. QED
    BY <2>2, <2>3, NotLockedNext
<1>3. NotLocked(op) => NoLockedSession
  BY DEF NotLocked, NoLockedSession, Idle
<1>4. QED
  BY <1>1, <1>2, <1>3, Typing, PTL DEF Spec

-----------------------------------------------------------------------------
\* Closeout works with the head that was merged; while nobody else pushes, the branch it is
\* about to delete is there, or gone.
DeleteInv ==
    /\ op.name = "closeout" => op.head = merged.head
    /\ At("closeout", "delete") /\ foreign = 0 => remote \in {NoCommit, merged.head}

\* Every step of the Task keeps this: the merge is final, and the tip was verified.
LEMMA DeleteNext == Typed /\ PrInv /\ DeleteInv /\ [Next]_vars => DeleteInv'
<1> SUFFICES ASSUME Typed, PrInv, DeleteInv, [Next]_vars PROVE DeleteInv'
  OBVIOUS
<1>0. op \in Ops /\ foreign \in Nat /\ (op.name = "closeout" => pr = "merged") /\ Idle.name = "idle"
  BY IdleName DEF Typed, Knows, HistoryOK, PrInv, Relies
<1>1. CASE Environment
  <2>1. CASE ForeignPush
    <3>1. UNCHANGED <<op, merged>> /\ foreign' # 0
      BY <1>0, <2>1 DEF ForeignPush
    <3>2. QED
      BY <3>1 DEF DeleteInv
  <2>2. CASE HumanMerge
    <3>1. op.name # "closeout" /\ op' = op
      BY <1>0, <2>2 DEF HumanMerge
    <3>2. QED
      BY <3>1 DEF DeleteInv, At
  <2>3. CASE Environment /\ ~ForeignPush /\ ~HumanMerge
    <3>1. UNCHANGED <<remote, merged, foreign>> /\ (op' = op \/ op'.name = "idle")
      BY <1>0, <2>3 DEF Environment, MainAdvances, ContractEdited, DeveloperEdit, DeveloperCommit,
         DeveloperSync, Crash, github, spent
    <3>2. QED
      BY <3>1 DEF DeleteInv, At
  <2>4. QED
    BY <1>1, <2>1, <2>2, <2>3
<1>2. CASE DeliveryNext \/ RemediationNext \/ ReviewNext \/ RefreshNext
  <2>1. op'.name # "closeout"
    BY <1>2, DeliveryName, RemediationName, ReviewName, RefreshName DEF Pipeline
  <2>2. QED
    BY <2>1 DEF DeleteInv, At
<1>3. CASE CloseoutNext
  <2>1. UNCHANGED <<merged, foreign>>
    BY <1>3 DEF CloseoutNext, CloseoutStart, SynchronizeMain, ConvergeMetadata, DeleteLocalBranch,
       VerifyRemoteTip, DeleteRemoteBranch, StopCloseout, github, spent
  <2>2. CASE CloseoutStart
    <3>1. op'.head = merged.head /\ op'.step = "sync"
      BY <2>2 DEF CloseoutStart, Begin
    <3>2. QED
      BY <2>1, <3>1 DEF DeleteInv, At
  <2>3. CASE SynchronizeMain \/ ConvergeMetadata \/ DeleteLocalBranch
    <3>1. op.name = "closeout" /\ (op'.name = "idle" \/ (op'.head = op.head /\ op'.step # "delete"))
      BY <1>0, <2>3 DEF SynchronizeMain, ConvergeMetadata, DeleteLocalBranch, At, Goto, Ops
    <3>2. QED
      BY <2>1, <3>1 DEF DeleteInv, At
  <2>4. CASE VerifyRemoteTip
    <3>1. /\ op.name = "closeout" /\ remote' = remote
          /\ op'.name = "idle" \/ (op'.head = op.head /\ remote = op.head)
      BY <1>0, <2>4 DEF VerifyRemoteTip, At, Goto, Ops, github
    <3>2. QED
      BY <2>1, <3>1 DEF DeleteInv, At
  <2>5. CASE DeleteRemoteBranch \/ StopCloseout
    <3>1. op'.name = "idle"
      BY <1>0, <2>5 DEF DeleteRemoteBranch, StopCloseout
    <3>2. QED
      BY <3>1 DEF DeleteInv, At
  <2>6. QED
    BY <1>3, <2>2, <2>3, <2>4, <2>5 DEF CloseoutNext
<1>4. CASE UNCHANGED vars
  BY <1>4 DEF vars, github, spent, DeleteInv, At
<1>5. QED
  BY <1>1, <1>2, <1>3, <1>4 DEF Next, LckNext

\* Only Closeout takes the branch away: every push puts a commit on it.
LEMMA OnlyCloseoutDeletes ==
    ASSUME Typed, GraphInv, PrInv, [Next]_vars, remote # NoCommit, remote' = NoCommit
    PROVE  DeleteRemoteBranch
<1>0. /\ op.name \in Pipeline /\ op.step = "push" => op.head # NoCommit
      /\ op.name = "refresh" => op.start # NoCommit
      /\ op.name = "refresh" /\ op.step = "push" => op.head # NoCommit
      /\ made \in Nat /\ NoCommit = 0
  BY HeadsMade DEF PrInv, Relies, GraphInv, MadeSoFar, OpMade, NoCommit
<1>1. ~Environment /\ ~UNCHANGED vars
  BY <1>0 DEF vars, Environment, MainAdvances, ContractEdited, ForeignPush, New, HumanMerge,
     DeveloperEdit, DeveloperCommit, DeveloperSync, Crash, github
<1>2. ~DeliveryNext
  BY <1>0 DEF DeliveryNext, DeliverPrepare, DeliverStart, ValidateCandidate, CommitCandidate,
     RecordCandidate, AlreadySynced, PushCandidate, PipelineAt, ConfirmPush, EnsureOpenPr, VerifyPr,
     SetReviewStatus, VerifyLocalCompletion, StopPipeline, github
<1>3. ~RemediationNext
  BY DEF RemediationNext, PrepareRepairStart, NoChangeReceipt, RepairStart, PrepareRepairWrite,
     StopPrepareRepair, RaiseBoundary, ReleaseSession, github
<1>4. ~ReviewNext
  BY DEF ReviewNext, PrepareReviewBegin, PrepareReviewRecover, PrepareReviewClone,
     PrepareReviewValidate, PrepareReviewGuard, PrepareReviewHandoff, StopPrepareReview,
     CompleteReviewStart, CompleteReviewStale, WriteRecord, WriteLatest, ClearRequired, RemoveClone,
     DropGuard, ReleaseMarker, MergePreflight, github
<1>5. ~RefreshNext
  BY <1>0 DEF RefreshNext, RefreshStart, RebaseCandidate, ValidateRebased, VerifyPrePush, FenceRefresh,
     PushExactLease, PushNotLanded, VerifyFinal, FinalNotProven, Compensate, CompensationUnproven,
     CompensationDrift, StopBeforeFence, RestoreBoundary, RestoreHead, At, github
<1>6. CloseoutNext => DeleteRemoteBranch
  BY DEF CloseoutNext, CloseoutStart, SynchronizeMain, ConvergeMetadata, DeleteLocalBranch,
     VerifyRemoteTip, StopCloseout, github
<1>7. QED
  BY <1>1, <1>2, <1>3, <1>4, <1>5, <1>6 DEF Next, LckNext

\* Closeout deletes another head than the merged one only when another writer pushed to the
\* branch: what lifecycle.md says of it holds as long as LCK and its developer are alone.
THEOREM DeletesOnlyProvenHeadAlone ==
    Spec => [][foreign = 0 /\ remote # NoCommit /\ remote' = NoCommit => remote = merged.head]_vars
<1>1. Init => GraphInv /\ PrInv /\ DeleteInv
  BY GraphInit, PrInit, IdleName DEF Init, DeleteInv, At
<1>2. Typed /\ GraphInv /\ PrInv /\ DeleteInv /\ [Next]_vars => (GraphInv /\ PrInv /\ DeleteInv)'
  BY GraphNext, PrNext, DeleteNext
<1>3. Typed /\ GraphInv /\ PrInv /\ DeleteInv /\ [Next]_vars
        => [foreign = 0 /\ remote # NoCommit /\ remote' = NoCommit => remote = merged.head]_vars
  BY OnlyCloseoutDeletes DEF DeleteRemoteBranch, DeleteInv
<1>4. QED
  BY <1>1, <1>2, <1>3, Typing, PTL DEF Spec
=============================================================================
