--------------------------- MODULE EvidenceProofs ---------------------------
(***************************************************************************)
(* Theorems about the research jobs, for any number of jobs, any roots,    *)
(* sources, agendas and retries: artifacts, runs, manifests and the record *)
(* are whole whatever the jobs do to each other.                           *)
(***************************************************************************)
EXTENDS Evidence, SequenceTheorems, TLAPS

(* Where a job can be, by the command it runs. *)
AdmissionPcs == {"capture", "contract", "bind", "new_roots", "mkdir_run", "mkdir_evidence",
                 "freeze"}
ClaimingPcs == {"t_bind", "t_read", "t_provenance", "t_code", "t_claim", "t_open"}
HoldingPcs == {"t_confirm", "t_pending", "t_link", "t_manifest", "t_release"}
RunningPcs == {"r_bind", "r_expected", "r_native", "r_load", "r_reread", "r_engine",
               "r_rebind", "r_reports", "r_manifest"}
VerifiedPcs == {"complete", "recheck", "recontract", "stage", "publish"}
FinalPcs == {"manifest", "bind_again", "verify"} \cup VerifiedPcs
DatasetPcs == {"m_check", "m_download", "m_verify", "m_extract", "m_replace", "f_manifest",
               "f_work"}
RebuildPcs == {"b_config", "b_sources", "b_snapshot", "b_prepare", "b_read", "b_write",
               "b_settle", "b_clear", "b_default", "b_unlink", "b_verify"}
ReleasePcs == {"p_hash", "p_archive", "p_identities"}

PcFits(w) ==
  /\ w.kind = None => w.pc \in {"idle", "ended"}
  /\ w.kind \in {"catalog", "sources", "fetch"} => w.pc \in DatasetPcs
  /\ w.kind = "rebuild" => w.pc \in RebuildPcs
  /\ w.kind \in {"release_catalog", "release_sources"} => w.pc \in ReleasePcs
  /\ w.kind = "train" => w.pc \in {"capture"} \cup ClaimingPcs \cup HoldingPcs
  /\ w.kind = "backtest" => w.pc \in {"r_mkdir"} \cup RunningPcs
  /\ w.kind = "oos" => w.pc \in AdmissionPcs \cup ClaimingPcs \cup HoldingPcs \cup {"r_mkdir"}
                                  \cup RunningPcs \cup FinalPcs

(* The tasks of a job: what is left of the plan of its command. *)
Trainings == {Training(f) : f \in FoldIds}
Tasks == Trainings \cup RunKeys
TasksFit(w) ==
  /\ w.kind \in {"train", "backtest", "oos"} => w.root \in Roots
  /\ w.kind = "train" => \E f \in FoldIds : w.tasks = <<Training(f)>>
  /\ w.kind = "backtest" => \E s \in {"momentum", "lightgbm"} : w.tasks = <<SingleRun(s)>>
  /\ w.kind = "oos" => /\ w.tasks \in Seq(Trainings \cup RunSet)
                       /\ w.pc \in AdmissionPcs => w.tasks = EvaluationPlan
                       /\ w.pc \in FinalPcs => w.tasks = <<>>
  /\ w.pc \in ClaimingPcs \cup HoldingPcs => w.tasks # <<>> /\ Head(w.tasks) \in Trainings
  /\ w.pc \in {"r_mkdir"} \cup RunningPcs => w.tasks # <<>> /\ Head(w.tasks) \in RunKeys

(* What a job has prepared in private before it is renamed into place. *)
SourceStates == {"none", "sum", "torn", "locked", "other"}
CandTypes == {None} \cup [{"archive"} -> {"locked", "other"}] \cup [Sources -> SourceStates]
             \cup [CatalogFiles -> Contents] \cup [RawFiles -> Contents]
CandFits(w) ==
  /\ w.kind \in {"catalog", "sources"} /\ w.pc \in {"m_verify", "m_extract", "m_replace"}
       => /\ w.cand \in [{"archive"} -> {"locked", "other"}]
          /\ w.pc # "m_verify" => w.cand["archive"] = "locked"
  /\ w.kind = "fetch" => /\ w.cand \in [Sources -> SourceStates]
                         /\ w.pc = "m_replace" => \A s \in Sources : w.cand[s] = "locked"
                         /\ w.pc \notin {"m_download", "m_verify", "m_extract"}
  /\ w.kind = "rebuild" /\ w.pc \in {"b_write", "b_settle"} => w.n \in 1..3

SeenTypes == {None, "locked", "other", "parity", "differs"}
             \cup [CatalogFiles -> Contents] \cup [RawFiles -> Contents]
JobType ==
  [kind : Kinds \cup {None}, pc : Commands, root : Roots \cup {None}, tasks : Seq(Tasks),
   sha : Nat, commit : {0, 1}, contract : {0, 1}, code : {0, 1}, seen : SeenTypes,
   used : [FoldIds -> Manifests \cup {None}], cand : CandTypes, todo : SUBSET CatalogFiles,
   n : Nat, failed : BOOLEAN, reads : {"locked", "other"}, disturbed : BOOLEAN, edits : Nat]
PartType == [claim : Jobs \cup {None}, pending : BOOLEAN, model : Jobs \cup {None},
             manifest : Manifests \cup {None}]
RunType == [made : BOOLEAN, files : SUBSET Outputs]
RootFiles == {"run_root", "evidence_root", "parameters", "manifest"}
RepoType == [sha : Nat, head : {0, 1}, work : {0, 1}, tracked : BOOLEAN, stray : SUBSET Jobs]

StoreType ==
  /\ catalog \in [CatalogFiles -> Contents]
  /\ raw \in [RawFiles -> Contents]
  /\ parts \in [Roots \X FoldIds -> PartType]
  /\ runs \in [Roots \X RunKeys -> RunType]
  /\ roots \in [Roots -> SUBSET RootFiles]
  /\ repo \in RepoType
  /\ record \in Records \cup {None}

Fits(w) == w \in JobType /\ PcFits(w) /\ TasksFit(w) /\ CandFits(w)
JobsFit == job \in [Jobs -> JobType] /\ \A j \in Jobs : Fits(job[j])

-----------------------------------------------------------------------------
(* What a job in the middle of its task owns. *)

TaskPart(w) == parts[<<w.root, Head(w.tasks).fold>>]
HoldsClaim(w, j) ==
  w.pc \in HoldingPcs =>
    /\ TaskPart(w).claim = j
    /\ w.pc \in {"t_manifest", "t_release"} => TaskPart(w).model # None
    /\ w.pc = "t_release" => /\ TaskPart(w).manifest # None
                             /\ TaskPart(w).manifest.sha = w.sha
                             /\ TaskPart(w).manifest.code = w.code

TaskRun(w) == runs[<<w.root, Head(w.tasks)>>]
HoldsRun(w) == w.pc \in RunningPcs =>
                 TaskRun(w).made /\ (w.pc = "r_manifest" => "reports" \in TaskRun(w).files)
RunsApart ==
  \A j, k \in Jobs : j # k /\ job[j].pc \in RunningPcs /\ job[k].pc \in RunningPcs
    => <<job[j].root, Head(job[j].tasks)>> # <<job[k].root, Head(job[k].tasks)>>

(* What a rebuild has left behind it is complete. *)
ToDo(w) == {w.tasks[k] : k \in DOMAIN w.tasks}
Trained(w) == {f \in FoldIds : Training(f) \notin ToDo(w)}
Progress(w) ==
  w.kind = "oos" =>
    /\ \A t \in RunSet \ ToDo(w) : runs[<<w.root, t>>].files = Outputs
    /\ \A f \in Trained(w) : /\ parts[<<w.root, f>>].manifest # None
                             /\ parts[<<w.root, f>>].manifest.sha = w.sha

(* The evaluation that was verified and its manifests. *)
Complete(r, used) == Backs(r, used) /\ \A f \in FoldIds : used[f] # None
Verified(w) == w.pc \in VerifiedPcs => Complete(w.root, w.used)

ReportsFirst ==
  \A k \in Roots \X RunKeys : "manifest" \in runs[k].files => "reports" \in runs[k].files
ManifestMeansAll ==
  \A r \in Roots : "manifest" \in roots[r]
    => /\ \A t \in RunSet : runs[<<r, t>>].files = Outputs
       /\ \A f \in FoldIds : parts[<<r, f>>].manifest # None
RecordComplete == record # None => Complete(record.root, record.used)

JobSound(w, j) == HoldsClaim(w, j) /\ HoldsRun(w) /\ Progress(w) /\ Verified(w)
StoreInv == ReportsFirst /\ ManifestMeansAll /\ RecordComplete /\ RunsApart
PublishInv ==
  /\ StoreType /\ JobsFit /\ StoreInv
  /\ \A j \in Jobs : JobSound(job[j], j)

-----------------------------------------------------------------------------
(* Tasks and kinds. *)

(* The runs of the matrix. *)
LEMMA Matrix ==
  RunSet = {Task("validation", "momentum", "base"), Task("validation", "lightgbm", "base"),
            Task("final", "momentum", "base"), Task("final", "lightgbm", "base"),
            Task("final", "momentum", "fees"), Task("final", "lightgbm", "fees")}
<1>1. DOMAIN EvaluationRuns = 1..6
  BY DEF EvaluationRuns
<1>2. RunSet = {EvaluationRuns[1], EvaluationRuns[2], EvaluationRuns[3], EvaluationRuns[4],
                EvaluationRuns[5], EvaluationRuns[6]}
  BY <1>1 DEF RunSet
<1>3. QED
  BY <1>2 DEF EvaluationRuns

(* The plan is made of trainings and runs of the matrix, all of them.        *)
LEMMA PlanIsComplete ==
  /\ EvaluationPlan \in Seq(Trainings \cup RunSet) /\ EvaluationPlan # <<>>
  /\ Head(EvaluationPlan) \in Trainings
  /\ \A t \in Trainings \cup RunSet : \E k \in DOMAIN EvaluationPlan : EvaluationPlan[k] = t
<1>1. /\ Len(EvaluationRuns) = 6 /\ EvaluationRuns \in Seq(RunSet)
      /\ \A t \in RunSet : \E k \in 1..6 : EvaluationRuns[k] = t
  <2>1. /\ DOMAIN EvaluationRuns = 1..6 /\ Len(EvaluationRuns) = 6
        /\ EvaluationRuns = [k \in 1..6 |-> EvaluationRuns[k]]
    BY DEF EvaluationRuns
  <2>2. \A k \in 1..6 : EvaluationRuns[k] \in RunSet
    BY <2>1 DEF RunSet
  <2>3. QED
    BY <2>1, <2>2 DEF RunSet
<1>2. DEFINE first == <<Training("validation"), Training("final")>>
<1>3. first \in Seq(Trainings) /\ Len(first) = 2
  BY DEF Trainings, FoldIds
<1>4. /\ EvaluationPlan \in Seq(Trainings \cup RunSet) /\ Len(EvaluationPlan) = 8
      /\ EvaluationPlan[1] = Training("validation") /\ EvaluationPlan[2] = Training("final")
      /\ \A k \in 1..6 : EvaluationPlan[k + 2] = EvaluationRuns[k]
  <2>1. first \in Seq(Trainings \cup RunSet) /\ EvaluationRuns \in Seq(Trainings \cup RunSet)
    BY <1>1, <1>3
  <2>2. EvaluationPlan = first \o EvaluationRuns
    BY DEF EvaluationPlan
  <2>3. first[1] = Training("validation") /\ first[2] = Training("final")
    OBVIOUS
  <2>4. /\ EvaluationPlan \in Seq(Trainings \cup RunSet) /\ Len(EvaluationPlan) = 8
        /\ \A k \in 1..8 : EvaluationPlan[k] = IF k <= 2 THEN first[k] ELSE EvaluationRuns[k - 2]
    <3> HIDE DEF first
    <3>1. /\ first \o EvaluationRuns \in Seq(Trainings \cup RunSet)
          /\ Len(first \o EvaluationRuns) = Len(first) + Len(EvaluationRuns)
          /\ \A k \in 1..(Len(first) + Len(EvaluationRuns)) :
               (first \o EvaluationRuns)[k] = IF k <= Len(first) THEN first[k]
                                              ELSE EvaluationRuns[k - Len(first)]
      BY <2>1, ConcatProperties
    <3>2. Len(first) = 2 /\ Len(EvaluationRuns) = 6
      BY <1>1, <1>3
    <3>3. QED
      BY <2>2, <3>1, <3>2, SMTT(30)
  <2>5. QED
    BY <2>3, <2>4
<1>5. Trainings = {Training("validation"), Training("final")}
  BY DEF Trainings, FoldIds
<1>6. DOMAIN EvaluationPlan = 1..8 /\ Head(EvaluationPlan) = EvaluationPlan[1]
  BY <1>4
<1>7. ASSUME NEW t \in RunSet PROVE \E k \in DOMAIN EvaluationPlan : EvaluationPlan[k] = t
  <2>1. PICK k \in 1..6 : EvaluationRuns[k] = t
    BY <1>1
  <2>2. EvaluationPlan[k + 2] = t /\ k + 2 \in 1..8
    BY <2>1, <1>4
  <2>3. QED
    BY <2>2, <1>6
<1>8. ASSUME NEW t \in Trainings PROVE \E k \in DOMAIN EvaluationPlan : EvaluationPlan[k] = t
  <2>1. 1 \in DOMAIN EvaluationPlan /\ 2 \in DOMAIN EvaluationPlan
    BY <1>6
  <2>2. QED
    BY <2>1, <1>4, <1>5
<1>9. EvaluationPlan # <<>> /\ Head(EvaluationPlan) \in Trainings
  <2>1. Len(EvaluationPlan) # 0 /\ Len(<<>>) = 0
    BY <1>4
  <2>2. EvaluationPlan[1] \in Trainings
    BY <1>4, <1>5
  <2>3. QED
    BY <2>1, <2>2, <1>6
<1>10. QED
  BY <1>4, <1>7, <1>8, <1>9

(* A training names its fold, and no run is one. *)
LEMMA TaskKinds ==
  /\ \A t \in Trainings : t.strategy = "train" /\ t.fold \in FoldIds /\ t = Training(t.fold)
  /\ \A t \in RunKeys : t.strategy # "train" /\ t.fold \in FoldIds
  /\ RunSet \subseteq RunKeys /\ Trainings \cap RunKeys = {}
<1>1. RunSet \subseteq RunKeys
  BY DEF RunKeys
<1>2. \A t \in Trainings : t.strategy = "train" /\ t.fold \in FoldIds /\ t = Training(t.fold)
  BY DEF Trainings, Training, Task
<1>3. \A t \in RunKeys : t.strategy # "train" /\ t.fold \in FoldIds
  BY Matrix DEF RunKeys, SingleRun, Task, FoldIds
<1>4. QED
  BY <1>1, <1>2, <1>3

(* Where a job is tells which command it runs. *)
LEMMA KindOfPc ==
  ASSUME NEW w \in JobType, PcFits(w)
  PROVE  /\ w.pc \in {"idle", "ended"} => w.kind = None
         /\ w.pc \in RebuildPcs => w.kind = "rebuild"
         /\ w.pc \in DatasetPcs => w.kind \in {"catalog", "sources", "fetch"}
         /\ w.pc \in ReleasePcs => w.kind \in {"release_catalog", "release_sources"}
         /\ w.pc \in FinalPcs \cup (AdmissionPcs \ {"capture"}) => w.kind = "oos"
         /\ w.pc \in {"capture"} \cup ClaimingPcs \cup HoldingPcs => w.kind \in {"train", "oos"}
         /\ w.pc \in {"r_mkdir"} \cup RunningPcs => w.kind \in {"backtest", "oos"}
BY DEF JobType, PcFits, Kinds, AdmissionPcs, ClaimingPcs, HoldingPcs, RunningPcs, FinalPcs,
       VerifiedPcs, DatasetPcs, RebuildPcs, ReleasePcs

(* A job that has ended has nothing. *)
LEMMA EndedFits == Fits(Ended) /\ Ended.kind = None /\ Ended.pc = "ended"
<1>1. Ended \in JobType /\ Ended.kind = None /\ Ended.pc = "ended"
  <2>1. <<>> \in Seq(Tasks) /\ [f \in FoldIds |-> None] \in [FoldIds -> Manifests \cup {None}]
    OBVIOUS
  <2>2. QED
    BY <2>1 DEF Ended, IdleJob, JobType, Commands, CandTypes, SeenTypes
<1>2. QED
  BY <1>1, NoneAssumption DEF Fits, PcFits, TasksFit, CandFits, Kinds, AdmissionPcs, ClaimingPcs, HoldingPcs, RunningPcs, FinalPcs,
         VerifiedPcs

(* Nothing is left of a sequence that is done, and its tail has the rest.    *)
LEMMA RestOfTasks ==
  ASSUME NEW S, NEW s \in Seq(S), s # <<>>
  PROVE  /\ Head(s) \in S /\ Tail(s) \in Seq(S)
         /\ \A k \in DOMAIN s : s[k] = Head(s) \/ \E m \in DOMAIN Tail(s) : Tail(s)[m] = s[k]
         /\ Len(s) = 1 => Tail(s) = <<>>
<1>1. /\ Head(s) \in S /\ Tail(s) \in Seq(S) /\ Len(Tail(s)) = Len(s) - 1
      /\ \A i \in 1..Len(Tail(s)) : Tail(s)[i] = s[i + 1]
  BY HeadTailProperties
<1>2. Head(s) = s[1] /\ DOMAIN s = 1..Len(s) /\ DOMAIN Tail(s) = 1..Len(Tail(s)) /\ Len(s) \in Nat
  BY <1>1
<1>3. ASSUME NEW k \in DOMAIN s, k # 1 PROVE \E m \in DOMAIN Tail(s) : Tail(s)[m] = s[k]
  <2>1. k - 1 \in 1..Len(Tail(s)) /\ (k - 1) + 1 = k
    BY <1>1, <1>2, <1>3
  <2>2. Tail(s)[k - 1] = s[k]
    BY <2>1, <1>1
  <2>3. QED
    BY <2>1, <2>2, <1>2
<1>4. Len(s) = 1 => Tail(s) = <<>>
  <2>1. Len(s) = 1 => Len(Tail(s)) \notin Nat \ {0}
    BY <1>1
  <2>2. Tail(s) # <<>> => Len(Tail(s)) \in Nat \ {0}
    BY <1>1, EmptySeq
  <2>3. QED
    BY <2>1, <2>2
<1>5. QED
  BY <1>1, <1>2, <1>3, <1>4

-----------------------------------------------------------------------------
(* A step of one job, seen by the others. *)

Becomes(j, v) == job' = [job EXCEPT ![j] = v]
Alike(w, v) ==
  /\ v.kind = w.kind /\ v.pc = w.pc /\ v.root = w.root /\ v.tasks = w.tasks
  /\ v.sha = w.sha /\ v.code = w.code /\ v.used = w.used /\ v.cand = w.cand /\ v.n = w.n
Others(j) == job' \in [Jobs -> JobType] /\ \A k \in Jobs \ {j} : Alike(job[k], job'[k])

(* Files that are there stay as they are; only its owner takes a claim or a  *)
(* run partition away.                                                       *)
PartGrows(p, q, j) ==
  /\ p.manifest # None => q.manifest = p.manifest
  /\ p.model # None => q.model = p.model
  /\ p.claim \in Jobs \ {j} => q.claim = p.claim
OwnRun(w) == <<w.root, Head(w.tasks)>>
RunGrows(k, j) ==
  /\ runs[k].files \subseteq runs'[k].files
  /\ runs[k].made => runs'[k].made \/ (job[j].pc \in RunningPcs /\ k = OwnRun(job[j]))
Grows(j) ==
  /\ \A p \in Roots \X FoldIds : PartGrows(parts[p], parts'[p], j)
  /\ \A k \in Roots \X RunKeys : RunGrows(k, j)
  /\ \A r \in Roots : roots[r] \subseteq roots'[r]

(* Where a task puts its files. *)
LEMMA TaskPlace ==
  ASSUME NEW w, Fits(w)
  PROVE  /\ w.pc \in ClaimingPcs \cup HoldingPcs
              => <<w.root, Head(w.tasks).fold>> \in Roots \X FoldIds
         /\ w.pc \in {"r_mkdir"} \cup RunningPcs => OwnRun(w) \in Roots \X RunKeys
         /\ w.kind = "oos" => w.root \in Roots
<1>1. w.pc \in {"r_mkdir"} \cup RunningPcs \cup ClaimingPcs \cup HoldingPcs => w.root \in Roots
  BY KindOfPc DEF Fits, TasksFit
<1>2. QED
  BY <1>1, TaskKinds DEF Fits, TasksFit, OwnRun

(* The evaluation a rebuild has verified stays complete. *)
LEMMA CompleteStays ==
  ASSUME StoreType, StoreType', NEW j, Grows(j), NEW r \in Roots, NEW used, Complete(r, used)
  PROVE  Complete(r, used)'
<1>1. {"parameters", "manifest"} \subseteq roots'[r]
  BY DEF Complete, Backs, Grows
<1>2. ASSUME NEW t \in RunSet PROVE runs'[<<r, t>>].files = Outputs
  <2>1. <<r, t>> \in Roots \X RunKeys
    BY TaskKinds
  <2>2. runs[<<r, t>>].files = Outputs /\ runs'[<<r, t>>] \in RunType
    BY <2>1 DEF Complete, Backs, StoreType
  <2>3. QED
    BY <2>1, <2>2 DEF Grows, RunGrows, RunType
<1>3. ASSUME NEW f \in FoldIds
      PROVE  parts'[<<r, f>>].manifest = used[f] /\ parts'[<<r, f>>].model = used[f].model
  <2>1. parts[<<r, f>>].manifest = used[f] /\ parts[<<r, f>>].model = used[f].model /\ used[f] # None
    BY DEF Complete, Backs
  <2>2. parts[<<r, f>>] \in PartType
    BY DEF StoreType
  <2>3. used[f] \in Manifests
    BY <2>1, <2>2 DEF PartType
  <2>4. used[f].model # None
    BY <2>3, NoneAssumption DEF Manifests
  <2>5. QED
    BY <2>1, <2>4 DEF Grows, PartGrows
<1>4. QED
  BY <1>1, <1>2, <1>3 DEF Complete, Backs

(* Another job's step leaves a job what it holds and what it has done. *)
LEMMA OthersSound ==
  ASSUME StoreType, StoreType', JobsFit, RunsApart, NEW j \in Jobs, Others(j), Grows(j),
         NEW k \in Jobs, k # j, JobSound(job[k], k)
  PROVE  Fits(job'[k]) /\ JobSound(job[k], k)'
<1> DEFINE w == job[k]  v == job'[k]
<1>1. Fits(w) /\ v \in JobType /\ Alike(w, v)
  BY DEF JobsFit, Others
<1>2. Fits(v)
  BY <1>1 DEF Fits, PcFits, TasksFit, CandFits, Alike
<1>3. HoldsClaim(job[k], k)'
  <2> SUFFICES ASSUME w.pc \in HoldingPcs PROVE HoldsClaim(job[k], k)'
    BY <1>1 DEF HoldsClaim, Alike
  <2> DEFINE p == <<w.root, Head(w.tasks).fold>>
  <2>1. p \in Roots \X FoldIds
    BY <1>1, TaskPlace
  <2>2. /\ parts[p].claim = k
        /\ w.pc \in {"t_manifest", "t_release"} => parts[p].model # None
        /\ w.pc = "t_release" => /\ parts[p].manifest # None
                                 /\ parts[p].manifest.sha = w.sha
                                 /\ parts[p].manifest.code = w.code
    BY DEF JobSound, HoldsClaim, TaskPart
  <2>3. PartGrows(parts[p], parts'[p], j)
    BY <2>1 DEF Grows
  <2>4. /\ parts'[p].claim = k
        /\ w.pc \in {"t_manifest", "t_release"} => parts'[p].model # None
        /\ w.pc = "t_release" => parts'[p].manifest = parts[p].manifest
    BY <2>2, <2>3 DEF PartGrows
  <2>5. QED
    BY <1>1, <2>2, <2>4 DEF HoldsClaim, TaskPart, Alike
<1>4. HoldsRun(job[k])'
  <2> SUFFICES ASSUME w.pc \in RunningPcs PROVE HoldsRun(job[k])'
    BY <1>1 DEF HoldsRun, Alike
  <2>1. OwnRun(w) \in Roots \X RunKeys
    BY <1>1, TaskPlace
  <2>2. runs[OwnRun(w)].made /\ (w.pc = "r_manifest" => "reports" \in runs[OwnRun(w)].files)
    BY DEF JobSound, HoldsRun, TaskRun, OwnRun
  <2>3. RunGrows(OwnRun(w), j)
    BY <2>1 DEF Grows
  <2>4. ~(job[j].pc \in RunningPcs /\ OwnRun(w) = OwnRun(job[j]))
    BY DEF RunsApart, OwnRun
  <2>5. runs'[OwnRun(w)].made /\ (w.pc = "r_manifest" => "reports" \in runs'[OwnRun(w)].files)
    BY <2>2, <2>3, <2>4 DEF RunGrows
  <2>6. QED
    BY <1>1, <2>5 DEF HoldsRun, TaskRun, OwnRun, Alike
<1>5. Progress(job[k])'
  <2> SUFFICES ASSUME w.kind = "oos" PROVE Progress(job[k])'
    BY <1>1 DEF Progress, Alike
  <2>1. w.root \in Roots /\ v.root = w.root /\ ToDo(v) = ToDo(w) /\ Trained(v) = Trained(w)
    BY <1>1, TaskPlace DEF Alike, ToDo, Trained
  <2>2. ASSUME NEW t \in RunSet \ ToDo(w) PROVE runs'[<<w.root, t>>].files = Outputs
    <3>1. <<w.root, t>> \in Roots \X RunKeys
      BY <2>1, TaskKinds
    <3>2. runs[<<w.root, t>>].files = Outputs
      BY DEF JobSound, Progress
    <3>3. runs'[<<w.root, t>>] \in RunType /\ RunGrows(<<w.root, t>>, j)
      BY <3>1 DEF StoreType, Grows
    <3>4. QED
      BY <3>2, <3>3 DEF RunGrows, RunType
  <2>3. ASSUME NEW f \in Trained(w)
        PROVE  parts'[<<w.root, f>>].manifest # None /\ parts'[<<w.root, f>>].manifest.sha = w.sha
    <3>1. <<w.root, f>> \in Roots \X FoldIds
      BY <2>1 DEF Trained
    <3>2. parts[<<w.root, f>>].manifest # None /\ parts[<<w.root, f>>].manifest.sha = w.sha
      BY DEF JobSound, Progress
    <3>3. QED
      BY <3>1, <3>2 DEF Grows, PartGrows
  <2>4. QED
    BY <1>1, <2>1, <2>2, <2>3 DEF Progress, Alike
<1>6. Verified(job[k])'
  <2> SUFFICES ASSUME w.pc \in VerifiedPcs PROVE Verified(job[k])'
    BY <1>1 DEF Verified, Alike
  <2>1. w.root \in Roots /\ Complete(w.root, w.used)
    BY <1>1, KindOfPc, TaskPlace DEF Fits, FinalPcs, JobSound, Verified
  <2>2. PICK r, u : r \in Roots /\ r = w.root /\ u = w.used
    BY <2>1
  <2>3. Complete(r, u)'
    BY <2>1, <2>2, CompleteStays
  <2>4. QED
    BY <1>1, <2>2, <2>3 DEF Verified, Alike
<1>7. QED
  BY <1>2, <1>3, <1>4, <1>5, <1>6 DEF JobSound

(* What a step of one job has to show for the whole. *)
LEMMA StepComposed ==
  ASSUME PublishInv, NEW j \in Jobs, StoreType', Others(j), Grows(j), Fits(job'[j]),
         JobSound(job[j], j)', ReportsFirst', ManifestMeansAll', RecordComplete',
         job'[j].pc \in RunningPcs
           => \/ job[j].pc \in RunningPcs /\ OwnRun(job'[j]) = OwnRun(job[j])
              \/ ~runs[OwnRun(job'[j])].made
  PROVE  PublishInv'
<1>1. StoreType /\ JobsFit /\ RunsApart /\ \A k \in Jobs : JobSound(job[k], k)
  BY DEF PublishInv, StoreInv
<1>2. ASSUME NEW k \in Jobs, k # j PROVE Fits(job'[k]) /\ JobSound(job[k], k)'
  BY <1>1, <1>2, OthersSound
<1>3. JobsFit'
  BY <1>2 DEF JobsFit, Others
<1>4. \A k \in Jobs : JobSound(job[k], k)'
  BY <1>2
<1>5. ASSUME NEW k \in Jobs, k # j, job'[k].pc \in RunningPcs, job'[j].pc \in RunningPcs
      PROVE  OwnRun(job'[k]) # OwnRun(job'[j])
  <2>1. job[k].pc \in RunningPcs /\ OwnRun(job'[k]) = OwnRun(job[k])
    BY <1>5 DEF Others, Alike, OwnRun
  <2>2. runs[OwnRun(job[k])].made
    BY <1>1, <2>1 DEF JobSound, HoldsRun, TaskRun, OwnRun
  <2>3. job[j].pc \in RunningPcs => OwnRun(job[k]) # OwnRun(job[j])
    BY <1>1, <1>5, <2>1 DEF RunsApart, OwnRun
  <2>4. QED
    BY <1>5, <2>1, <2>2, <2>3
<1>6. RunsApart'
  <2> SUFFICES ASSUME NEW k \in Jobs, NEW m \in Jobs, k # m, job'[k].pc \in RunningPcs,
                      job'[m].pc \in RunningPcs
               PROVE  OwnRun(job'[k]) # OwnRun(job'[m])
    BY DEF RunsApart, OwnRun
  <2>1. CASE k # j /\ m # j
    <3>1. /\ job[k].pc \in RunningPcs /\ OwnRun(job'[k]) = OwnRun(job[k])
          /\ job[m].pc \in RunningPcs /\ OwnRun(job'[m]) = OwnRun(job[m])
      BY <2>1 DEF Others, Alike, OwnRun
    <3>2. QED
      BY <1>1, <3>1 DEF RunsApart, OwnRun
  <2>2. QED
    BY <1>5, <2>1
<1>7. QED
  BY <1>3, <1>4, <1>6 DEF PublishInv, StoreInv

(* The record stays backed while another one is not written. *)
LEMMA RecordStays ==
  ASSUME StoreType, StoreType', NEW j, Grows(j), RecordComplete, UNCHANGED record
  PROVE  RecordComplete'
<1> SUFFICES ASSUME record # None PROVE Complete(record.root, record.used)'
  BY DEF RecordComplete
<1>1. PICK r, u : r \in Roots /\ r = record.root /\ u = record.used
  BY DEF StoreType, Records
<1>2. Complete(r, u)'
  BY <1>1, CompleteStays DEF RecordComplete
<1>3. QED
  BY <1>1, <1>2

(* A manifest of an evaluation stays true. *)
LEMMA ManifestsStay ==
  ASSUME StoreType, StoreType', NEW j, Grows(j), ManifestMeansAll, NEW r \in Roots,
         "manifest" \in roots[r]
  PROVE  /\ \A t \in RunSet : runs'[<<r, t>>].files = Outputs
         /\ \A f \in FoldIds : parts'[<<r, f>>].manifest # None
<1>1. ASSUME NEW t \in RunSet PROVE runs'[<<r, t>>].files = Outputs
  <2>1. <<r, t>> \in Roots \X RunKeys
    BY TaskKinds
  <2>2. runs[<<r, t>>].files = Outputs /\ runs'[<<r, t>>] \in RunType
    BY <2>1 DEF ManifestMeansAll, StoreType
  <2>3. QED
    BY <2>1, <2>2 DEF Grows, RunGrows, RunType
<1>2. ASSUME NEW f \in FoldIds PROVE parts'[<<r, f>>].manifest # None
  BY DEF ManifestMeansAll, Grows, PartGrows
<1>3. QED
  BY <1>1, <1>2

(* A step that leaves the partitions alone. *)
FirstPcs == {"m_check", "f_manifest", "b_config", "p_hash", "capture", "r_mkdir"}
Fresh(v) == v.pc \in FirstPcs /\ (v.kind = "oos" => v.tasks = EvaluationPlan)
QuietStep(w, v) ==
  \/ v = Ended \/ Fresh(v)
  \/ /\ v.kind = w.kind /\ v.root = w.root /\ v.tasks = w.tasks
     /\ v.sha = w.sha \/ w.pc = "capture"
     /\ v.pc \in HoldingPcs => \/ v.pc = w.pc /\ v.sha = w.sha /\ v.code = w.code
                               \/ w.pc = "t_confirm" /\ v.pc = "t_pending"
     /\ v.pc \in RunningPcs => w.pc \in RunningPcs /\ (v.pc = "r_manifest" => w.pc = "r_manifest")
     /\ v.pc \in VerifiedPcs => \/ w.pc \in VerifiedPcs /\ v.used = w.used
                                \/ Complete(v.root, v.used)
RootsGrow ==
  \A r \in Roots : roots[r] \subseteq roots'[r] /\ ("manifest" \in roots'[r] => "manifest" \in roots[r])

(* Such a step keeps the evidence sound. *)
LEMMA QuietKept ==
  ASSUME PublishInv, NEW j \in Jobs, StoreType', UNCHANGED <<parts, runs, record>>, RootsGrow,
         Others(j), Fits(job'[j]), QuietStep(job[j], job'[j])
  PROVE  PublishInv'
<1> DEFINE w == job[j]  v == job'[j]
<1>1. StoreType /\ Fits(w) /\ JobSound(w, j) /\ StoreInv
  BY DEF PublishInv, JobsFit
<1>2. Grows(j)
  BY DEF Grows, PartGrows, RunGrows, RootsGrow
<1>3. RecordComplete' /\ ReportsFirst'
  BY <1>1, <1>2, RecordStays DEF StoreInv, ReportsFirst
<1>4. ManifestMeansAll'
  BY <1>1, <1>2, ManifestsStay DEF StoreInv, RootsGrow, ManifestMeansAll
<1>5. HoldsClaim(job[j], j)'
  <2>1. CASE v.pc \notin HoldingPcs
    BY <2>1 DEF HoldsClaim
  <2>2. CASE v.pc \in HoldingPcs
    <3>1. /\ v.root = w.root /\ v.tasks = w.tasks /\ w.pc \in HoldingPcs
          /\ \/ v.pc = w.pc /\ v.sha = w.sha /\ v.code = w.code
             \/ v.pc = "t_pending"
      BY <2>2, EndedFits DEF QuietStep, HoldingPcs, Fresh, FirstPcs
    <3>2. QED
      BY <1>1, <3>1 DEF JobSound, HoldsClaim, TaskPart
  <2>3. QED
    BY <2>1, <2>2
<1>6. v.pc \in RunningPcs => /\ w.pc \in RunningPcs /\ v.root = w.root /\ v.tasks = w.tasks
                             /\ v.pc = "r_manifest" => w.pc = "r_manifest"
  BY EndedFits DEF QuietStep, RunningPcs, Fresh, FirstPcs
<1>7. HoldsRun(job[j])'
  BY <1>1, <1>6 DEF JobSound, HoldsRun, TaskRun
<1>8. Progress(job[j])'
  <2> SUFFICES ASSUME v.kind = "oos" PROVE Progress(job[j])'
    BY DEF Progress
  <2>1. CASE v.tasks = EvaluationPlan
    <3>1. Trainings \cup RunSet \subseteq ToDo(v)
      BY <2>1, PlanIsComplete DEF ToDo
    <3>2. RunSet \ ToDo(v) = {} /\ Trained(v) = {}
      BY <3>1 DEF Trained, Trainings
    <3>3. QED
      BY <3>2 DEF Progress
  <2>2. CASE v.tasks # EvaluationPlan
    <3>1. /\ v.kind = w.kind /\ v.root = w.root /\ v.tasks = w.tasks
          /\ v.sha = w.sha \/ w.pc = "capture"
      BY <2>2, EndedFits, NoneAssumption DEF QuietStep, Fresh, Kinds
    <3>2. v.sha = w.sha
      BY <1>1, <2>2, <3>1 DEF Fits, TasksFit, AdmissionPcs
    <3>3. ToDo(v) = ToDo(w) /\ Trained(v) = Trained(w)
      BY <3>1 DEF ToDo, Trained
    <3>4. QED
      BY <1>1, <3>1, <3>2, <3>3 DEF JobSound, Progress
  <2>3. QED
    BY <2>1, <2>2
<1>9. Verified(job[j])'
  <2> SUFFICES ASSUME v.pc \in VerifiedPcs PROVE Verified(job[j])'
    BY DEF Verified
  <2>1. v.root = w.root /\ Complete(v.root, v.used)
    BY <1>1, EndedFits DEF QuietStep, Fresh, FirstPcs, VerifiedPcs, JobSound, Verified
  <2>2. v.root \in Roots
    BY KindOfPc, TaskPlace DEF Fits, FinalPcs
  <2>3. PICK r, u : r \in Roots /\ r = v.root /\ u = v.used
    BY <2>2
  <2>4. Complete(r, u)'
    BY <1>1, <1>2, <2>1, <2>3, CompleteStays
  <2>5. QED
    BY <2>3, <2>4 DEF Verified
<1>10. QED
  <2>1. JobSound(job[j], j)'
    BY <1>5, <1>7, <1>8, <1>9 DEF JobSound
  <2>2. v.pc \in RunningPcs => w.pc \in RunningPcs /\ OwnRun(v) = OwnRun(w)
    BY <1>6 DEF OwnRun
  <2>3. QED
    BY <1>2, <1>3, <1>4, <2>1, <2>2, StepComposed

-----------------------------------------------------------------------------
(* The steps of a job in its partitions. *)

(* What the step writes for the job is all it changes of the jobs. *)
LEMMA OneJob ==
  ASSUME JobsFit, NEW j \in Jobs, NEW v \in JobType, Becomes(j, v)
  PROVE  Others(j) /\ job'[j] = v
BY DEF JobsFit, Becomes, Others, Alike

(* Moving on changes where a job is. *)
LEMMA Moved ==
  ASSUME NEW w \in JobType, NEW q \in Commands, NEW v, v = [w EXCEPT !.pc = q]
  PROVE  /\ v \in JobType /\ v.pc = q /\ v = [w EXCEPT !.pc = v.pc]
         /\ v.kind = w.kind /\ v.root = w.root /\ v.tasks = w.tasks /\ v.sha = w.sha
         /\ v.code = w.code /\ v.used = w.used /\ v.cand = w.cand /\ v.n = w.n
<1>1. /\ v \in JobType /\ v.pc = q
      /\ v.kind = w.kind /\ v.root = w.root /\ v.tasks = w.tasks /\ v.sha = w.sha
      /\ v.code = w.code /\ v.used = w.used /\ v.cand = w.cand /\ v.n = w.n
  BY DEF JobType
<1>2. QED
  BY <1>1

(* Staying with a task keeps the job's parts together. *)
SamePlace(p, q) ==
  \E C \in {AdmissionPcs \ {"capture"}, ClaimingPcs \cup HoldingPcs, RunningPcs, FinalPcs, ReleasePcs,
            RebuildPcs \ {"b_write", "b_settle"}} : p \in C /\ q \in C
(* A job that stays at a like place fits as before. *)
LEMMA StaysFit ==
  ASSUME NEW w, Fits(w), NEW v \in JobType, v.kind = w.kind, v.root = w.root, v.tasks = w.tasks,
         SamePlace(w.pc, v.pc)
  PROVE  Fits(v)
<1>1. PcFits(v)
  BY DEF Fits, PcFits, SamePlace, Kinds, AdmissionPcs, ClaimingPcs, HoldingPcs, RunningPcs, FinalPcs,
         VerifiedPcs, DatasetPcs, RebuildPcs, ReleasePcs
<1>2. TasksFit(v)
  BY DEF Fits, TasksFit, SamePlace, AdmissionPcs, ClaimingPcs, HoldingPcs, RunningPcs, FinalPcs,
         VerifiedPcs, RebuildPcs, ReleasePcs
<1>3. v.kind \notin {"catalog", "sources", "fetch"}
  BY DEF Fits, PcFits, SamePlace, AdmissionPcs, ClaimingPcs, HoldingPcs, RunningPcs, FinalPcs,
         VerifiedPcs, DatasetPcs, RebuildPcs, ReleasePcs
<1>4. v.pc \notin {"b_write", "b_settle"}
  BY DEF SamePlace, AdmissionPcs, ClaimingPcs, HoldingPcs, RunningPcs, FinalPcs,
         VerifiedPcs, RebuildPcs, ReleasePcs
<1>5. CandFits(v)
  BY <1>3, <1>4 DEF CandFits
<1>6. QED
  BY <1>1, <1>2, <1>5 DEF Fits

(* A job that has ended holds nothing. *)
LEMMA EndedSound ==
  ASSUME NEW j, job'[j] = Ended
  PROVE  Fits(job'[j]) /\ JobSound(job[j], j)'
<1>1. Fits(Ended) /\ Ended.kind = None /\ Ended.pc = "ended"
  BY EndedFits
<1>2. QED
  BY <1>1, NoneAssumption DEF JobSound, HoldsClaim, HoldsRun, Progress, Verified, HoldingPcs, RunningPcs,
     VerifiedPcs, Kinds

(* What a rebuild has done stays done while it stays with its task.          *)
LEMMA ProgressStays ==
  ASSUME StoreType, StoreType', NEW j, Grows(j), Fits(job[j]), Progress(job[j]),
         job'[j].kind = job[j].kind, job'[j].root = job[j].root, job'[j].tasks = job[j].tasks,
         job'[j].sha = job[j].sha
  PROVE  Progress(job[j])'
<1> DEFINE w == job[j]  v == job'[j]
<1> SUFFICES ASSUME w.kind = "oos" PROVE Progress(job[j])'
  BY DEF Progress
<1>1. w.root \in Roots /\ ToDo(v) = ToDo(w) /\ Trained(v) = Trained(w)
  BY TaskPlace DEF ToDo, Trained
<1>2. ASSUME NEW t \in RunSet \ ToDo(w) PROVE runs'[<<w.root, t>>].files = Outputs
  <2>1. <<w.root, t>> \in Roots \X RunKeys
    BY <1>1, TaskKinds
  <2>2. /\ runs[<<w.root, t>>].files = Outputs /\ runs'[<<w.root, t>>] \in RunType
        /\ RunGrows(<<w.root, t>>, j)
    BY <2>1 DEF StoreType, Grows, Progress
  <2>3. QED
    BY <2>2 DEF RunGrows, RunType
<1>3. ASSUME NEW f \in Trained(w)
      PROVE  parts'[<<w.root, f>>].manifest # None /\ parts'[<<w.root, f>>].manifest.sha = w.sha
  <2>1. <<w.root, f>> \in Roots \X FoldIds
    BY <1>1 DEF Trained
  <2>2. parts[<<w.root, f>>].manifest # None /\ parts[<<w.root, f>>].manifest.sha = w.sha
    BY DEF Progress
  <2>3. QED
    BY <2>1, <2>2 DEF Grows, PartGrows
<1>4. QED
  BY <1>1, <1>2, <1>3 DEF Progress

(* What a job holds of the partition it trains in, after a step of it. *)
HoldsPart(q, v, j) ==
  /\ q.claim = j
  /\ v.pc \in {"t_manifest", "t_release"} => q.model # None
  /\ v.pc = "t_release" => q.manifest # None /\ q.manifest.sha = v.sha /\ q.manifest.code = v.code

(* A step in an artifact partition keeps the evidence sound. *)
LEMMA PartKept ==
  ASSUME PublishInv, NEW j \in Jobs, job[j].pc \in ClaimingPcs \cup HoldingPcs,
         NEW q \in PartType, Change(j, q), PartGrows(Part(j), q, j),
         UNCHANGED <<catalog, raw, runs, roots, repo, record>>,
         NEW v \in JobType, Becomes(j, v),
         v = Ended \/ (v.pc \in HoldingPcs /\ v = [job[j] EXCEPT !.pc = v.pc] /\ HoldsPart(q, v, j))
  PROVE  PublishInv'
<1> DEFINE w == job[j]  p == Partition(j)
<1>1. /\ StoreType /\ StoreInv /\ JobsFit /\ Fits(w) /\ JobSound(w, j) /\ Others(j) /\ job'[j] = v
      /\ p = <<w.root, Head(w.tasks).fold>> /\ p \in Roots \X FoldIds
  BY OneJob, TaskPlace DEF PublishInv, JobsFit, Partition, Now
<1>2. /\ parts' \in [Roots \X FoldIds -> PartType] /\ parts'[p] = q
      /\ \A o \in Roots \X FoldIds : o # p => parts'[o] = parts[o]
  BY <1>1 DEF Change, StoreType
<1>3. StoreType' /\ Grows(j)
  BY <1>1, <1>2 DEF StoreType, Grows, PartGrows, RunGrows, Part
<1>4. RecordComplete' /\ ReportsFirst'
  BY <1>1, <1>3, RecordStays DEF StoreInv, ReportsFirst
<1>5. ManifestMeansAll'
  BY <1>1, <1>3, ManifestsStay DEF StoreInv, ManifestMeansAll
<1>6. v.pc \notin RunningPcs
  BY EndedFits DEF HoldingPcs, RunningPcs
<1>7. Fits(v) /\ JobSound(job[j], j)'
  <2>1. CASE v = Ended
    BY <1>1, <2>1, EndedSound
  <2>2. CASE v # Ended
    <3>1. /\ v.kind = w.kind /\ v.root = w.root /\ v.tasks = w.tasks /\ v.sha = w.sha /\ v.code = w.code
          /\ v.pc \in HoldingPcs
      BY <1>1, <2>2 DEF JobType, Fits
    <3>2. Fits(v)
      BY <1>1, <3>1, StaysFit DEF SamePlace
    <3>3. HoldsClaim(job[j], j)'
      BY <1>1, <1>2, <2>2, <3>1 DEF HoldsClaim, TaskPart, HoldsPart
    <3>4. Progress(job[j])'
      BY <1>1, <1>3, <3>1, ProgressStays DEF JobSound
    <3>5. HoldsRun(job[j])' /\ Verified(job[j])'
      BY <1>1, <3>1 DEF HoldsRun, Verified, HoldingPcs, RunningPcs, VerifiedPcs
    <3>6. QED
      BY <3>2, <3>3, <3>4, <3>5 DEF JobSound
  <2>3. QED
    BY <2>1, <2>2
<1>8. QED
  BY <1>1, <1>3, <1>4, <1>5, <1>6, <1>7, StepComposed

(* A job that stops where it is leaves everything as it is. *)
LEMMA EndKept ==
  ASSUME PublishInv, NEW j \in Jobs, StoreType', UNCHANGED <<dirs, record>>, End(j)
  PROVE  PublishInv'
<1>1. JobsFit /\ Ended \in JobType /\ Becomes(j, Ended)
  BY EndedFits DEF PublishInv, Fits, End, Becomes
<1>2. Others(j) /\ job'[j] = Ended
  BY <1>1, OneJob
<1>3. QED
  BY <1>2, QuietKept, EndedFits DEF QuietStep, RootsGrow, dirs

(* The partition of a training, by type. *)
LEMMA PartOfTask ==
  ASSUME PublishInv, NEW j \in Jobs, job[j].pc \in ClaimingPcs \cup HoldingPcs
  PROVE  /\ Part(j) \in PartType /\ Partition(j) \in Roots \X FoldIds /\ Now(j).fold \in FoldIds
         /\ HoldsClaim(job[j], j) /\ TaskPart(job[j]) = Part(j)
         /\ job[j] \in JobType /\ Ended \in JobType
<1>1. Fits(job[j])
  BY DEF PublishInv, JobsFit
<1>2. <<job[j].root, Head(job[j].tasks).fold>> \in Roots \X FoldIds
  BY <1>1, TaskPlace
<1>3. QED
  BY <1>1, <1>2, EndedFits DEF PublishInv, StoreType, Fits, Part, Partition, Now, JobSound, TaskPart

(* A claim is only opened on a partition nobody has claimed. *)
LEMMA OpenClaimKept ==
  ASSUME PublishInv, NEW j \in Jobs, OpenClaim(j), UNCHANGED <<catalog, raw>>
  PROVE  PublishInv'
<1>1. job[j].pc \in ClaimingPcs
  BY DEF OpenClaim, At, ClaimingPcs
<1>2. CASE ~ClaimIsNew(Part(j))
  BY <1>2, EndKept DEF OpenClaim, dirs, PublishInv, StoreType
<1>3. CASE ClaimIsNew(Part(j))
  <2>1. PICK q : q = [Part(j) EXCEPT !.claim = j]
    OBVIOUS
  <2>2. PICK v : v = [job[j] EXCEPT !.pc = "t_confirm"]
    OBVIOUS
  <2>3. /\ q \in PartType /\ q.claim = j /\ PartGrows(Part(j), q, j)
    BY <1>1, <1>3, <2>1, PartOfTask, NoneAssumption DEF PartType, PartGrows, ClaimIsNew
  <2>4. v \in JobType /\ v.pc = "t_confirm" /\ v = [job[j] EXCEPT !.pc = v.pc]
    <3>1. "t_confirm" \in Commands /\ job[j] \in JobType
      BY <1>1, PartOfTask DEF Commands
    <3>2. QED
      BY <2>2, <3>1, Moved
  <2>5. Change(j, q) /\ Becomes(j, v)
    BY <1>3, <2>1, <2>2 DEF OpenClaim, Goto, Becomes
  <2>6. QED
    BY <1>1, <2>3, <2>4, <2>5, PartKept DEF OpenClaim, HoldsPart, HoldingPcs
<1>4. QED
  BY <1>2, <1>3

(* A claim that finds files is withdrawn by the job that made it.            *)
LEMMA ConfirmClaimKept ==
  ASSUME PublishInv, NEW j \in Jobs, ConfirmClaim(j), UNCHANGED <<catalog, raw>>
  PROVE  PublishInv'
<1>1. job[j].pc \in HoldingPcs /\ job[j].pc = "t_confirm"
  BY DEF ConfirmClaim, At, HoldingPcs
<1>2. CASE OnlyClaimed(Part(j))
  <2>1. PICK v : v = [job[j] EXCEPT !.pc = "t_pending"]
    OBVIOUS
  <2>2. v \in JobType /\ v.pc = "t_pending" /\ v = [job[j] EXCEPT !.pc = v.pc]
    <3>1. "t_pending" \in Commands /\ job[j] \in JobType
      BY <1>1, PartOfTask DEF Commands
    <3>2. QED
      BY <2>1, <3>1, Moved
  <2>3. Becomes(j, v) /\ UNCHANGED parts
    BY <1>2, <2>1 DEF ConfirmClaim, Goto, Becomes
  <2>4. Change(j, Part(j)) /\ PartGrows(Part(j), Part(j), j)
    BY <1>1, <2>3, PartOfTask DEF Change, Part, PartGrows, PublishInv, StoreType
  <2>5. HoldsPart(Part(j), v, j)
    BY <1>1, <2>2, PartOfTask DEF HoldsPart, HoldsClaim
  <2>6. QED
    BY <1>1, <2>2, <2>3, <2>4, <2>5, PartOfTask, PartKept DEF ConfirmClaim, HoldingPcs
<1>3. CASE ~OnlyClaimed(Part(j))
  <2>1. PICK q : q = Withdraw(Part(j))
    OBVIOUS
  <2>2. q \in PartType /\ PartGrows(Part(j), q, j)
    BY <1>1, <2>1, PartOfTask DEF PartType, PartGrows, Withdraw, HoldsClaim
  <2>3. Change(j, q) /\ Becomes(j, Ended)
    BY <1>3, <2>1 DEF ConfirmClaim, End, Becomes
  <2>4. QED
    BY <1>1, <2>2, <2>3, PartOfTask, PartKept DEF ConfirmClaim
<1>4. QED
  BY <1>2, <1>3

(* The pending directory is made once, by the holder of the claim. *)
LEMMA MakePendingKept ==
  ASSUME PublishInv, NEW j \in Jobs, MakePending(j), UNCHANGED <<catalog, raw>>
  PROVE  PublishInv'
<1>1. job[j].pc \in HoldingPcs /\ job[j].pc = "t_pending"
  BY DEF MakePending, At, HoldingPcs
<1>2. CASE Part(j).pending
  BY <1>2, EndKept DEF MakePending, dirs, PublishInv, StoreType
<1>3. CASE ~Part(j).pending
  <2>1. PICK q : q = [Part(j) EXCEPT !.pending = TRUE]
    OBVIOUS
  <2>2. PICK v : v = [job[j] EXCEPT !.pc = "t_link"]
    OBVIOUS
  <2>3. q \in PartType /\ q.claim = j /\ PartGrows(Part(j), q, j)
    BY <1>1, <2>1, PartOfTask DEF PartType, PartGrows, HoldsClaim
  <2>4. v \in JobType /\ v.pc = "t_link" /\ v = [job[j] EXCEPT !.pc = v.pc]
    <3>1. "t_link" \in Commands /\ job[j] \in JobType
      BY <1>1, PartOfTask DEF Commands
    <3>2. QED
      BY <2>2, <3>1, Moved
  <2>5. Change(j, q) /\ Becomes(j, v)
    BY <1>3, <2>1, <2>2 DEF MakePending, Goto, Becomes, AfterPending
  <2>6. QED
    BY <1>1, <2>3, <2>4, <2>5, PartKept DEF MakePending, HoldsPart, HoldingPcs
<1>4. QED
  BY <1>2, <1>3

(* The model is linked to a name that was free. *)
LEMMA LinkModelKept ==
  ASSUME PublishInv, NEW j \in Jobs, LinkModel(j), UNCHANGED <<catalog, raw>>
  PROVE  PublishInv'
<1>1. job[j].pc \in HoldingPcs /\ job[j].pc = "t_link"
  BY DEF LinkModel, At, HoldingPcs
<1>2. CASE Part(j).model # None
  BY <1>2, EndKept DEF LinkModel, dirs, PublishInv, StoreType
<1>3. CASE Part(j).model = None
  <2>1. PICK q : q = [Part(j) EXCEPT !.model = j, !.pending = FALSE]
    OBVIOUS
  <2>2. PICK v : v = [job[j] EXCEPT !.pc = "t_manifest"]
    OBVIOUS
  <2>3. q \in PartType /\ q.claim = j /\ q.model # None /\ PartGrows(Part(j), q, j)
    <3>1. Part(j) \in PartType /\ Part(j).claim = j /\ j # None
      BY <1>1, PartOfTask, NoneAssumption DEF HoldsClaim
    <3>2. QED
      BY <1>3, <2>1, <3>1 DEF PartType, PartGrows
  <2>4. v \in JobType /\ v.pc = "t_manifest" /\ v = [job[j] EXCEPT !.pc = v.pc]
    <3>1. "t_manifest" \in Commands /\ job[j] \in JobType
      BY <1>1, PartOfTask DEF Commands
    <3>2. QED
      BY <2>2, <3>1, Moved
  <2>5. Change(j, q) /\ Becomes(j, v)
    BY <1>3, <2>1, <2>2 DEF LinkModel, Goto, Becomes
  <2>6. QED
    BY <1>1, <2>3, <2>4, <2>5, PartKept DEF LinkModel, HoldsPart, HoldingPcs
<1>4. QED
  BY <1>2, <1>3

(* The manifest names the model of its partition and the revision of its job. *)
LEMMA WriteManifestKept ==
  ASSUME PublishInv, NEW j \in Jobs, WriteManifest(j), UNCHANGED <<catalog, raw>>
  PROVE  PublishInv'
<1>1. job[j].pc \in HoldingPcs /\ job[j].pc = "t_manifest"
  BY DEF WriteManifest, At, HoldingPcs
<1>2. CASE Part(j).manifest # None
  BY <1>2, EndKept DEF WriteManifest, dirs, PublishInv, StoreType
<1>3. CASE Part(j).manifest = None
  <2>1. PICK m : m = [by |-> j, fold |-> Now(j).fold, model |-> Part(j).model,
                      sha |-> job[j].sha, code |-> job[j].code]
    OBVIOUS
  <2>2. PICK q : q = [Part(j) EXCEPT !.manifest = m]
    OBVIOUS
  <2>3. PICK v : v = [job[j] EXCEPT !.pc = "t_release"]
    OBVIOUS
  <2>4. Part(j).claim = j /\ Part(j).model # None
    BY <1>1, PartOfTask DEF HoldsClaim
  <2>5. m \in Manifests /\ m # None /\ m.sha = job[j].sha /\ m.code = job[j].code
    BY <1>1, <2>1, <2>4, PartOfTask, NoneAssumption DEF Manifests, PartType, JobType
  <2>6. q \in PartType /\ q.claim = j /\ q.model # None /\ q.manifest = m /\ PartGrows(Part(j), q, j)
    BY <1>1, <1>3, <2>2, <2>4, <2>5, PartOfTask DEF PartType, PartGrows
  <2>7. /\ v \in JobType /\ v.pc = "t_release" /\ v = [job[j] EXCEPT !.pc = v.pc]
        /\ v.sha = job[j].sha /\ v.code = job[j].code
    <3>1. "t_release" \in Commands /\ job[j] \in JobType
      BY <1>1, PartOfTask DEF Commands
    <3>2. QED
      BY <2>3, <3>1, Moved
  <2>8. Change(j, q) /\ Becomes(j, v)
    BY <1>3, <2>1, <2>2, <2>3 DEF WriteManifest, Goto, Becomes
  <2>9. QED
    BY <1>1, <2>5, <2>6, <2>7, <2>8, PartKept DEF WriteManifest, HoldsPart, HoldingPcs
<1>4. QED
  BY <1>2, <1>3

(* The job goes on to its next task, or ends. *)
LEMMA NextTaskForm ==
  ASSUME JobsFit, NEW j \in Jobs, job[j].pc \in HoldingPcs \cup RunningPcs,
         NEW new \in JobType, Alike(job[j], new), NextTask(j, new)
  PROVE  /\ Others(j) /\ Fits(job'[j])
         /\ \/ job'[j] = Ended
            \/ /\ job[j].kind = "oos" /\ job[j].tasks \in Seq(Trainings \cup RunSet)
               /\ job'[j].kind = "oos" /\ job'[j].root = job[j].root /\ job'[j].sha = job[j].sha
               /\ job'[j].tasks = Tail(job[j].tasks)
               /\ job'[j].pc \in {"t_bind", "r_mkdir", "manifest"}
<1> DEFINE w == job[j]  rest == Tail(job[j].tasks)
<1>1. Fits(w) /\ w \in JobType /\ w.kind = new.kind /\ w.root = new.root /\ w.sha = new.sha
  BY DEF JobsFit, Fits, Alike
<1>2. w.kind \in {"train", "backtest", "oos"} /\ w.tasks # <<>>
  BY <1>1, KindOfPc DEF Fits, TasksFit
<1>3. CASE w.kind # "oos"
  <2>1. \E t \in Tasks : w.tasks = <<t>>
    BY <1>1, <1>2, <1>3 DEF Fits, TasksFit, Tasks, Trainings, RunKeys
  <2>2. w.tasks \in Seq(Tasks) /\ Len(w.tasks) = 1
    BY <2>1
  <2>3. rest = <<>>
    BY <1>2, <2>2, RestOfTasks
  <2>4. Becomes(j, Ended)
    BY <1>1, <1>3, <2>3 DEF NextTask, Becomes
  <2>5. QED
    BY <2>4, OneJob, EndedFits DEF Fits
<1>4. CASE w.kind = "oos"
  <2>1. PICK v : v = [new EXCEPT !.tasks = rest, !.pc = EntryPc(rest, "manifest")]
    OBVIOUS
  <2>2. Becomes(j, v)
    BY <1>1, <1>4, <2>1 DEF NextTask, Becomes
  <2>3. w.tasks \in Seq(Trainings \cup RunSet) /\ rest \in Seq(Trainings \cup RunSet)
    BY <1>1, <1>2, <1>4, RestOfTasks DEF Fits, TasksFit
  <2>4. rest # <<>> => Head(rest) \in Trainings \cup RunSet
    BY <2>3, RestOfTasks
  <2>5. rest \in Seq(Tasks)
    BY <2>3, TaskKinds DEF Tasks
  <2>6. PICK e : e = EntryPc(rest, "manifest")
    OBVIOUS
  <2>7. /\ e \in {"t_bind", "r_mkdir", "manifest"}
        /\ e = "t_bind" => rest # <<>> /\ Head(rest) \in Trainings
        /\ e = "r_mkdir" => rest # <<>> /\ Head(rest) \in RunKeys
        /\ e = "manifest" => rest = <<>>
    BY <2>4, <2>6, TaskKinds DEF EntryPc
  <2>8. /\ v \in JobType /\ v.pc = e /\ v.tasks = rest /\ v.kind = "oos" /\ v.root = w.root
        /\ v.sha = w.sha
    <3>1. e \in Commands
      BY <2>7 DEF Commands
    <3>2. v = [new EXCEPT !.tasks = rest, !.pc = e]
      BY <2>1, <2>6
    <3>3. QED
      BY <1>1, <1>4, <2>5, <3>1, <3>2 DEF JobType
  <2>9. Fits(v)
    <3>1. PcFits(v)
      BY <2>7, <2>8, NoneAssumption DEF PcFits, Kinds, ClaimingPcs, FinalPcs
    <3>2. TasksFit(v)
      <4>1. w.root \in Roots
        BY <1>1, <1>4, TaskPlace
      <4>2. QED
        BY <2>3, <2>7, <2>8, <4>1 DEF TasksFit, AdmissionPcs, ClaimingPcs, HoldingPcs, FinalPcs, VerifiedPcs, RunningPcs
    <3>3. CandFits(v)
      BY <2>8 DEF CandFits
    <3>4. QED
      BY <2>8, <3>1, <3>2, <3>3 DEF Fits
  <2>10. Others(j) /\ job'[j] = v
    BY <2>2, <2>8, OneJob
  <2>11. QED
    BY <1>4, <2>3, <2>7, <2>8, <2>9, <2>10
<1>5. QED
  BY <1>3, <1>4

(* What was done before a task and what the task leaves is what is done now. *)
LEMMA NextTaskProgress ==
  ASSUME NEW w, NEW v, w.tasks \in Seq(Trainings \cup RunSet), w.tasks # <<>>,
         v.tasks = Tail(w.tasks)
  PROVE  /\ \A t \in RunSet \ ToDo(v) : t \in RunSet \ ToDo(w) \/ t = Head(w.tasks)
         /\ \A f \in Trained(v) : f \in Trained(w) \/ Training(f) = Head(w.tasks)
<1>1. ASSUME NEW t \in ToDo(w) PROVE t = Head(w.tasks) \/ t \in ToDo(v)
  <2>1. PICK k \in DOMAIN w.tasks : w.tasks[k] = t
    BY DEF ToDo
  <2>2. w.tasks[k] = Head(w.tasks) \/ \E m \in DOMAIN Tail(w.tasks) : Tail(w.tasks)[m] = w.tasks[k]
    BY RestOfTasks
  <2>3. QED
    BY <2>1, <2>2 DEF ToDo
<1>2. QED
  BY <1>1 DEF Trained

(* The claim is released when the artifact is published. *)
LEMMA ReleaseClaimKept ==
  ASSUME PublishInv, NEW j \in Jobs, ReleaseClaim(j), UNCHANGED <<catalog, raw>>
  PROVE  PublishInv'
<1> DEFINE w == job[j]  p == Partition(j)  v == job'[j]
<1>1. w.pc = "t_release" /\ w.pc \in HoldingPcs
  BY DEF ReleaseClaim, At, HoldingPcs
<1>2. /\ StoreType /\ StoreInv /\ JobsFit /\ Fits(w) /\ JobSound(w, j) /\ w \in JobType
      /\ p = <<w.root, Head(w.tasks).fold>> /\ p \in Roots \X FoldIds /\ Part(j) \in PartType
      /\ parts[p] = Part(j) /\ UNCHANGED <<catalog, raw, runs, roots, repo, record>>
  BY <1>1, PartOfTask DEF PublishInv, JobsFit, Fits, Partition, Now, Part, ReleaseClaim
<1>3. PICK q : q = [Part(j) EXCEPT !.claim = None]
  OBVIOUS
<1>4. /\ Part(j).claim = j /\ Part(j).manifest # None /\ Part(j).manifest.sha = w.sha
      /\ Part(j).model # None
  BY <1>1, PartOfTask DEF HoldsClaim
<1>5. q \in PartType /\ PartGrows(Part(j), q, j) /\ q.manifest = Part(j).manifest
  BY <1>2, <1>3, <1>4 DEF PartType, PartGrows
<1>6. /\ parts' \in [Roots \X FoldIds -> PartType] /\ parts'[p] = q
      /\ \A o \in Roots \X FoldIds : o # p => parts'[o] = parts[o]
  BY <1>2, <1>3, <1>5 DEF ReleaseClaim, Change, StoreType
<1>7. StoreType' /\ Grows(j)
  BY <1>2, <1>5, <1>6 DEF StoreType, Grows, PartGrows, RunGrows
<1>8. RecordComplete' /\ ReportsFirst'
  BY <1>2, <1>7, RecordStays DEF StoreInv, ReportsFirst
<1>9. ManifestMeansAll'
  BY <1>2, <1>7, ManifestsStay DEF StoreInv, ManifestMeansAll
<1>10. /\ Others(j) /\ Fits(v)
       /\ \/ v = Ended
          \/ /\ w.kind = "oos" /\ w.tasks \in Seq(Trainings \cup RunSet)
             /\ v.kind = "oos" /\ v.root = w.root /\ v.sha = w.sha
             /\ v.tasks = Tail(w.tasks)
             /\ v.pc \in {"t_bind", "r_mkdir", "manifest"}
  <2>1. Alike(w, w)
    BY DEF Alike
  <2>2. QED
    BY <1>1, <1>2, <2>1, NextTaskForm DEF ReleaseClaim
<1>11. v.pc \notin RunningPcs \cup HoldingPcs \cup VerifiedPcs
  BY <1>10, EndedFits DEF RunningPcs, HoldingPcs, VerifiedPcs
<1>12. Progress(job[j])'
  <2>1. CASE v = Ended
    BY <2>1, EndedFits, NoneAssumption DEF Progress, Kinds
  <2>2. CASE v # Ended
    <3>1. w.tasks # <<>> /\ Head(w.tasks) \in Trainings
      BY <1>1, <1>2 DEF Fits, TasksFit
    <3>2. /\ \A t \in RunSet \ ToDo(v) : t \in RunSet \ ToDo(w) \/ t = Head(w.tasks)
          /\ \A f \in Trained(v) : f \in Trained(w) \/ Training(f) = Head(w.tasks)
      BY <1>10, <2>2, <3>1, NextTaskProgress
    <3>3. ASSUME NEW t \in RunSet \ ToDo(v) PROVE runs'[<<w.root, t>>].files = Outputs
      BY <1>2, <1>10, <2>2, <3>1, <3>2, TaskKinds DEF JobSound, Progress
    <3>4. ASSUME NEW f \in Trained(v)
          PROVE  parts'[<<w.root, f>>].manifest # None /\ parts'[<<w.root, f>>].manifest.sha = w.sha
      <4>1. CASE f \in Trained(w)
        <5>1. <<w.root, f>> \in Roots \X FoldIds
          BY <1>2, <1>10, <2>2, <4>1, TaskPlace DEF Trained
        <5>2. parts[<<w.root, f>>].manifest # None /\ parts[<<w.root, f>>].manifest.sha = w.sha
          BY <1>2, <1>10, <2>2, <4>1 DEF JobSound, Progress
        <5>3. QED
          BY <1>7, <5>1, <5>2 DEF Grows, PartGrows
      <4>2. CASE Training(f) = Head(w.tasks)
        <5>1. <<w.root, f>> = p
          BY <1>2, <4>2 DEF Training, Task
        <5>2. QED
          BY <1>4, <1>5, <1>6, <5>1
      <4>3. QED
        BY <3>2, <4>1, <4>2
    <3>5. QED
      BY <1>10, <2>2, <3>3, <3>4 DEF Progress
  <2>3. QED
    BY <2>1, <2>2
<1>13. JobSound(job[j], j)'
  BY <1>11, <1>12 DEF JobSound, HoldsClaim, HoldsRun, Verified
<1>14. QED
  BY <1>7, <1>8, <1>9, <1>10, <1>11, <1>13, StepComposed

(* The partition of a run, by type. *)
LEMMA RunOfTask ==
  ASSUME PublishInv, NEW j \in Jobs, job[j].pc \in {"r_mkdir"} \cup RunningPcs
  PROVE  /\ Run(j) \in RunType /\ RunKey(j) \in Roots \X RunKeys /\ RunKey(j) = OwnRun(job[j])
         /\ HoldsRun(job[j]) /\ TaskRun(job[j]) = Run(j) /\ Run(j) = runs[RunKey(j)]
         /\ job[j] \in JobType /\ Ended \in JobType /\ Fits(job[j])
<1>1. Fits(job[j])
  BY DEF PublishInv, JobsFit
<1>2. OwnRun(job[j]) \in Roots \X RunKeys
  BY <1>1, TaskPlace
<1>3. QED
  BY <1>1, <1>2, EndedFits DEF PublishInv, StoreType, Fits, Run, RunKey, OwnRun, Now, JobSound, TaskRun

(* A step that changes one run partition, and no more than its owner may.    *)
RunChange(j, q) == runs' = [runs EXCEPT ![RunKey(j)] = q]
(* A run that only gains files keeps everything that rests on runs. *)
LEMMA RunChanged ==
  ASSUME PublishInv, NEW j \in Jobs, job[j].pc \in {"r_mkdir"} \cup RunningPcs,
         NEW q \in RunType, RunChange(j, q), Run(j).files \subseteq q.files,
         q.made \/ job[j].pc \in RunningPcs, "manifest" \in q.files => "reports" \in q.files,
         UNCHANGED <<catalog, raw, parts, roots, repo, record>>
  PROVE  /\ StoreType' /\ Grows(j) /\ RecordComplete' /\ ReportsFirst' /\ ManifestMeansAll'
         /\ runs'[RunKey(j)] = q /\ RunKey(j) = OwnRun(job[j])
<1>1. /\ StoreType /\ StoreInv /\ RunKey(j) \in Roots \X RunKeys /\ RunKey(j) = OwnRun(job[j])
      /\ Run(j) = runs[RunKey(j)]
  BY RunOfTask DEF PublishInv
<1>2. /\ runs' \in [Roots \X RunKeys -> RunType] /\ runs'[RunKey(j)] = q
      /\ \A o \in Roots \X RunKeys : o # RunKey(j) => runs'[o] = runs[o]
  BY <1>1 DEF RunChange, StoreType
<1>3. StoreType' /\ Grows(j)
  BY <1>1, <1>2 DEF StoreType, Grows, PartGrows, RunGrows
<1>4. RecordComplete'
  BY <1>1, <1>3, RecordStays DEF StoreInv
<1>5. ReportsFirst'
  BY <1>1, <1>2 DEF StoreInv, ReportsFirst
<1>6. ManifestMeansAll'
  BY <1>1, <1>3, ManifestsStay DEF StoreInv, ManifestMeansAll
<1>7. QED
  BY <1>1, <1>2, <1>3, <1>4, <1>5, <1>6

(* Only the job that made a run partition removes it, and only an empty one. *)
LEMMA ReleaseEmptyKept ==
  ASSUME PublishInv, NEW j \in Jobs, job[j].pc \in RunningPcs, ReleaseEmpty(j),
         UNCHANGED <<catalog, raw, parts, roots, repo, record>>
  PROVE  PublishInv'
<1>1. CASE Run(j).files # {}
  BY <1>1, EndKept DEF ReleaseEmpty, dirs, PublishInv, StoreType
<1>2. CASE Run(j).files = {}
  <2>1. PICK q : q = [Run(j) EXCEPT !.made = FALSE]
    OBVIOUS
  <2>2. q \in RunType /\ q.files = {} /\ RunChange(j, q)
    BY <1>2, <2>1, RunOfTask DEF ReleaseEmpty, RunType, RunChange, Run
  <2>3. /\ StoreType' /\ Grows(j) /\ RecordComplete' /\ ReportsFirst' /\ ManifestMeansAll'
    BY <1>2, <2>2, RunChanged
  <2>4. Becomes(j, Ended) /\ JobsFit /\ Ended \in JobType
    BY EndedFits DEF ReleaseEmpty, End, Becomes, PublishInv, Fits
  <2>5. Others(j) /\ job'[j] = Ended
    BY <2>4, OneJob
  <2>6. job'[j].pc \notin RunningPcs
    BY <2>5, EndedFits DEF RunningPcs
  <2>7. QED
    BY <2>3, <2>5, <2>6, EndedSound, StepComposed
<1>3. QED
  BY <1>1, <1>2

(* Of two jobs that want a run partition, one makes it. *)
LEMMA ClaimRunRootKept ==
  ASSUME PublishInv, NEW j \in Jobs, ClaimRunRoot(j), UNCHANGED <<catalog, raw>>
  PROVE  PublishInv'
<1>1. job[j].pc = "r_mkdir"
  BY DEF ClaimRunRoot, At
<1>2. CASE ~RunIsNew(j)
  BY <1>2, EndKept DEF ClaimRunRoot, dirs, PublishInv, StoreType
<1>3. CASE RunIsNew(j)
  <2>1. PICK q : q = [Run(j) EXCEPT !.made = TRUE]
    OBVIOUS
  <2>2. PICK v : v = [job[j] EXCEPT !.pc = "r_bind"]
    OBVIOUS
  <2>3. /\ q \in RunType /\ q.made /\ q.files = Run(j).files /\ RunChange(j, q)
    BY <1>1, <1>3, <2>1, RunOfTask DEF ClaimRunRoot, RunType, RunChange, Run
  <2>4. "manifest" \in q.files => "reports" \in q.files
    BY <1>1, <2>3, RunOfTask DEF PublishInv, StoreInv, ReportsFirst
  <2>5. /\ StoreType' /\ Grows(j) /\ RecordComplete' /\ ReportsFirst' /\ ManifestMeansAll'
        /\ runs'[OwnRun(job[j])] = q
    BY <1>1, <2>3, <2>4, RunChanged DEF ClaimRunRoot
  <2>6. "r_bind" \in Commands /\ job[j] \in JobType /\ Fits(job[j]) /\ JobsFit
    BY <1>1, RunOfTask DEF Commands, PublishInv
  <2>7. /\ v \in JobType /\ v.pc = "r_bind" /\ v.kind = job[j].kind /\ v.root = job[j].root
        /\ v.tasks = job[j].tasks /\ v.sha = job[j].sha
    BY <2>2, <2>6, Moved
  <2>8. Becomes(j, v)
    BY <1>3, <2>2 DEF ClaimRunRoot, Goto, Becomes
  <2>9. Others(j) /\ job'[j] = v
    BY <2>6, <2>7, <2>8, OneJob
  <2>10. Fits(v)
    BY <1>1, <2>6, <2>7, KindOfPc DEF Fits, PcFits, TasksFit, CandFits, AdmissionPcs, ClaimingPcs,
      HoldingPcs, RunningPcs, FinalPcs, VerifiedPcs
  <2>12. Progress(job[j])'
    BY <2>5, <2>6, <2>7, <2>9, ProgressStays DEF PublishInv, JobSound
  <2>13. JobSound(job[j], j)'
    <3>1. TaskRun(job[j])' = q
      BY <2>5, <2>7, <2>9 DEF TaskRun, OwnRun
    <3>2. QED
      BY <2>3, <2>7, <2>9, <2>12, <3>1 DEF JobSound, HoldsClaim, HoldsRun, Verified, HoldingPcs, VerifiedPcs
  <2>14. ~runs[OwnRun(job'[j])].made
    BY <1>1, <1>3, <2>7, <2>9, RunOfTask DEF RunIsNew, OwnRun
  <2>15. QED
    BY <2>5, <2>9, <2>10, <2>13, <2>14, StepComposed
<1>4. QED
  BY <1>2, <1>3

(* The reports of a run are written once. *)
LEMMA WriteReportsKept ==
  ASSUME PublishInv, NEW j \in Jobs, WriteOutput(j, 1), UNCHANGED <<catalog, raw>>
  PROVE  PublishInv'
<1>1. job[j].pc = "r_reports" /\ job[j].pc \in RunningPcs /\ OutputOrder[1] = "reports"
  BY DEF WriteOutput, At, RunningPcs, OutputOrder
<1>2. CASE "reports" \in Run(j).files
  BY <1>1, <1>2, ReleaseEmptyKept DEF WriteOutput
<1>3. CASE "reports" \notin Run(j).files
  <2>1. PICK q : q = [Run(j) EXCEPT !.files = @ \cup {"reports"}]
    OBVIOUS
  <2>2. PICK v : v = [job[j] EXCEPT !.pc = "r_manifest"]
    OBVIOUS
  <2>3. Run(j).made
    BY <1>1, RunOfTask DEF HoldsRun
  <2>4. /\ q \in RunType /\ q.made /\ q.files = Run(j).files \cup {"reports"} /\ RunChange(j, q)
    <3>1. RunChange(j, q)
      BY <1>1, <1>3, <2>1 DEF WriteOutput, RunChange, Run
    <3>2. Run(j) \in RunType
      BY <1>1, RunOfTask
    <3>3. QED
      BY <2>1, <2>3, <3>1, <3>2 DEF RunType, Outputs
  <2>5. /\ StoreType' /\ Grows(j) /\ RecordComplete' /\ ReportsFirst' /\ ManifestMeansAll'
        /\ runs'[OwnRun(job[j])] = q
    BY <1>1, <2>4, RunChanged DEF WriteOutput
  <2>6. "r_manifest" \in Commands /\ job[j] \in JobType /\ Fits(job[j]) /\ JobsFit
    BY <1>1, RunOfTask DEF Commands, PublishInv
  <2>7. /\ v \in JobType /\ v.pc = "r_manifest" /\ v.kind = job[j].kind /\ v.root = job[j].root
        /\ v.tasks = job[j].tasks /\ v.sha = job[j].sha
    BY <2>2, <2>6, Moved
  <2>8. Becomes(j, v)
    BY <1>1, <1>3, <2>2 DEF WriteOutput, Goto, Becomes
  <2>9. Others(j) /\ job'[j] = v
    BY <2>6, <2>7, <2>8, OneJob
  <2>10. Fits(v)
    BY <1>1, <2>6, <2>7, StaysFit DEF SamePlace, RunningPcs
  <2>11. Progress(job[j])'
    BY <2>5, <2>6, <2>7, <2>9, ProgressStays DEF PublishInv, JobSound
  <2>12. JobSound(job[j], j)'
    <3>1. TaskRun(job[j])' = q
      BY <2>5, <2>7, <2>9 DEF TaskRun, OwnRun
    <3>2. QED
      BY <2>4, <2>7, <2>9, <2>11, <3>1 DEF JobSound, HoldsClaim, HoldsRun, Verified, HoldingPcs, VerifiedPcs
  <2>13. OwnRun(job'[j]) = OwnRun(job[j])
    BY <2>7, <2>9 DEF OwnRun
  <2>14. QED
    BY <1>1, <2>5, <2>9, <2>10, <2>12, <2>13, StepComposed
<1>4. QED
  BY <1>2, <1>3

(* The manifest of a run is written last, and the job goes on.               *)
LEMMA WriteRunManifestKept ==
  ASSUME PublishInv, NEW j \in Jobs, WriteOutput(j, 2), UNCHANGED <<catalog, raw>>
  PROVE  PublishInv'
<1> DEFINE w == job[j]  v == job'[j]
<1>1. w.pc = "r_manifest" /\ w.pc \in RunningPcs /\ OutputOrder[2] = "manifest"
  BY DEF WriteOutput, At, RunningPcs, OutputOrder
<1>2. CASE "manifest" \in Run(j).files
  BY <1>1, <1>2, ReleaseEmptyKept DEF WriteOutput
<1>3. CASE "manifest" \notin Run(j).files
  <2>1. PICK q : q = [Run(j) EXCEPT !.files = @ \cup {"manifest"}]
    OBVIOUS
  <2>2. PICK new : new = [w EXCEPT !.seen = None]
    OBVIOUS
  <2>3. Run(j).made /\ "reports" \in Run(j).files
    BY <1>1, RunOfTask DEF HoldsRun
  <2>4. /\ q \in RunType /\ q.made /\ Run(j).files \subseteq q.files /\ q.files = Outputs
        /\ RunChange(j, q)
    <3>1. RunChange(j, q)
      BY <1>1, <1>3, <2>1 DEF WriteOutput, RunChange, Run
    <3>2. Run(j) \in RunType
      BY <1>1, RunOfTask
    <3>3. QED
      BY <2>1, <2>3, <3>1, <3>2 DEF RunType, Outputs
  <2>5. /\ StoreType' /\ Grows(j) /\ RecordComplete' /\ ReportsFirst' /\ ManifestMeansAll'
        /\ runs'[OwnRun(w)] = q
    BY <1>1, <2>3, <2>4, RunChanged DEF WriteOutput
  <2>6. w \in JobType /\ Fits(w) /\ JobsFit /\ JobSound(w, j) /\ StoreType
    BY <1>1, RunOfTask DEF PublishInv
  <2>7. new \in JobType /\ Alike(w, new) /\ NextTask(j, new)
    BY <1>1, <1>3, <2>2, <2>6 DEF JobType, SeenTypes, Alike, WriteOutput
  <2>8. /\ Others(j) /\ Fits(v)
        /\ \/ v = Ended
           \/ /\ w.kind = "oos" /\ w.tasks \in Seq(Trainings \cup RunSet)
              /\ v.kind = "oos" /\ v.root = w.root /\ v.sha = w.sha
              /\ v.tasks = Tail(w.tasks)
              /\ v.pc \in {"t_bind", "r_mkdir", "manifest"}
    BY <1>1, <2>6, <2>7, NextTaskForm
  <2>9. v.pc \notin RunningPcs \cup HoldingPcs \cup VerifiedPcs
    BY <2>8, EndedFits DEF RunningPcs, HoldingPcs, VerifiedPcs
  <2>10. Progress(job[j])'
    <3>1. CASE v = Ended
      BY <3>1, EndedFits, NoneAssumption DEF Progress, Kinds
    <3>2. CASE v # Ended
      <4>1. w.tasks # <<>> /\ Head(w.tasks) \in RunKeys /\ w.root \in Roots
        BY <1>1, <2>6, <2>8, <3>2, TaskPlace DEF Fits, TasksFit
      <4>2. /\ \A t \in RunSet \ ToDo(v) : t \in RunSet \ ToDo(w) \/ t = Head(w.tasks)
            /\ \A f \in Trained(v) : f \in Trained(w) \/ Training(f) = Head(w.tasks)
        BY <2>8, <3>2, <4>1, NextTaskProgress
      <4>3. ASSUME NEW t \in RunSet \ ToDo(v) PROVE runs'[<<w.root, t>>].files = Outputs
        <5>1. CASE t = Head(w.tasks)
          BY <2>4, <2>5, <5>1 DEF OwnRun
        <5>2. CASE t \in RunSet \ ToDo(w)
          <6>1. <<w.root, t>> \in Roots \X RunKeys /\ runs[<<w.root, t>>].files = Outputs
            BY <2>6, <2>8, <3>2, <4>1, <5>2, TaskKinds DEF JobSound, Progress
          <6>2. runs'[<<w.root, t>>] \in RunType /\ RunGrows(<<w.root, t>>, j)
            BY <2>5, <6>1 DEF StoreType, Grows
          <6>3. QED
            BY <6>1, <6>2 DEF RunGrows, RunType
        <5>3. QED
          BY <4>2, <5>1, <5>2
      <4>4. ASSUME NEW f \in Trained(v)
            PROVE  parts'[<<w.root, f>>].manifest # None /\ parts'[<<w.root, f>>].manifest.sha = w.sha
        <5>1. f \in Trained(w)
          BY <4>1, <4>2, TaskKinds DEF Trainings, Trained
        <5>2. parts[<<w.root, f>>].manifest # None /\ parts[<<w.root, f>>].manifest.sha = w.sha
          BY <2>6, <2>8, <3>2, <5>1 DEF JobSound, Progress
        <5>3. QED
          BY <5>2 DEF WriteOutput
      <4>5. QED
        BY <2>8, <3>2, <4>3, <4>4 DEF Progress
    <3>3. QED
      BY <3>1, <3>2
  <2>11. JobSound(job[j], j)'
    BY <2>9, <2>10 DEF JobSound, HoldsClaim, HoldsRun, Verified
  <2>12. QED
    BY <2>5, <2>8, <2>9, <2>11, StepComposed
<1>4. QED
  BY <1>2, <1>3

-----------------------------------------------------------------------------
(* The steps that only read, decide or name something. *)

(* A step that notes something and stays with its task. *)
LEMMA StepKept ==
  ASSUME PublishInv, NEW j \in Jobs, StoreType', UNCHANGED <<parts, runs, record>>, RootsGrow,
         NEW v \in JobType, Becomes(j, v), v.kind = job[j].kind, v.root = job[j].root,
         v.tasks = job[j].tasks, v.sha = job[j].sha, SamePlace(job[j].pc, v.pc),
         v.pc \notin HoldingPcs \cup {"r_manifest"},
         v.pc \in VerifiedPcs => \/ job[j].pc \in VerifiedPcs /\ v.used = job[j].used
                                 \/ Complete(v.root, v.used)
  PROVE  PublishInv'
<1>1. JobsFit /\ Fits(job[j])
  BY DEF PublishInv, JobsFit
<1>2. Others(j) /\ job'[j] = v
  BY <1>1, OneJob
<1>3. Fits(v)
  BY <1>1, StaysFit
<1>4. v.pc \in RunningPcs => job[j].pc \in RunningPcs
  BY DEF SamePlace, RunningPcs, AdmissionPcs, ClaimingPcs, HoldingPcs, FinalPcs, VerifiedPcs,
         RebuildPcs, ReleasePcs
<1>5. QuietStep(job[j], v)
  BY <1>4 DEF QuietStep
<1>6. QED
  BY <1>2, <1>3, <1>5, QuietKept

(* The same, for a step that notes nothing. *)
LEMMA GotoKept ==
  ASSUME PublishInv, NEW j \in Jobs, StoreType', UNCHANGED <<parts, runs, record>>, RootsGrow,
         NEW q \in Commands, Goto(j, q), SamePlace(job[j].pc, q),
         q \notin HoldingPcs \cup {"r_manifest"},
         q \in VerifiedPcs => job[j].pc \in VerifiedPcs \/ Complete(job[j].root, job[j].used)
  PROVE  PublishInv'
<1>1. job[j] \in JobType
  BY DEF PublishInv, JobsFit
<1>2. PICK v : v = [job[j] EXCEPT !.pc = q]
  OBVIOUS
<1>3. /\ v \in JobType /\ v.pc = q /\ v.kind = job[j].kind /\ v.root = job[j].root
      /\ v.tasks = job[j].tasks /\ v.sha = job[j].sha /\ v.used = job[j].used
  BY <1>1, <1>2, Moved
<1>4. Becomes(j, v)
  BY <1>2 DEF Goto, Becomes
<1>5. QED
  BY <1>3, <1>4, StepKept

(* The same, for a check that ends the job when it fails. *)
LEMMA RequireKept ==
  ASSUME PublishInv, NEW j \in Jobs, StoreType', UNCHANGED <<dirs, record>>,
         NEW check, NEW q \in Commands, Require(j, check, q), SamePlace(job[j].pc, q),
         q \notin HoldingPcs \cup {"r_manifest"},
         q \in VerifiedPcs /\ check => job[j].pc \in VerifiedPcs \/ Complete(job[j].root, job[j].used)
  PROVE  PublishInv'
<1>1. CASE check
  BY <1>1, GotoKept DEF Require, RootsGrow, dirs
<1>2. CASE ~check
  BY <1>2, EndKept DEF Require
<1>3. QED
  BY <1>1, <1>2

(* What a verified evaluation has is what the record will rest on. *)
LEMMA VerifiedIsComplete ==
  ASSUME NEW r, NEW used, CompleteEvaluation(r, used)
  PROVE  Complete(r, used)
BY DEF CompleteEvaluation, RunOutputs, ArtifactReference, Published, Complete, Backs

(* The checks of a rebuild and of a training. *)
Checks(j) ==
  \/ BindCatalog(j) \/ RequireNewRoots(j) \/ LoadWindow(j) \/ ValidateProvenance(j)
  \/ LookAtPartition(j) \/ BindAgain(j) \/ BuildRecord(j) \/ RequireComplete(j)
  \/ RecheckRevision(j) \/ RecheckContract(j)
(* They leave everything on disk as it is. *)
LEMMA ChecksKept ==
  ASSUME PublishInv, NEW j \in Jobs, Checks(j), UNCHANGED <<catalog, raw>>
  PROVE  PublishInv'
<1>1. StoreType' /\ UNCHANGED <<dirs, record>>
  BY DEF Checks, BindCatalog, RequireNewRoots, LoadWindow, ValidateProvenance, LookAtPartition,
    BindAgain, BuildRecord, RequireComplete, RecheckRevision, RecheckContract, PublishInv, StoreType, dirs
<1>2. CASE BindCatalog(j)
  <2>1. "new_roots" \in Commands /\ SamePlace("bind", "new_roots")
    BY DEF Commands, SamePlace, AdmissionPcs
  <2>2. QED
    BY <1>1, <1>2, <2>1, RequireKept DEF BindCatalog, At, HoldingPcs, VerifiedPcs
<1>3. CASE RequireNewRoots(j)
  <2>1. "mkdir_run" \in Commands /\ SamePlace("new_roots", "mkdir_run")
    BY DEF Commands, SamePlace, AdmissionPcs
  <2>2. QED
    BY <1>1, <1>3, <2>1, RequireKept DEF RequireNewRoots, At, HoldingPcs, VerifiedPcs
<1>4. CASE LoadWindow(j)
  <2>1. "t_read" \in Commands /\ SamePlace("t_bind", "t_read")
    BY DEF Commands, SamePlace, ClaimingPcs
  <2>2. QED
    BY <1>1, <1>4, <2>1, RequireKept DEF LoadWindow, At, HoldingPcs, VerifiedPcs
<1>5. CASE ValidateProvenance(j)
  <2>1. "t_code" \in Commands /\ SamePlace("t_provenance", "t_code")
    BY DEF Commands, SamePlace, ClaimingPcs
  <2>2. QED
    BY <1>1, <1>5, <2>1, RequireKept DEF ValidateProvenance, At, HoldingPcs, VerifiedPcs
<1>6. CASE LookAtPartition(j)
  <2>1. "t_open" \in Commands /\ SamePlace("t_claim", "t_open")
    BY DEF Commands, SamePlace, ClaimingPcs
  <2>2. QED
    BY <1>1, <1>6, <2>1, RequireKept DEF LookAtPartition, At, HoldingPcs, VerifiedPcs
<1>7. CASE BindAgain(j)
  <2>1. "verify" \in Commands /\ SamePlace("bind_again", "verify")
    BY DEF Commands, SamePlace, FinalPcs
  <2>2. QED
    BY <1>1, <1>7, <2>1, RequireKept DEF BindAgain, At, HoldingPcs, VerifiedPcs
<1>8. CASE BuildRecord(j)
  <2>1. "complete" \in Commands /\ SamePlace("verify", "complete")
    BY DEF Commands, SamePlace, FinalPcs, VerifiedPcs
  <2>2. QED
    BY <1>1, <1>8, <2>1, VerifiedIsComplete, RequireKept DEF BuildRecord, At, HoldingPcs
<1>9. CASE RequireComplete(j)
  <2>1. "recheck" \in Commands /\ SamePlace("complete", "recheck") /\ "complete" \in VerifiedPcs
    BY DEF Commands, SamePlace, FinalPcs, VerifiedPcs
  <2>2. QED
    BY <1>1, <1>9, <2>1, RequireKept DEF RequireComplete, At, HoldingPcs
<1>10. CASE RecheckRevision(j)
  <2>1. "recontract" \in Commands /\ SamePlace("recheck", "recontract") /\ "recheck" \in VerifiedPcs
    BY DEF Commands, SamePlace, FinalPcs, VerifiedPcs
  <2>2. QED
    BY <1>1, <1>10, <2>1, RequireKept DEF RecheckRevision, At, HoldingPcs
<1>11. CASE RecheckContract(j)
  <2>1. "stage" \in Commands /\ SamePlace("recontract", "stage") /\ "recontract" \in VerifiedPcs
    BY DEF Commands, SamePlace, FinalPcs, VerifiedPcs
  <2>2. QED
    BY <1>1, <1>11, <2>1, RequireKept DEF RecheckContract, At, HoldingPcs
<1>12. QED
  BY <1>2, <1>3, <1>4, <1>5, <1>6, <1>7, <1>8, <1>9, <1>10, <1>11 DEF Checks

(* The revision is captured once, before anything else.                      *)
LEMMA CaptureProvenanceKept ==
  ASSUME PublishInv, NEW j \in Jobs, CaptureProvenance(j), UNCHANGED <<catalog, raw>>
  PROVE  PublishInv'
<1> DEFINE w == job[j]
<1>1. StoreType' /\ UNCHANGED <<dirs, record>>
  BY DEF CaptureProvenance, PublishInv, StoreType, dirs
<1>2. CASE ~Clean
  BY <1>1, <1>2, EndKept DEF CaptureProvenance
<1>3. CASE Clean
  <2>1. Fits(w) /\ w \in JobType /\ w.pc = "capture" /\ w.kind \in {"train", "oos"} /\ JobsFit
    BY KindOfPc DEF PublishInv, JobsFit, Fits, CaptureProvenance, At
  <2>2. w.tasks # <<>> /\ Head(w.tasks) \in Trainings
    <3>1. CASE w.kind = "oos"
      BY <2>1, <3>1, PlanIsComplete DEF Fits, TasksFit, AdmissionPcs
    <3>2. CASE w.kind = "train"
      <4>1. PICK f \in FoldIds : w.tasks = <<Training(f)>>
        BY <2>1, <3>2 DEF Fits, TasksFit
      <4>2. QED
        BY <4>1 DEF Trainings
    <3>3. QED
      BY <2>1, <3>1, <3>2
  <2>3. EntryPc(w.tasks, "manifest") = "t_bind"
    BY <2>2, TaskKinds DEF EntryPc
  <2>4. PICK q : q = IF w.kind = "oos" THEN "contract" ELSE "t_bind"
    OBVIOUS
  <2>5. PICK v : v = [w EXCEPT !.sha = repo.sha, !.commit = repo.head, !.pc = q]
    OBVIOUS
  <2>6. Becomes(j, v)
    BY <1>3, <2>3, <2>4, <2>5 DEF CaptureProvenance, Becomes
  <2>7. q \in Commands /\ repo.sha \in Nat /\ repo.head \in {0, 1}
    BY <2>4 DEF Commands, PublishInv, StoreType, RepoType
  <2>8. v \in JobType /\ v.pc = q /\ v.kind = w.kind /\ v.root = w.root /\ v.tasks = w.tasks
    BY <2>1, <2>5, <2>7 DEF JobType
  <2>9. Others(j) /\ job'[j] = v
    BY <2>1, <2>6, <2>8, OneJob
  <2>10. Fits(v)
    BY <2>1, <2>2, <2>4, <2>8 DEF Fits, PcFits, TasksFit, CandFits, AdmissionPcs, ClaimingPcs,
      HoldingPcs, RunningPcs, FinalPcs, VerifiedPcs
  <2>11. QuietStep(w, v)
    BY <2>1, <2>4, <2>8 DEF QuietStep, HoldingPcs, RunningPcs, VerifiedPcs
  <2>12. QED
    BY <1>1, <2>9, <2>10, <2>11, QuietKept DEF RootsGrow, dirs
<1>4. QED
  BY <1>2, <1>3

(* What a rebuild or a training reads of the contract, the catalog, the code. *)
ReadKept(j) == RebuildContract(j) \/ ReadTrainingRows(j) \/ RuntimeIdentity(j)
(* They too leave everything on disk as it is. *)
LEMMA ReadsKept ==
  ASSUME PublishInv, NEW j \in Jobs, ReadKept(j), UNCHANGED <<catalog, raw>>
  PROVE  PublishInv'
<1> DEFINE w == job[j]
<1>1. /\ StoreType' /\ UNCHANGED <<dirs, record>> /\ w \in JobType /\ repo.work \in {0, 1}
      /\ UNCHANGED <<parts, runs, record>> /\ RootsGrow
  BY DEF ReadKept, RebuildContract, ReadTrainingRows, RuntimeIdentity, PublishInv, JobsFit, StoreType,
    RepoType, RootsGrow, dirs
<1>2. CASE RebuildContract(j)
  <2>1. PICK v : v = [w EXCEPT !.contract = repo.work, !.pc = "bind"]
    OBVIOUS
  <2>2. Becomes(j, v) /\ w.pc = "contract"
    BY <1>2, <2>1 DEF RebuildContract, Becomes, At
  <2>3. /\ v \in JobType /\ v.pc = "bind" /\ v.kind = w.kind /\ v.root = w.root
        /\ v.tasks = w.tasks /\ v.sha = w.sha
    <3>1. w \in JobType /\ repo.work \in {0, 1} /\ "bind" \in Commands
      BY <1>1 DEF Commands
    <3>2. QED
      BY <2>1, <3>1 DEF JobType
  <2>4. SamePlace("contract", "bind") /\ "bind" \notin HoldingPcs \cup VerifiedPcs
    BY DEF SamePlace, AdmissionPcs, HoldingPcs, VerifiedPcs
  <2>5. QED
    BY <1>1, <2>2, <2>3, <2>4, StepKept
<1>3. CASE ReadTrainingRows(j)
  <2>1. CASE End(j)
    BY <1>1, <2>1, EndKept
  <2>2. CASE ~End(j)
    <3>0. PICK d : d = IF CatalogLocked THEN w.reads ELSE "other"
      OBVIOUS
    <3>1. PICK v : v = [w EXCEPT !.pc = "t_provenance", !.reads = d]
      OBVIOUS
    <3>2. Becomes(j, v) /\ w.pc = "t_read"
      BY <1>3, <2>2, <3>0, <3>1 DEF ReadTrainingRows, Becomes, At
    <3>3. /\ v \in JobType /\ v.pc = "t_provenance" /\ v.kind = w.kind /\ v.root = w.root
          /\ v.tasks = w.tasks /\ v.sha = w.sha
      <4>1. w \in JobType /\ "t_provenance" \in Commands
        BY <1>1 DEF Commands
      <4>2. d \in {"locked", "other"}
        BY <3>0, <4>1 DEF JobType
      <4>3. QED
        BY <3>1, <4>1, <4>2 DEF JobType
    <3>4. SamePlace("t_read", "t_provenance") /\ "t_provenance" \notin HoldingPcs \cup VerifiedPcs
      BY DEF SamePlace, ClaimingPcs, HoldingPcs, VerifiedPcs
    <3>5. QED
      BY <1>1, <3>2, <3>3, <3>4, StepKept
  <2>3. QED
    BY <2>1, <2>2
<1>4. CASE RuntimeIdentity(j)
  <2>1. PICK v : v = [w EXCEPT !.code = repo.work, !.pc = "t_claim"]
    OBVIOUS
  <2>2. Becomes(j, v) /\ w.pc = "t_code"
    BY <1>4, <2>1 DEF RuntimeIdentity, Becomes, At
  <2>3. /\ v \in JobType /\ v.pc = "t_claim" /\ v.kind = w.kind /\ v.root = w.root
        /\ v.tasks = w.tasks /\ v.sha = w.sha
    <3>1. w \in JobType /\ repo.work \in {0, 1} /\ "t_claim" \in Commands
      BY <1>1 DEF Commands
    <3>2. QED
      BY <2>1, <3>1 DEF JobType
  <2>4. SamePlace("t_code", "t_claim") /\ "t_claim" \notin HoldingPcs \cup VerifiedPcs
    BY DEF SamePlace, ClaimingPcs, HoldingPcs, VerifiedPcs
  <2>5. QED
    BY <1>1, <2>2, <2>3, <2>4, StepKept
<1>5. QED
  BY <1>2, <1>3, <1>4 DEF ReadKept

(* The roots of a rebuild and its parameters are made once.                  *)
LEMMA RootsKept ==
  ASSUME PublishInv, NEW j \in Jobs, UNCHANGED <<catalog, raw>>,
         \/ MakeRoot(j, "run_root", "mkdir_run", "mkdir_evidence")
         \/ MakeRoot(j, "evidence_root", "mkdir_evidence", "freeze")
         \/ FreezeParameters(j)
  PROVE  PublishInv'
<1> DEFINE w == job[j]
<1>1. /\ Fits(w) /\ w \in JobType /\ StoreType /\ w.pc \in {"mkdir_run", "mkdir_evidence", "freeze"}
      /\ w.kind = "oos" /\ w.root \in Roots /\ w.tasks = EvaluationPlan
  <2>1. Fits(w) /\ w \in JobType /\ StoreType
    BY DEF PublishInv, JobsFit
  <2>2. w.pc \in {"mkdir_run", "mkdir_evidence", "freeze"}
    BY DEF MakeRoot, FreezeParameters, At
  <2>3. w.kind = "oos"
    BY <2>1, <2>2, KindOfPc DEF Fits, AdmissionPcs
  <2>4. QED
    BY <2>1, <2>2, <2>3 DEF Fits, TasksFit, AdmissionPcs
<1>2. CASE End(j) /\ UNCHANGED roots
  BY <1>1, <1>2, EndKept DEF StoreType, MakeRoot, FreezeParameters, dirs
<1>3. CASE ~(End(j) /\ UNCHANGED roots)
  <2>1. PICK dir \in {"run_root", "evidence_root", "parameters"} :
          roots' = [roots EXCEPT ![w.root] = @ \cup {dir}]
    BY <1>3 DEF MakeRoot, FreezeParameters
  <2>2. RootsGrow /\ StoreType' /\ UNCHANGED <<parts, runs, record>>
    BY <1>1, <2>1 DEF RootsGrow, StoreType, RootFiles, MakeRoot, FreezeParameters
  <2>3. EntryPc(w.tasks, "manifest") = "t_bind"
    BY <1>1, PlanIsComplete, TaskKinds DEF EntryPc
  <2>4. \/ w.pc = "mkdir_run" /\ Goto(j, "mkdir_evidence")
        \/ w.pc = "mkdir_evidence" /\ Goto(j, "freeze")
        \/ w.pc = "freeze" /\ Goto(j, "t_bind")
    BY <1>3, <2>3 DEF MakeRoot, FreezeParameters, At
  <2>5. CASE w.pc = "freeze" /\ Goto(j, "t_bind")
    <3>1. PICK v : v = [w EXCEPT !.pc = "t_bind"]
      OBVIOUS
    <3>2. "t_bind" \in Commands
      BY DEF Commands
    <3>3. /\ v \in JobType /\ v.pc = "t_bind" /\ v.kind = w.kind /\ v.root = w.root
          /\ v.tasks = w.tasks /\ v.sha = w.sha
      BY <1>1, <3>1, <3>2, Moved
    <3>4. Becomes(j, v) /\ JobsFit
      BY <2>5, <3>1 DEF Goto, Becomes, PublishInv
    <3>5. Others(j) /\ job'[j] = v
      BY <3>3, <3>4, OneJob
    <3>6. Fits(v)
      BY <1>1, <3>3, PlanIsComplete DEF Fits, PcFits, TasksFit, CandFits, AdmissionPcs, ClaimingPcs,
        HoldingPcs, RunningPcs, FinalPcs, VerifiedPcs
    <3>7. QuietStep(w, v)
      BY <3>3 DEF QuietStep, HoldingPcs, RunningPcs, VerifiedPcs
    <3>8. QED
      BY <2>2, <3>5, <3>6, <3>7, QuietKept
  <2>6. CASE \E q \in {"mkdir_evidence", "freeze"} :
               Goto(j, q) /\ w.pc \in {"mkdir_run", "mkdir_evidence"}
    <3>1. PICK q \in {"mkdir_evidence", "freeze"} :
            Goto(j, q) /\ w.pc \in {"mkdir_run", "mkdir_evidence"}
      BY <2>6
    <3>2. q \in Commands /\ SamePlace(w.pc, q) /\ q \notin HoldingPcs \cup {"r_manifest"} \cup VerifiedPcs
      BY <3>1 DEF Commands, SamePlace, AdmissionPcs, HoldingPcs, VerifiedPcs
    <3>3. QED
      BY <2>2, <3>1, <3>2, GotoKept
  <2>7. QED
    BY <2>4, <2>5, <2>6
<1>4. QED
  BY <1>2, <1>3

(* The checks and reads of a run. *)
RunSteps(j) ==
  \/ BindRun(j) \/ ReadExpected(j) \/ LoadNativeData(j) \/ LoadArtifact(j) \/ RereadManifest(j)
  \/ RunEngine(j) \/ Rebind(j)
(* They touch the run partition only to take an empty one away. *)
LEMMA RunStepsKept ==
  ASSUME PublishInv, NEW j \in Jobs, RunSteps(j), UNCHANGED <<catalog, raw>>
  PROVE  PublishInv'
<1> DEFINE w == job[j]
<1>1. /\ w.pc \in RunningPcs \ {"r_reports", "r_manifest"}
      /\ UNCHANGED <<parts, roots, repo, record>>
  BY DEF RunSteps, BindRun, ReadExpected, LoadNativeData, LoadArtifact, RereadManifest, RunEngine, Rebind,
    At, RunningPcs
<1>2. CASE ReleaseEmpty(j)
  BY <1>1, <1>2, ReleaseEmptyKept
<1>3. CASE ~ReleaseEmpty(j)
  <2>1. UNCHANGED runs
    BY <1>3 DEF RunSteps, BindRun, ReadExpected, LoadNativeData, LoadArtifact, RereadManifest, RunEngine,
      Rebind, RequireRun
  <2>2. StoreType' /\ RootsGrow /\ w \in JobType /\ UNCHANGED <<parts, runs, record>>
    BY <1>1, <2>1 DEF PublishInv, JobsFit, StoreType, RootsGrow
  <2> DEFINE Ahead == {"r_expected", "r_native", "r_load", "r_reread", "r_engine", "r_rebind", "r_reports"}
  <2>3. ASSUME NEW q \in Ahead
        PROVE  /\ q \in Commands /\ SamePlace(w.pc, q)
               /\ q \notin HoldingPcs \cup {"r_manifest"} \cup VerifiedPcs
    BY <1>1 DEF Commands, SamePlace, RunningPcs, HoldingPcs, VerifiedPcs
  <2>4. CASE \E q \in Ahead : Goto(j, q)
    BY <2>2, <2>3, <2>4, GotoKept
  <2>5. ASSUME NEW q \in Ahead, NEW v \in JobType, Becomes(j, v), v.pc = q, v.kind = w.kind,
               v.root = w.root, v.tasks = w.tasks, v.sha = w.sha
        PROVE  PublishInv'
    BY <2>2, <2>3, <2>5, StepKept
  <2>6. CASE ReadExpected(j)
    <3>1. PICK v : v = [w EXCEPT !.seen = ReadResult, !.pc = "r_native"]
      OBVIOUS
    <3>2. Becomes(j, v)
      BY <1>3, <2>6, <3>1 DEF ReadExpected, Becomes
    <3>3. ReadResult \in SeenTypes /\ "r_native" \in Commands
      BY DEF ReadResult, SeenTypes, Commands
    <3>4. /\ v \in JobType /\ v.pc = "r_native" /\ v.kind = w.kind /\ v.root = w.root
          /\ v.tasks = w.tasks /\ v.sha = w.sha
      BY <2>2, <3>1, <3>3 DEF JobType
    <3>5. QED
      BY <2>5, <3>2, <3>4
  <2>7. CASE LoadNativeData(j)
    <3>1. PICK s, q : /\ s = IF w.seen \in {None, ReadResult} THEN "parity" ELSE "differs"
                      /\ q = IF IsModel(j) THEN "r_load" ELSE "r_engine"
      OBVIOUS
    <3>2. PICK d : d = IF CatalogLocked THEN w.reads ELSE "other"
      OBVIOUS
    <3>3. PICK v : v = [w EXCEPT !.seen = s, !.reads = d, !.pc = q]
      OBVIOUS
    <3>4. Becomes(j, v)
      BY <1>3, <2>7, <3>1, <3>2, <3>3 DEF LoadNativeData, Becomes
    <3>5. s \in SeenTypes /\ q \in Ahead /\ q \in Commands /\ d \in {"locked", "other"}
      BY <2>2, <3>1, <3>2 DEF SeenTypes, Commands, JobType
    <3>6. /\ v \in JobType /\ v.pc = q /\ v.kind = w.kind /\ v.root = w.root
          /\ v.tasks = w.tasks /\ v.sha = w.sha
      BY <2>2, <3>3, <3>5 DEF JobType
    <3>7. QED
      BY <2>5, <3>4, <3>5, <3>6
  <2>8. CASE LoadArtifact(j)
    <3>1. Fits(w) /\ w.tasks # <<>> /\ Head(w.tasks) \in RunKeys /\ w.root \in Roots
      BY <1>1, TaskPlace DEF PublishInv, JobsFit, Fits, TasksFit, OwnRun
    <3>2. Now(j).fold \in FoldIds /\ Part(j).manifest \in Manifests \cup {None}
      BY <3>1, TaskKinds, <2>2 DEF Now, Part, Partition, PublishInv, StoreType, PartType
    <3>3. PICK u : u = [w.used EXCEPT ![Now(j).fold] = Part(j).manifest]
      OBVIOUS
    <3>4. PICK v : v = [w EXCEPT !.used = u, !.pc = "r_reread"]
      OBVIOUS
    <3>5. Becomes(j, v)
      BY <1>3, <2>8, <3>3, <3>4 DEF LoadArtifact, Becomes
    <3>6. u \in [FoldIds -> Manifests \cup {None}] /\ "r_reread" \in Commands
      BY <2>2, <3>2, <3>3 DEF JobType, Commands
    <3>7. /\ v \in JobType /\ v.pc = "r_reread" /\ v.kind = w.kind /\ v.root = w.root
          /\ v.tasks = w.tasks /\ v.sha = w.sha
      BY <2>2, <3>4, <3>6 DEF JobType
    <3>8. QED
      BY <2>5, <3>5, <3>7
  <2>9. QED
    BY <1>3, <2>4, <2>6, <2>7, <2>8 DEF RunSteps, BindRun, RereadManifest, RunEngine, Rebind, RequireRun
<1>4. QED
  BY <1>2, <1>3

(* The manifest of an evaluation is written when nothing is left to do. *)
LEMMA WriteEvaluationManifestKept ==
  ASSUME PublishInv, NEW j \in Jobs, WriteEvaluationManifest(j), UNCHANGED <<catalog, raw>>
  PROVE  PublishInv'
<1> DEFINE w == job[j]
<1>1. /\ w.pc = "manifest" /\ Fits(w) /\ w \in JobType /\ JobSound(w, j) /\ StoreType /\ StoreInv /\ JobsFit
      /\ UNCHANGED <<parts, runs, record>>
  BY DEF WriteEvaluationManifest, At, PublishInv, JobsFit
<1>2. w.kind = "oos" /\ w.tasks = <<>> /\ w.root \in Roots
  <2>1. w.kind = "oos"
    BY <1>1, KindOfPc DEF Fits, FinalPcs
  <2>2. QED
    BY <1>1, <2>1, TaskPlace DEF Fits, TasksFit, FinalPcs
<1>3. PICK r \in Roots : r = w.root
  BY <1>2
<1>4. /\ roots' = [roots EXCEPT ![r] = @ \cup {"manifest"}]
      /\ roots' \in [Roots -> SUBSET RootFiles]
  BY <1>1, <1>3 DEF WriteEvaluationManifest, StoreType, RootFiles
<1>5. StoreType' /\ Grows(j)
  BY <1>1, <1>4 DEF StoreType, WriteEvaluationManifest, Grows, PartGrows, RunGrows
<1>6. PICK v : v = [w EXCEPT !.pc = "bind_again"]
  OBVIOUS
<1>7. /\ v \in JobType /\ v.pc = "bind_again" /\ v.kind = w.kind /\ v.root = w.root
      /\ v.tasks = w.tasks /\ v.sha = w.sha
  <2>1. "bind_again" \in Commands
    BY DEF Commands
  <2>2. QED
    BY <1>1, <1>6, <2>1, Moved
<1>8. Others(j) /\ job'[j] = v
  <2>1. Becomes(j, v)
    BY <1>6 DEF WriteEvaluationManifest, Goto, Becomes
  <2>2. QED
    BY <1>1, <1>7, <2>1, OneJob
<1>9. Fits(v)
  BY <1>1, <1>7, StaysFit DEF SamePlace, FinalPcs
<1>10. /\ \A t \in RunSet : runs'[<<r, t>>].files = Outputs
       /\ \A f \in FoldIds : parts'[<<r, f>>].manifest # None
  <2>1. ToDo(w) = {} /\ Trained(w) = FoldIds
    BY <1>2 DEF ToDo, Trained
  <2>2. QED
    BY <1>1, <1>2, <1>3, <2>1 DEF JobSound, Progress
<1>11. ManifestMeansAll'
  <2> SUFFICES ASSUME NEW q \in Roots, "manifest" \in roots'[q]
               PROVE  /\ \A t \in RunSet : runs'[<<q, t>>].files = Outputs
                      /\ \A f \in FoldIds : parts'[<<q, f>>].manifest # None
    BY DEF ManifestMeansAll
  <2>1. CASE q = r
    BY <1>10, <2>1
  <2>2. CASE q # r
    <3>1. "manifest" \in roots[q]
      BY <1>1, <1>4, <2>2 DEF StoreType
    <3>2. QED
      BY <1>1, <1>5, <3>1, ManifestsStay DEF StoreInv
  <2>3. QED
    BY <2>1, <2>2
<1>12. RecordComplete' /\ ReportsFirst'
  BY <1>1, <1>5, RecordStays DEF StoreInv, ReportsFirst
<1>13. JobSound(job[j], j)'
  <2>1. Progress(job[j])'
    BY <1>1, <1>5, <1>7, <1>8, ProgressStays DEF JobSound
  <2>2. QED
    BY <1>7, <1>8, <2>1 DEF JobSound, HoldsClaim, HoldsRun, Verified, HoldingPcs, RunningPcs, VerifiedPcs
<1>14. v.pc \notin RunningPcs
  BY <1>7 DEF RunningPcs
<1>15. QED
  BY <1>5, <1>8, <1>9, <1>11, <1>12, <1>13, <1>14, StepComposed

(* The record is staged beside its place. *)
LEMMA StageRecordKept ==
  ASSUME PublishInv, NEW j \in Jobs, StageRecord(j), UNCHANGED <<catalog, raw>>
  PROVE  PublishInv'
<1>1. repo' \in RepoType
  BY DEF PublishInv, StoreType, StageRecord, RepoType
<1>2. StoreType' /\ RootsGrow /\ UNCHANGED <<parts, runs, record>>
  BY <1>1 DEF PublishInv, StoreType, StageRecord, RootsGrow, dirs
<1>3. /\ "publish" \in Commands /\ SamePlace("stage", "publish") /\ "stage" \in VerifiedPcs
      /\ "publish" \notin HoldingPcs \cup {"r_manifest"}
  BY DEF Commands, SamePlace, FinalPcs, VerifiedPcs, HoldingPcs
<1>4. Goto(j, "publish") /\ job[j].pc = "stage"
  BY DEF StageRecord, At
<1>5. QED
  BY <1>2, <1>3, <1>4, GotoKept

(* The record that is published. *)
LEMMA PublishedRecord ==
  ASSUME PublishInv, NEW j \in Jobs, PublishRecord(j)
  PROVE  /\ job[j].root \in Roots /\ Complete(job[j].root, job[j].used)
         /\ job[j].used \in [FoldIds -> Manifests] /\ record' = AcceptanceRecord(j)
         /\ record' \in Records /\ record'.root = job[j].root /\ record'.used = job[j].used
<1> DEFINE w == job[j]
<1>1. w.pc = "publish" /\ Fits(w) /\ w \in JobType /\ JobSound(w, j) /\ record' = AcceptanceRecord(j)
  BY DEF PublishRecord, At, PublishInv, JobsFit
<1>2. w.root \in Roots /\ Complete(w.root, w.used)
  <2>1. w.pc \in VerifiedPcs
    BY <1>1 DEF VerifiedPcs
  <2>2. w.kind = "oos"
    BY <1>1, <2>1, KindOfPc DEF Fits, FinalPcs
  <2>3. QED
    BY <1>1, <2>1, <2>2, TaskPlace DEF JobSound, Verified
<1>3. w.used \in [FoldIds -> Manifests]
  BY <1>1, <1>2 DEF JobType, Complete
<1>4. /\ w.sha \in Nat /\ w.commit \in {0, 1} /\ w.contract \in {0, 1} /\ w.reads \in {"locked", "other"}
      /\ w.disturbed \in BOOLEAN /\ w.edits \in Nat
  BY <1>1 DEF JobType
<1>5. QED
  BY <1>1, <1>2, <1>3, <1>4 DEF AcceptanceRecord, Records

(* The record names the evaluation that was verified. *)
LEMMA PublishRecordKept ==
  ASSUME PublishInv, NEW j \in Jobs, PublishRecord(j), UNCHANGED <<catalog, raw>>
  PROVE  PublishInv'
<1> DEFINE w == job[j]
<1>1. /\ Fits(w) /\ w \in JobType /\ StoreType /\ StoreInv /\ JobsFit /\ UNCHANGED dirs /\ End(j)
  BY DEF PublishRecord, PublishInv, JobsFit
<1>2. w.root \in Roots /\ Complete(w.root, w.used)
  BY PublishedRecord
<1>3. record' \in Records /\ record'.root = w.root /\ record'.used = w.used
  BY PublishedRecord
<1>4. repo' \in RepoType
  BY DEF PublishInv, StoreType, PublishRecord, RepoType
<1>5. StoreType' /\ Grows(j)
  BY <1>1, <1>3, <1>4 DEF StoreType, dirs, Grows, PartGrows, RunGrows
<1>6. Others(j) /\ job'[j] = Ended
  <2>1. Ended \in JobType /\ Becomes(j, Ended)
    BY <1>1, EndedFits DEF Fits, End, Becomes
  <2>2. QED
    BY <1>1, <2>1, OneJob
<1>7. RecordComplete'
  <2>1. PICK r, u : r \in Roots /\ r = w.root /\ u = w.used
    BY <1>2
  <2>2. Complete(r, u)'
    BY <1>1, <1>2, <1>5, <2>1, CompleteStays
  <2>3. QED
    BY <1>3, <2>1, <2>2 DEF RecordComplete
<1>8. ReportsFirst' /\ ManifestMeansAll'
  BY <1>1 DEF StoreInv, ReportsFirst, ManifestMeansAll, dirs
<1>9. Fits(job'[j]) /\ JobSound(job[j], j)' /\ job'[j].pc \notin RunningPcs
  BY <1>6, EndedSound, EndedFits DEF RunningPcs
<1>10. QED
  BY <1>5, <1>6, <1>7, <1>8, <1>9, StepComposed

-----------------------------------------------------------------------------
(* The steps of the jobs that fill the catalog and the raw root. *)

DatasetKinds == {"catalog", "sources", "fetch", "rebuild", "release_catalog", "release_sources"}
(* A dataset job stays one, whatever else it notes. *)
SameJob(w, v) ==
  v.kind = w.kind /\ v.root = w.root /\ v.tasks = w.tasks /\ v.sha = w.sha

(* Where a dataset job may go says all that must fit. *)
LEMMA DatasetFits ==
  ASSUME NEW w, Fits(w), w.kind \in DatasetKinds, NEW v \in JobType, SameJob(w, v), PcFits(v), CandFits(v)
  PROVE  /\ Fits(v)
         /\ v.pc \notin ClaimingPcs \cup HoldingPcs \cup {"r_mkdir"} \cup RunningPcs \cup VerifiedPcs
<1>1. v.kind \notin {"train", "backtest", "oos"}
  BY DEF SameJob, DatasetKinds
<1>2. v.pc \notin ClaimingPcs \cup HoldingPcs \cup {"r_mkdir"} \cup RunningPcs \cup FinalPcs
  BY <1>1, KindOfPc
<1>3. TasksFit(v)
  BY <1>1, <1>2 DEF TasksFit
<1>4. QED
  BY <1>2, <1>3 DEF Fits, FinalPcs

(* A write into the catalog changes one bit of the other jobs. *)
LEMMA OneJobDisturbs ==
  ASSUME JobsFit, NEW j \in Jobs, NEW v \in JobType, Disturb(j, v)
  PROVE  Others(j) /\ job'[j] = v
<1>1. ASSUME NEW k \in Jobs, k # j PROVE job'[k] \in JobType /\ Alike(job[k], job'[k])
  <2>1. job[k] \in JobType
    BY DEF JobsFit
  <2>2. job'[k] = job[k] \/ job'[k] = [job[k] EXCEPT !.disturbed = TRUE]
    BY <1>1 DEF Disturb
  <2>3. QED
    BY <2>1, <2>2, ZenonT(60) DEF JobType, Alike
<1>2. job'[j] = v /\ job' = [k \in Jobs |-> job'[k]]
  BY DEF Disturb
<1>3. job' \in [Jobs -> JobType]
  BY <1>1, <1>2
<1>4. QED
  BY <1>1, <1>2, <1>3 DEF Others

(* What a dataset job may write: files of either root, of the known contents. *)
DataTyped == catalog' \in [CatalogFiles -> Contents] /\ raw' \in [RawFiles -> Contents]

(* A step of a dataset job leaves the evidence as it is. *)
LEMMA DatasetKept ==
  ASSUME PublishInv, NEW j \in Jobs, DataTyped, UNCHANGED <<dirs, repo, record>>,
         NEW v \in JobType, Becomes(j, v) \/ Disturb(j, v),
         job[j].kind \in DatasetKinds, SameJob(job[j], v), PcFits(v), CandFits(v)
  PROVE  PublishInv'
<1>1. StoreType' /\ JobsFit /\ Fits(job[j])
  BY DEF PublishInv, JobsFit, StoreType, DataTyped, dirs
<1>2. Others(j) /\ job'[j] = v
  BY <1>1, OneJob, OneJobDisturbs
<1>3. /\ Fits(v)
      /\ v.pc \notin ClaimingPcs \cup HoldingPcs \cup {"r_mkdir"} \cup RunningPcs \cup VerifiedPcs
  BY <1>1, DatasetFits
<1>4. QuietStep(job[j], v)
  BY <1>3 DEF QuietStep, SameJob
<1>5. QED
  BY <1>1, <1>2, <1>3, <1>4, QuietKept DEF RootsGrow, dirs

(* A dataset job that stops leaves the evidence as it is. *)
LEMMA DatasetEndKept ==
  ASSUME PublishInv, NEW j \in Jobs, DataTyped, UNCHANGED <<dirs, repo, record>>, End(j)
  PROVE  PublishInv'
<1>1. StoreType'
  BY DEF PublishInv, StoreType, DataTyped, dirs
<1>2. QED
  BY <1>1, EndKept

(* A dataset job that only goes on. *)
LEMMA DatasetGoesOn ==
  ASSUME PublishInv, NEW j \in Jobs, UNCHANGED <<catalog, raw, dirs, repo, record>>,
         NEW q \in Commands, Goto(j, q), job[j].kind \in DatasetKinds,
         NEW v, v = [job[j] EXCEPT !.pc = q], PcFits(v), CandFits(v)
  PROVE  PublishInv'
<1>1. job[j] \in JobType /\ DataTyped
  BY DEF PublishInv, JobsFit, StoreType, DataTyped
<1>2. v \in JobType /\ SameJob(job[j], v)
  BY <1>1, Moved DEF SameJob
<1>3. Becomes(j, v)
  BY DEF Goto, Becomes
<1>4. QED
  BY <1>1, <1>2, <1>3, DatasetKept

(* The steps that download and unpack an archive, or fetch the sources. *)
FetchSteps(j) ==
  \/ RequireSafeTarget(j) \/ Download(j) \/ VerifyAsset(j) \/ ExtractArchive(j) \/ LoadCatalogSources(j)
  \/ \E s \in Sources : SubmitSource(j, s) \/ FetchChecksum(j, s) \/ FetchArchive(j, s)
  \/ JoinWorkers(j)

(* Where a download may go on to, and what it has verified by then. *)
Onward(w, q) ==
  \/ q = "m_download" /\ w.kind # "fetch"
  \/ q = "m_extract" /\ w.pc = "m_verify" /\ w.cand["archive"] = "locked"
  \/ q = "m_replace" /\ w.pc = "m_extract"
  \/ q \in {"m_check", "f_work"}
  \/ q = "m_replace" /\ w.pc = "f_work" /\ \A s \in Sources : w.cand[s] = "locked"

(* The other files stay out of it while a dataset is downloaded. *)
LEMMA FetchStepsKept ==
  ASSUME PublishInv, NEW j \in Jobs, FetchSteps(j), UNCHANGED <<dirs, repo, record>>,
         job[j].kind \in {"catalog", "sources", "fetch"},
         job[j].kind # "fetch" => job[j].pc \notin {"f_manifest", "f_work"}
  PROVE  PublishInv'
<1> DEFINE w == job[j]
<1>1. /\ Fits(w) /\ w \in JobType /\ w.pc \in DatasetPcs /\ CandFits(w) /\ w.kind \in DatasetKinds
      /\ UNCHANGED <<catalog, raw>> /\ DataTyped
  <2>1. Fits(w) /\ UNCHANGED <<catalog, raw>>
    BY DEF PublishInv, JobsFit, FetchSteps, RequireSafeTarget, Download, VerifyAsset, ExtractArchive,
      LoadCatalogSources, SubmitSource, FetchChecksum, FetchArchive, JoinWorkers
  <2>2. QED
    BY <2>1 DEF Fits, PcFits, DatasetKinds, DataTyped, PublishInv, StoreType
<1>2. CASE End(j)
  BY <1>1, <1>2, DatasetEndKept
<1>3. ASSUME NEW q \in DatasetPcs, Goto(j, q), Onward(w, q) PROVE PublishInv'
  <2>1. UNCHANGED <<catalog, raw, dirs, repo, record>>
    BY <1>1
  <2>2. PICK v : v = [w EXCEPT !.pc = q]
    OBVIOUS
  <2>3. q \in Commands
    BY DEF DatasetPcs, Commands
  <2>4. v.kind = w.kind /\ v.pc = q /\ v.cand = w.cand /\ v.n = w.n
    BY <1>1, <2>2, <2>3, Moved
  <2>5. PcFits(v)
    BY <2>4, NoneAssumption DEF PcFits, Kinds
  <2>6. CandFits(v)
    BY <1>1, <1>3, <2>4 DEF CandFits, Onward
  <2>7. QED
    BY <1>1, <1>3, <2>1, <2>2, <2>3, <2>5, <2>6, DatasetGoesOn
<1>4. ASSUME NEW v \in JobType, Becomes(j, v), SameJob(w, v), v.pc \in DatasetPcs, CandFits(v)
      PROVE  PublishInv'
  <2>1. PcFits(v)
    BY <1>4, NoneAssumption DEF PcFits, SameJob, Kinds
  <2>2. QED
    BY <1>1, <1>4, <2>1, DatasetKept
<1>5. CASE Download(j) /\ ~End(j)
  <2>1. w.kind # "fetch" /\ w.pc = "m_download"
    BY <1>1, <1>5 DEF Download, At, CandFits
  <2>2. CASE \E c \in {"locked", "other"} :
          job' = [job EXCEPT ![j].cand = [a \in {"archive"} |-> c], ![j].pc = "m_verify"]
    <3>1. PICK c \in {"locked", "other"} :
            job' = [job EXCEPT ![j].cand = [a \in {"archive"} |-> c], ![j].pc = "m_verify"]
      BY <2>2
    <3>2. PICK d : d = [a \in {"archive"} |-> c]
      OBVIOUS
    <3>3. PICK v : v = [w EXCEPT !.cand = d, !.pc = "m_verify"]
      OBVIOUS
    <3>4. Becomes(j, v)
      BY <3>1, <3>2, <3>3 DEF Becomes
    <3>5. d \in CandTypes /\ d \in [{"archive"} -> {"locked", "other"}] /\ "m_verify" \in Commands
      BY <3>2 DEF CandTypes, Commands
    <3>6. v \in JobType /\ SameJob(w, v) /\ v.pc = "m_verify" /\ v.cand = d
      BY <1>1, <3>3, <3>5 DEF JobType, SameJob
    <3>7. CandFits(v)
      BY <2>1, <3>5, <3>6 DEF CandFits, SameJob
    <3>8. QED
      BY <1>4, <3>4, <3>6, <3>7 DEF DatasetPcs
  <2>3. CASE job' = [job EXCEPT ![j].n = @ + 1]
    <3>1. PICK v : v = [w EXCEPT !.n = @ + 1]
      OBVIOUS
    <3>2. Becomes(j, v)
      BY <2>3, <3>1 DEF Becomes
    <3>3. v \in JobType /\ SameJob(w, v) /\ v.pc = "m_download"
      BY <1>1, <2>1, <3>1, SMTT(30) DEF JobType, SameJob
    <3>4. CandFits(v)
      BY <2>1, <3>3 DEF CandFits, SameJob
    <3>5. QED
      BY <1>4, <3>2, <3>3, <3>4 DEF DatasetPcs
  <2>4. QED
    BY <1>5, <2>2, <2>3 DEF Download
<1>6. CASE \E s \in Sources : SubmitSource(j, s) \/ FetchChecksum(j, s) \/ FetchArchive(j, s)
  <2>1. PICK s \in Sources, c \in SourceStates :
          w.pc = "f_work" /\ job' = [job EXCEPT ![j].cand[s] = c]
    BY <1>6 DEF SubmitSource, FetchChecksum, FetchArchive, At, SourceStates
  <2>2. w.kind = "fetch" /\ w.cand \in [Sources -> SourceStates]
    BY <1>1, <2>1 DEF CandFits
  <2>3. PICK d : d = [w.cand EXCEPT ![s] = c]
    OBVIOUS
  <2>4. PICK v : v = [w EXCEPT !.cand = d]
    OBVIOUS
  <2>5. Becomes(j, v)
    BY <2>1, <2>3, <2>4 DEF Becomes
  <2>6. d \in CandTypes /\ d \in [Sources -> SourceStates]
    BY <2>2, <2>3 DEF CandTypes
  <2>7. v \in JobType /\ SameJob(w, v) /\ v.pc = "f_work" /\ v.cand = d
    BY <1>1, <2>1, <2>4, <2>6 DEF JobType, SameJob
  <2>8. CandFits(v)
    BY <2>2, <2>6, <2>7 DEF CandFits, SameJob
  <2>9. QED
    BY <1>4, <2>5, <2>7, <2>8 DEF DatasetPcs
<1>7. CASE RequireSafeTarget(j)
  <2>1. PICK q : q = IF w.kind = "fetch" THEN "f_work" ELSE "m_download"
    OBVIOUS
  <2>2. q \in DatasetPcs /\ Onward(w, q)
    BY <2>1 DEF DatasetPcs, Onward
  <2>3. Goto(j, q) \/ End(j)
    BY <1>7, <2>1 DEF RequireSafeTarget, Require
  <2>4. QED
    BY <1>2, <1>3, <2>2, <2>3
<1>8. CASE VerifyAsset(j)
  <2>1. End(j) \/ (Goto(j, "m_extract") /\ Onward(w, "m_extract"))
    BY <1>8 DEF VerifyAsset, Require, At, Onward
  <2>2. QED
    BY <1>2, <1>3, <2>1 DEF DatasetPcs
<1>9. CASE ExtractArchive(j)
  <2>1. End(j) \/ (Goto(j, "m_replace") /\ Onward(w, "m_replace"))
    BY <1>9 DEF ExtractArchive, At, Onward
  <2>2. QED
    BY <1>2, <1>3, <2>1 DEF DatasetPcs
<1>10. CASE LoadCatalogSources(j)
  <2>1. End(j) \/ (Goto(j, "m_check") /\ Onward(w, "m_check"))
    BY <1>10 DEF LoadCatalogSources, Onward
  <2>2. QED
    BY <1>2, <1>3, <2>1 DEF DatasetPcs
<1>11. CASE JoinWorkers(j)
  <2>1. End(j) \/ (Goto(j, "m_replace") /\ Onward(w, "m_replace"))
    BY <1>11 DEF JoinWorkers, Require, At, AllVerified, Onward
  <2>2. QED
    BY <1>2, <1>3, <2>1 DEF DatasetPcs
<1>12. QED
  BY <1>2, <1>5, <1>6, <1>7, <1>8, <1>9, <1>10, <1>11 DEF FetchSteps

(* What is renamed into place are archives of known contents. *)
LEMMA InstallTyped ==
  ASSUME PublishInv, NEW j \in Jobs, job[j].pc = "m_replace", Install(j, job[j].cand)
  PROVE  DataTyped
<1> DEFINE w == job[j]
<1>1. /\ CandFits(w) /\ w.kind \in {"catalog", "sources", "fetch"}
      /\ catalog \in [CatalogFiles -> Contents] /\ raw \in [RawFiles -> Contents]
  BY KindOfPc DEF PublishInv, JobsFit, StoreType, Fits, DatasetPcs
<1>2. CASE w.kind = "catalog"
  <2>1. w.cand["archive"] \in Contents
    BY <1>1, <1>2 DEF CandFits, Contents
  <2>2. QED
    BY <1>1, <1>2, <2>1 DEF Install, DataTyped
<1>3. CASE w.kind # "catalog"
  <2>1. ASSUME NEW f \in RawFiles
        PROVE  (IF f = "snapshot" THEN "none" ELSE IF f \in DOMAIN w.cand THEN w.cand[f]
                ELSE w.cand["archive"]) \in Contents
    <3>1. CASE w.kind = "sources"
      <4>1. w.cand["archive"] \in {"locked", "other"} /\ DOMAIN w.cand = {"archive"}
        BY <1>1, <3>1 DEF CandFits
      <4>2. QED
        BY <4>1 DEF Contents
    <3>2. CASE w.kind = "fetch"
      <4>1. DOMAIN w.cand = Sources /\ \A s \in Sources : w.cand[s] = "locked"
        BY <1>1, <3>2 DEF CandFits
      <4>2. QED
        BY <4>1 DEF Contents, RawFiles
    <3>3. QED
      BY <1>1, <1>3, <3>1, <3>2
  <2>2. QED
    BY <1>1, <1>3, <2>1 DEF Install, DataTyped
<1>4. QED
  BY <1>2, <1>3

(* Renaming a candidate into place touches no evidence. *)
LEMMA ReplaceTargetKept ==
  ASSUME PublishInv, NEW j \in Jobs, ReplaceTarget(j), UNCHANGED <<dirs, repo, record>>
  PROVE  PublishInv'
<1>1. DataTyped
  <2>1. CASE UNCHANGED <<catalog, raw>>
    BY <2>1 DEF DataTyped, PublishInv, StoreType
  <2>2. CASE Install(j, job[j].cand)
    BY <2>2, InstallTyped DEF ReplaceTarget, At
  <2>3. QED
    BY <2>1, <2>2 DEF ReplaceTarget
<1>2. QED
  BY <1>1, DatasetEndKept DEF ReplaceTarget

(* The rebuild writes into the catalog, and nowhere else but for the snapshot. *)
LEMMA RebuildCatalogKept ==
  ASSUME PublishInv, NEW j \in Jobs, RebuildCatalog(j), UNCHANGED <<dirs, repo, record>>
  PROVE  PublishInv'
<1> DEFINE w == job[j]
<1>1. w.pc \in RebuildPcs
  BY DEF RebuildCatalog, LoadConfig, VerifySourceRoot, RefetchSnapshot, PrepareCatalog, ReadSources,
    BeginFile, SettleFile, WriteFails, ClearDirectory, WriteDefaultSnapshot, UnlinkSnapshot,
    VerifyRebuilt, At, RebuildPcs
<1>2. /\ w.kind = "rebuild" /\ w \in JobType /\ CandFits(w) /\ w.kind \in DatasetKinds
      /\ w.n \in Nat /\ (w.pc \in {"b_write", "b_settle"} => w.n \in 1..3) /\ w.todo \in SUBSET CatalogFiles
  <2>1. Fits(w)
    BY DEF PublishInv, JobsFit
  <2>2. w.kind = "rebuild"
    BY <1>1, <2>1, KindOfPc DEF Fits
  <2>3. QED
    BY <2>1, <2>2 DEF Fits, CandFits, DatasetKinds, JobType
<1>3. DataTyped
  <2>1. catalog \in [CatalogFiles -> Contents] /\ raw \in [RawFiles -> Contents]
    BY DEF PublishInv, StoreType
  <2>2. raw' \in [RawFiles -> Contents]
    BY <2>1 DEF RebuildCatalog, LoadConfig, VerifySourceRoot, RefetchSnapshot, PrepareCatalog, ReadSources,
      BeginFile, SettleFile, WriteFails, ClearDirectory, WriteDefaultSnapshot, UnlinkSnapshot,
      VerifyRebuilt, Contents
  <2>3. \/ UNCHANGED catalog
        \/ \E f, c : c \in Contents /\ catalog' = [catalog EXCEPT ![f] = c]
    BY DEF RebuildCatalog, LoadConfig, VerifySourceRoot, RefetchSnapshot, PrepareCatalog, ReadSources,
      BeginFile, SettleFile, WriteFails, ClearDirectory, WriteDefaultSnapshot, UnlinkSnapshot,
      VerifyRebuilt, Contents
  <2>4. QED
    BY <2>1, <2>2, <2>3 DEF DataTyped
<1>4. CASE End(j)
  BY <1>3, <1>4, DatasetEndKept
<1>5. ASSUME NEW v \in JobType, Becomes(j, v) \/ Disturb(j, v), SameJob(w, v), v.pc \in RebuildPcs,
             v.pc \in {"b_write", "b_settle"} => v.n \in 1..3
      PROVE  PublishInv'
  <2>1. PcFits(v) /\ CandFits(v)
    BY <1>2, <1>5, NoneAssumption DEF PcFits, CandFits, SameJob, Kinds
  <2>2. QED
    BY <1>2, <1>3, <1>5, <2>1, DatasetKept
<1>6. ASSUME NEW q \in RebuildPcs \ {"b_write", "b_settle"}, Goto(j, q) PROVE PublishInv'
  <2>1. PICK v : v = [w EXCEPT !.pc = q]
    OBVIOUS
  <2>2. q \in Commands
    BY DEF RebuildPcs, Commands
  <2>3. v \in JobType /\ SameJob(w, v) /\ v.pc = q
    BY <1>2, <2>1, <2>2, Moved DEF SameJob
  <2>4. Becomes(j, v)
    BY <1>6, <2>1 DEF Goto, Becomes
  <2>5. QED
    BY <1>5, <1>6, <2>3, <2>4
<1>7. CASE Fail(j)
  <2>1. PICK v : v = [w EXCEPT !.failed = TRUE, !.pc = "b_unlink"]
    OBVIOUS
  <2>2. "b_unlink" \in Commands
    BY DEF Commands
  <2>3. v \in JobType /\ SameJob(w, v) /\ v.pc = "b_unlink"
    BY <1>2, <2>1, <2>2 DEF JobType, SameJob
  <2>4. Becomes(j, v)
    BY <1>7, <2>1 DEF Fail, Becomes
  <2>5. QED
    BY <1>5, <2>3, <2>4 DEF RebuildPcs
<1>8. CASE ReadSources(j) /\ ~Fail(j)
  <2>1. PICK v : v = [w EXCEPT !.n = 1, !.pc = "b_write"]
    OBVIOUS
  <2>2. "b_write" \in Commands
    BY DEF Commands
  <2>3. v \in JobType /\ SameJob(w, v) /\ v.pc = "b_write" /\ v.n = 1
    BY <1>2, <2>1, <2>2 DEF JobType, SameJob
  <2>4. Becomes(j, v)
    BY <1>8, <2>1 DEF ReadSources, Becomes
  <2>5. QED
    BY <1>5, <2>3, <2>4 DEF RebuildPcs
<1>9. CASE BeginFile(j)
  <2>1. PICK v : v = [w EXCEPT !.pc = "b_settle"]
    OBVIOUS
  <2>2. "b_settle" \in Commands
    BY DEF Commands
  <2>3. v \in JobType /\ SameJob(w, v) /\ v.pc = "b_settle" /\ v.n = w.n
    BY <1>2, <2>1, <2>2, Moved DEF SameJob
  <2>4. Disturb(j, v) /\ w.pc = "b_write"
    BY <1>9, <2>1 DEF BeginFile, At
  <2>5. QED
    BY <1>2, <1>5, <2>3, <2>4 DEF RebuildPcs
<1>10. CASE SettleFile(j)
  <2>1. PICK q : q = IF w.n = 3 THEN "b_default" ELSE "b_write"
    OBVIOUS
  <2>2. PICK v : v = [w EXCEPT !.n = @ + 1, !.pc = q]
    OBVIOUS
  <2>3. q \in Commands /\ q \in RebuildPcs
    BY <2>1 DEF Commands, RebuildPcs
  <2>4. v \in JobType /\ SameJob(w, v) /\ v.pc = q /\ v.n = w.n + 1
    <3>1. w \in JobType /\ w.n + 1 \in Nat
      BY <1>2
    <3>2. PICK m : m = w.n + 1
      OBVIOUS
    <3>3. v = [w EXCEPT !.n = m, !.pc = q]
      BY <2>2, <3>1, <3>2 DEF JobType
    <3>4. QED
      BY <2>3, <3>1, <3>2, <3>3 DEF JobType, SameJob
  <2>5. Disturb(j, v) /\ w.pc = "b_settle"
    BY <1>10, <2>1, <2>2 DEF SettleFile, At
  <2>6. v.pc \in {"b_write", "b_settle"} => v.n \in 1..3
    BY <1>2, <2>1, <2>4, <2>5
  <2>7. QED
    BY <1>5, <2>3, <2>4, <2>5, <2>6
<1>11. CASE WriteFails(j)
  <2>1. PICK d : d = {f \in CatalogFiles : catalog[f] # "none"}
    OBVIOUS
  <2>2. PICK v : v = [w EXCEPT !.todo = d, !.pc = "b_clear"]
    OBVIOUS
  <2>3. v \in JobType /\ SameJob(w, v) /\ v.pc = "b_clear"
    <3>1. w \in JobType
      BY <1>2
    <3>2. "b_clear" \in Commands
      BY DEF Commands
    <3>3. d \in SUBSET CatalogFiles
      BY <2>1
    <3>4. QED
      BY <2>2, <3>1, <3>2, <3>3 DEF JobType, SameJob
  <2>4. Becomes(j, v)
    BY <1>11, <2>1, <2>2 DEF WriteFails, Becomes
  <2>5. QED
    BY <1>5, <2>3, <2>4 DEF RebuildPcs
<1>12. CASE ClearDirectory(j) /\ ~Fail(j)
  <2>1. PICK f \in w.todo : Disturb(j, [w EXCEPT !.todo = @ \ {f}]) /\ w.pc = "b_clear"
    BY <1>12 DEF ClearDirectory, At
  <2>2. PICK v : v = [w EXCEPT !.todo = @ \ {f}]
    OBVIOUS
  <2>3. v \in JobType /\ SameJob(w, v) /\ v.pc = "b_clear"
    BY <1>2, <2>1, <2>2 DEF JobType, SameJob
  <2>4. QED
    BY <1>5, <2>1, <2>2, <2>3 DEF RebuildPcs
<1>13. CASE \/ LoadConfig(j) \/ VerifySourceRoot(j) \/ RefetchSnapshot(j) \/ PrepareCatalog(j)
            \/ WriteDefaultSnapshot(j) \/ UnlinkSnapshot(j) \/ VerifyRebuilt(j)
  BY <1>4, <1>6, <1>7, <1>13 DEF LoadConfig, VerifySourceRoot, RefetchSnapshot, PrepareCatalog,
    WriteDefaultSnapshot, UnlinkSnapshot, VerifyRebuilt, Require, RebuildPcs
<1>14. QED
  BY <1>7, <1>8, <1>9, <1>10, <1>11, <1>12, <1>13 DEF RebuildCatalog

(* The release assets are built from what is read. *)
ReleaseSteps(j) == HashFiles(j) \/ WriteArchive(j) \/ BuildLock(j)
(* Building them leaves the evidence as it is. *)
LEMMA ReleaseKept ==
  ASSUME PublishInv, NEW j \in Jobs, ReleaseSteps(j), UNCHANGED <<dirs, repo, record>>
  PROVE  PublishInv'
<1> DEFINE w == job[j]
<1>1. w.pc \in ReleasePcs /\ UNCHANGED <<catalog, raw>>
  BY DEF ReleaseSteps, HashFiles, WriteArchive, BuildLock, At, ReleasePcs
<1>2. /\ w.kind \in {"release_catalog", "release_sources"} /\ w \in JobType
      /\ w.kind \in DatasetKinds /\ DataTyped
      /\ catalog \in [CatalogFiles -> Contents] /\ raw \in [RawFiles -> Contents]
  <2>1. Fits(w)
    BY DEF PublishInv, JobsFit
  <2>2. w.kind \in {"release_catalog", "release_sources"}
    BY <1>1, <2>1, KindOfPc DEF Fits
  <2>3. QED
    BY <1>1, <2>1, <2>2 DEF Fits, DatasetKinds, DataTyped, PublishInv, StoreType
<1>3. CASE End(j)
  BY <1>2, <1>3, DatasetEndKept
<1>4. ASSUME NEW v \in JobType, Becomes(j, v), SameJob(w, v), v.pc \in ReleasePcs
      PROVE  PublishInv'
  <2>1. PcFits(v) /\ CandFits(v)
    BY <1>2, <1>4, NoneAssumption DEF PcFits, CandFits, SameJob, Kinds
  <2>2. QED
    BY <1>2, <1>4, <2>1, DatasetKept
<1>5. CASE HashFiles(j) /\ ~End(j)
  <2>1. PICK d : d = Released(j)
    OBVIOUS
  <2>2. PICK v : v = [w EXCEPT !.cand = d, !.pc = "p_archive"]
    OBVIOUS
  <2>3. "p_archive" \in Commands /\ d \in CandTypes
    BY <1>2, <2>1 DEF Commands, CandTypes, Released
  <2>4. v \in JobType /\ SameJob(w, v) /\ v.pc = "p_archive"
    BY <1>2, <2>2, <2>3 DEF JobType, SameJob
  <2>5. Becomes(j, v)
    BY <1>5, <2>1, <2>2 DEF HashFiles, Becomes
  <2>6. QED
    BY <1>4, <2>4, <2>5 DEF ReleasePcs
<1>6. CASE WriteArchive(j) /\ ~End(j)
  <2>1. PICK d : d = [f \in DOMAIN Released(j) |-> IF w.cand[f] = "none" THEN "none" ELSE Released(j)[f]]
    OBVIOUS
  <2>2. PICK v : v = [w EXCEPT !.seen = d, !.pc = "p_identities"]
    OBVIOUS
  <2>3. "p_identities" \in Commands /\ d \in SeenTypes
    <3>1. "none" \in Contents
      BY DEF Contents
    <3>2. CASE w.kind = "release_catalog"
      <4>1. d \in [CatalogFiles -> Contents]
        BY <1>2, <2>1, <3>1, <3>2 DEF Released
      <4>2. QED
        BY <4>1 DEF SeenTypes, Commands
    <3>3. CASE w.kind # "release_catalog"
      <4>1. d \in [RawFiles -> Contents]
        BY <1>2, <2>1, <3>1, <3>3 DEF Released
      <4>2. QED
        BY <4>1 DEF SeenTypes, Commands
    <3>4. QED
      BY <3>2, <3>3
  <2>4. v \in JobType /\ SameJob(w, v) /\ v.pc = "p_identities"
    BY <1>2, <2>2, <2>3 DEF JobType, SameJob
  <2>5. Becomes(j, v)
    BY <1>6, <2>1, <2>2 DEF WriteArchive, Becomes
  <2>6. QED
    BY <1>4, <2>4, <2>5 DEF ReleasePcs
<1>7. CASE BuildLock(j)
  BY <1>3, <1>7 DEF BuildLock
<1>8. QED
  BY <1>3, <1>5, <1>6, <1>7 DEF ReleaseSteps

(* No dataset job disturbs the evidence. *)
LEMMA DatasetStepKept ==
  ASSUME PublishInv, NEW j \in Jobs, DatasetStep(j)
  PROVE  PublishInv'
<1>1. UNCHANGED <<dirs, repo, record>>
  BY DEF DatasetStep
<1>2. CASE MaterializeCatalog(j) \/ MaterializeSources(j) \/ FetchSources(j)
  <2>1. CASE ReplaceTarget(j)
    BY <1>1, <2>1, ReplaceTargetKept
  <2>2. CASE FetchSteps(j) /\ job[j].kind \in {"catalog", "sources", "fetch"}
                           /\ (job[j].kind # "fetch" => job[j].pc \notin {"f_manifest", "f_work"})
    BY <1>1, <2>2, FetchStepsKept
  <2>3. QED
    BY <1>2, <2>1, <2>2 DEF MaterializeCatalog, MaterializeSources, FetchSources, Materialize, FetchSteps,
      RequireSafeTarget, Download, VerifyAsset, ExtractArchive, At
<1>3. CASE RebuildCatalog(j)
  BY <1>1, <1>3, RebuildCatalogKept
<1>4. CASE HashFiles(j) \/ WriteArchive(j) \/ BuildLock(j)
  BY <1>1, <1>4, ReleaseKept DEF ReleaseSteps
<1>5. QED
  BY <1>2, <1>3, <1>4 DEF DatasetStep

-----------------------------------------------------------------------------
(* The composed system. *)

(* A research job keeps the evidence sound, whatever it does. *)
LEMMA ResearchStepKept ==
  ASSUME PublishInv, NEW j \in Jobs, ResearchStep(j)
  PROVE  PublishInv'
<1>1. UNCHANGED <<catalog, raw>>
  BY DEF ResearchStep
<1>2. CASE TrainArtifact(j)
  <2>1. CASE Checks(j)
    BY <1>1, <2>1, ChecksKept
  <2>2. CASE ReadKept(j)
    BY <1>1, <2>2, ReadsKept
  <2>3. CASE OpenClaim(j) \/ ConfirmClaim(j) \/ MakePending(j)
    BY <1>1, <2>3, OpenClaimKept, ConfirmClaimKept, MakePendingKept
  <2>4. CASE LinkModel(j) \/ WriteManifest(j) \/ ReleaseClaim(j)
    BY <1>1, <2>4, LinkModelKept, WriteManifestKept, ReleaseClaimKept
  <2>5. QED
    BY <1>2, <2>1, <2>2, <2>3, <2>4 DEF TrainArtifact, Checks, ReadKept
<1>3. CASE RunBase(j) \/ RunScenario(j)
  <2>1. CASE RunSteps(j)
    BY <1>1, <2>1, RunStepsKept
  <2>2. CASE ClaimRunRoot(j) \/ WriteOutput(j, 1) \/ WriteOutput(j, 2)
    BY <1>1, <2>2, ClaimRunRootKept, WriteReportsKept, WriteRunManifestKept
  <2>3. QED
    BY <1>3, <2>1, <2>2 DEF RunBase, RunScenario, RunSteps
<1>4. CASE RunEvaluation(j)
  <2>1. CASE RequireNewRoots(j)
    BY <1>1, <2>1, ChecksKept DEF Checks
  <2>2. CASE \/ MakeRoot(j, "run_root", "mkdir_run", "mkdir_evidence")
             \/ MakeRoot(j, "evidence_root", "mkdir_evidence", "freeze")
             \/ FreezeParameters(j)
    BY <1>1, <2>2, RootsKept
  <2>3. CASE WriteEvaluationManifest(j)
    BY <1>1, <2>3, WriteEvaluationManifestKept
  <2>4. QED
    BY <1>2, <1>3, <1>4, <2>1, <2>2, <2>3 DEF RunEvaluation
<1>5. CASE CaptureProvenance(j)
  BY <1>1, <1>5, CaptureProvenanceKept
<1>6. CASE RebuildOos(j)
  <2>1. CASE Checks(j)
    BY <1>1, <2>1, ChecksKept
  <2>2. CASE RebuildContract(j)
    BY <1>1, <2>2, ReadsKept DEF ReadKept
  <2>3. CASE StageRecord(j) \/ PublishRecord(j)
    BY <1>1, <2>3, StageRecordKept, PublishRecordKept
  <2>4. QED
    BY <1>4, <1>5, <1>6, <2>1, <2>2, <2>3 DEF RebuildOos, Checks
<1>7. QED
  BY <1>2, <1>3, <1>5, <1>6 DEF ResearchStep, Momentum, Model

(* A research job as its command line starts it. *)
Commanded(new, kind, q, r, s) ==
  /\ new = [NewJob(kind, q) EXCEPT !.root = r, !.tasks = s]
  /\ kind = "train" => q = "capture" /\ \E f \in FoldIds : s = <<Training(f)>>
  /\ kind = "backtest" => q = "r_mkdir" /\ \E t \in {"momentum", "lightgbm"} : s = <<SingleRun(t)>>
  /\ kind = "oos" => q = "capture" /\ s = EvaluationPlan

(* A research command line has one of three shapes. *)
LEMMA ResearchCommanded ==
  ASSUME NEW new \in ResearchCommands
  PROVE  \E kind, q, r, s :
           /\ kind \in {"train", "backtest", "oos"} /\ q \in {"capture", "r_mkdir"} /\ r \in Roots
           /\ Commanded(new, kind, q, r, s)
<1>1. PICK r \in Roots :
        \/ \E f \in FoldIds :
             new = [NewJob("train", "capture") EXCEPT !.root = r, !.tasks = <<Training(f)>>]
        \/ \E t \in {"momentum", "lightgbm"} :
             new = [NewJob("backtest", "r_mkdir") EXCEPT !.root = r, !.tasks = <<SingleRun(t)>>]
        \/ new = [NewJob("oos", "capture") EXCEPT !.root = r, !.tasks = EvaluationPlan]
  BY DEF ResearchCommands
<1>2. CASE \E f \in FoldIds :
             new = [NewJob("train", "capture") EXCEPT !.root = r, !.tasks = <<Training(f)>>]
  <2>1. PICK s : Commanded(new, "train", "capture", r, s)
    BY <1>2 DEF Commanded
  <2>2. QED
    BY <2>1
<1>3. CASE \E t \in {"momentum", "lightgbm"} :
             new = [NewJob("backtest", "r_mkdir") EXCEPT !.root = r, !.tasks = <<SingleRun(t)>>]
  <2>1. PICK s : Commanded(new, "backtest", "r_mkdir", r, s)
    BY <1>3 DEF Commanded
  <2>2. QED
    BY <2>1
<1>4. CASE new = [NewJob("oos", "capture") EXCEPT !.root = r, !.tasks = EvaluationPlan]
  <2>1. Commanded(new, "oos", "capture", r, EvaluationPlan)
    BY <1>4 DEF Commanded
  <2>2. QED
    BY <2>1
<1>5. QED
  BY <1>1, <1>2, <1>3, <1>4, ZenonT(60)

(* A command line starts its job at the beginning. *)
LEMMA CommandFits ==
  ASSUME NEW new \in DatasetCommands \cup ResearchCommands
  PROVE  Fits(new) /\ Fresh(new) /\ new.kind \in Kinds
<1>1. <<>> \in Seq(Tasks) /\ [f \in FoldIds |-> None] \in [FoldIds -> Manifests \cup {None}]
  OBVIOUS
<1>2. ASSUME NEW kind \in Kinds, NEW q \in Commands
      PROVE  /\ NewJob(kind, q) \in JobType /\ NewJob(kind, q).kind = kind /\ NewJob(kind, q).pc = q
  BY <1>1 DEF NewJob, IdleJob, JobType, CandTypes, SeenTypes
<1>3. ASSUME NEW kind \in DatasetKinds, NEW q \in {"m_check", "f_manifest", "b_config", "p_hash"},
             NEW v \in JobType, v.kind = kind, v.pc = q, new = v,
             kind \in {"catalog", "sources"} => q = "m_check",
             kind = "fetch" => q = "f_manifest" /\ v.cand \in [Sources -> SourceStates],
             kind = "rebuild" => q = "b_config",
             kind \in {"release_catalog", "release_sources"} => q = "p_hash"
      PROVE  Fits(new) /\ Fresh(new) /\ new.kind \in Kinds
  <2>1. PcFits(v)
    BY <1>3, NoneAssumption DEF PcFits, DatasetKinds, DatasetPcs, RebuildPcs, ReleasePcs, Kinds
  <2>2. TasksFit(v)
    BY <1>3 DEF TasksFit, DatasetKinds, ClaimingPcs, HoldingPcs, RunningPcs
  <2>3. CandFits(v)
    BY <1>3 DEF CandFits, DatasetKinds
  <2>4. Fresh(v) /\ kind \in Kinds
    BY <1>3 DEF Fresh, FirstPcs, DatasetKinds, Kinds
  <2>5. QED
    BY <1>3, <2>1, <2>2, <2>3, <2>4 DEF Fits
<1>4. CASE new \in DatasetCommands
  <2>1. CASE new = [NewJob("fetch", "f_manifest") EXCEPT !.cand = [s \in Sources |-> "none"]]
    <3>1. PICK d : d = [s \in Sources |-> "none"]
      OBVIOUS
    <3>2. PICK w : w = NewJob("fetch", "f_manifest")
      OBVIOUS
    <3>3. PICK v : v = [w EXCEPT !.cand = d]
      OBVIOUS
    <3>4. w \in JobType /\ w.kind = "fetch" /\ w.pc = "f_manifest"
      BY <1>2, <3>2 DEF Kinds, Commands
    <3>5. d \in CandTypes /\ d \in [Sources -> SourceStates]
      BY <3>1 DEF CandTypes, SourceStates
    <3>6. v \in JobType /\ v.kind = "fetch" /\ v.pc = "f_manifest" /\ v.cand = d
      BY <3>3, <3>4, <3>5 DEF JobType
    <3>7. QED
      BY <1>3, <2>1, <3>1, <3>2, <3>3, <3>5, <3>6 DEF DatasetKinds
  <2>2. CASE new \in {NewJob("catalog", "m_check"), NewJob("sources", "m_check")}
    <3>1. PICK kind \in {"catalog", "sources"} : new = NewJob(kind, "m_check")
      BY <2>2
    <3>2. kind \in Kinds /\ "m_check" \in Commands
      BY DEF Kinds, Commands
    <3>3. new \in JobType /\ new.kind = kind /\ new.pc = "m_check"
      BY <1>2, <3>1, <3>2
    <3>4. QED
      BY <1>3, <3>3 DEF DatasetKinds
  <2>3. CASE new = NewJob("rebuild", "b_config")
    <3>1. new \in JobType /\ new.kind = "rebuild" /\ new.pc = "b_config"
      BY <1>2, <2>3 DEF Kinds, Commands
    <3>2. QED
      BY <1>3, <3>1 DEF DatasetKinds
  <2>4. CASE new \in {NewJob("release_catalog", "p_hash"), NewJob("release_sources", "p_hash")}
    <3>1. PICK kind \in {"release_catalog", "release_sources"} : new = NewJob(kind, "p_hash")
      BY <2>4
    <3>2. kind \in Kinds /\ "p_hash" \in Commands
      BY DEF Kinds, Commands
    <3>3. new \in JobType /\ new.kind = kind /\ new.pc = "p_hash"
      BY <1>2, <3>1, <3>2
    <3>4. QED
      BY <1>3, <3>3 DEF DatasetKinds
  <2>5. QED
    BY <1>4, <2>1, <2>2, <2>3, <2>4 DEF DatasetCommands
<1>5. CASE new \in ResearchCommands
  <2>1. PICK kind, q, r, s :
          /\ kind \in {"train", "backtest", "oos"} /\ q \in {"capture", "r_mkdir"} /\ r \in Roots
          /\ Commanded(new, kind, q, r, s)
    BY <1>5, ResearchCommanded
  <2>2. PICK w : w = NewJob(kind, q)
    OBVIOUS
  <2>3. w \in JobType /\ w.kind = kind /\ w.pc = q
    <3>1. kind \in Kinds /\ q \in Commands
      BY <2>1 DEF Kinds, Commands
    <3>2. QED
      BY <1>2, <2>2, <3>1
  <2>4. /\ s \in Seq(Tasks)
        /\ kind = "oos" => s \in Seq(Trainings \cup RunSet)
        /\ kind = "backtest" => s # <<>> /\ Head(s) \in RunKeys
    <3>1. CASE kind = "train"
      <4>1. PICK f \in FoldIds : s = <<Training(f)>>
        BY <2>1, <3>1 DEF Commanded
      <4>2. Training(f) \in Tasks
        BY DEF Tasks, Trainings
      <4>3. QED
        BY <3>1, <4>1, <4>2
    <3>2. CASE kind = "backtest"
      <4>1. PICK t \in {"momentum", "lightgbm"} : s = <<SingleRun(t)>>
        BY <2>1, <3>2 DEF Commanded
      <4>2. SingleRun(t) \in RunKeys /\ SingleRun(t) \in Tasks
        BY DEF Tasks, RunKeys
      <4>3. QED
        BY <3>2, <4>1, <4>2
    <3>3. CASE kind = "oos"
      <4>1. s \in Seq(Trainings \cup RunSet)
        BY <2>1, <3>3, PlanIsComplete DEF Commanded
      <4>2. Trainings \cup RunSet \subseteq Tasks
        BY TaskKinds DEF Tasks
      <4>3. s \in Seq(Tasks)
        BY <4>1, <4>2
      <4>4. QED
        BY <3>3, <4>1, <4>3
    <3>4. QED
      BY <2>1, <3>1, <3>2, <3>3
  <2>5. new \in JobType /\ new.kind = kind /\ new.pc = q /\ new.root = r /\ new.tasks = s
    <3>1. new = [w EXCEPT !.root = r, !.tasks = s]
      BY <2>1, <2>2 DEF Commanded
    <3>2. QED
      BY <2>1, <2>3, <2>4, <3>1 DEF JobType
  <2>6. PcFits(new)
    BY <2>1, <2>5, NoneAssumption DEF Commanded, PcFits, Kinds, AdmissionPcs
  <2>7. TasksFit(new)
    BY <2>1, <2>4, <2>5 DEF Commanded, TasksFit, ClaimingPcs, HoldingPcs, RunningPcs, FinalPcs, VerifiedPcs
  <2>8. CandFits(new)
    BY <2>1, <2>5 DEF CandFits
  <2>9. QED
    BY <2>1, <2>5, <2>6, <2>7, <2>8 DEF Commanded, Fits, Fresh, FirstPcs, Kinds
<1>6. QED
  BY <1>4, <1>5

(* A job that starts has done nothing yet. *)
LEMMA StartKept ==
  ASSUME PublishInv, NEW j \in Jobs, Start(j)
  PROVE  PublishInv'
<1>1. PICK new \in DatasetCommands \cup ResearchCommands :
        /\ job' = [job EXCEPT ![j] = new]
        /\ roots' = IF new.kind = "train"
                    THEN [roots EXCEPT ![new.root] = @ \cup {"parameters", "evidence_root"}]
                    ELSE roots
  BY DEF Start
<1>2. UNCHANGED <<catalog, raw, parts, runs, repo, record>>
  BY DEF Start
<1>3. Fits(new) /\ Fresh(new) /\ new \in JobType
  BY CommandFits DEF Fits
<1>4. Others(j) /\ job'[j] = new
  BY <1>1, <1>3, OneJob DEF PublishInv, Becomes
<1>5. StoreType' /\ RootsGrow
  BY <1>1, <1>2 DEF PublishInv, StoreType, RootFiles, RootsGrow
<1>6. QuietStep(job[j], job'[j])
  BY <1>3, <1>4 DEF QuietStep
<1>7. QED
  BY <1>2, <1>3, <1>4, <1>5, <1>6, QuietKept

(* What only shows in the repository or in a count leaves the evidence alone. *)
LEMMA AlikeKept ==
  ASSUME PublishInv, StoreType', UNCHANGED <<dirs, record>>, job' \in [Jobs -> JobType],
         \A k \in Jobs : Alike(job[k], job'[k])
  PROVE  PublishInv'
<1>1. CASE Jobs = {}
  BY <1>1 DEF PublishInv, JobsFit, StoreInv, ReportsFirst, ManifestMeansAll, RecordComplete, Complete,
    Backs, RunsApart, dirs
<1>2. CASE Jobs # {}
  <2>1. PICK j \in Jobs : TRUE
    BY <1>2
  <2>2. Others(j)
    BY DEF Others
  <2>3. Fits(job[j]) /\ Alike(job[j], job'[j]) /\ job'[j] \in JobType
    BY DEF PublishInv, JobsFit
  <2>4. Fits(job'[j])
    BY <2>3 DEF Fits, PcFits, TasksFit, CandFits, Alike
  <2>5. JobSound(job[j], j)
    BY DEF PublishInv
  <2>6. QuietStep(job[j], job'[j])
    BY <2>3, <2>5 DEF QuietStep, Alike, JobSound, Verified
  <2>7. QED
    BY <2>2, <2>4, <2>6, QuietKept DEF RootsGrow, dirs
<1>3. QED
  BY <1>1, <1>2

(* The developer's edits and commits leave the evidence alone. *)
LEMMA DeveloperKept ==
  ASSUME PublishInv, Edit \/ Commit
  PROVE  PublishInv'
<1>1. repo' \in RepoType
  <2>1. repo \in RepoType
    BY DEF PublishInv, StoreType
  <2>2. 1 - repo.work \in {0, 1} /\ repo.sha + 1 \in Nat /\ repo.work \in {0, 1}
    BY <2>1 DEF RepoType
  <2>3. CASE Edit
    <3>1. PICK n : n = 1 - repo.work
      OBVIOUS
    <3>2. repo' = [repo EXCEPT !.work = n]
      BY <2>1, <2>3, <3>1 DEF Edit, RepoType
    <3>3. QED
      BY <2>1, <2>2, <3>1, <3>2 DEF RepoType
  <2>4. CASE Commit
    <3>1. PICK n : n = repo.sha + 1
      OBVIOUS
    <3>2. repo' = [repo EXCEPT !.sha = n, !.head = repo.work, !.tracked = TRUE, !.stray = {}]
      BY <2>1, <2>4, <3>1 DEF Commit, RepoType
    <3>3. QED
      BY <2>1, <2>2, <3>1, <3>2 DEF RepoType
  <2>5. QED
    BY <2>3, <2>4
<1>2. StoreType' /\ UNCHANGED <<dirs, record>>
  BY <1>1 DEF PublishInv, StoreType, Edit, Commit, dirs
<1>3. ASSUME NEW k \in Jobs PROVE job'[k] \in JobType /\ Alike(job[k], job'[k])
  <2>1. job[k] \in JobType
    BY DEF PublishInv, JobsFit
  <2>2. job'[k] = job[k] \/ job'[k] = [job[k] EXCEPT !.edits = @ + 1]
    BY DEF Edit, Commit
  <2>3. QED
    BY <2>1, <2>2 DEF JobType, Alike
<1>4. job' \in [Jobs -> JobType]
  <2>1. job' = [k \in Jobs |-> job'[k]]
    BY DEF Edit, Commit, PublishInv, JobsFit
  <2>2. QED
    BY <1>3, <2>1
<1>5. QED
  BY <1>2, <1>3, <1>4, AlikeKept

(* The invariant of the evidence holds at the start and is kept by every step. *)
LEMMA PublishStart == Init => PublishInv
<1> SUFFICES ASSUME Init PROVE PublishInv
  OBVIOUS
<1>1. StoreType
  <2>1. parts \in [Roots \X FoldIds -> PartType]
    BY DEF Init, EmptyPartition, PartType
  <2>2. repo \in RepoType /\ record \in Records \cup {None}
    BY DEF Init, RepoType
  <2>3. QED
    BY <2>1, <2>2 DEF Init, StoreType, Contents, RunType, Outputs, RootFiles
<1>2. Fits(IdleJob) /\ IdleJob.kind = None /\ IdleJob.pc = "idle"
  <2>1. <<>> \in Seq(Tasks) /\ [f \in FoldIds |-> None] \in [FoldIds -> Manifests \cup {None}]
    OBVIOUS
  <2>2. IdleJob \in JobType /\ IdleJob.kind = None /\ IdleJob.pc = "idle"
    BY <2>1 DEF IdleJob, JobType, Commands, CandTypes, SeenTypes
  <2>3. QED
    BY <2>2, NoneAssumption DEF Fits, PcFits, TasksFit, CandFits, Kinds, AdmissionPcs, ClaimingPcs,
      HoldingPcs, RunningPcs, FinalPcs, VerifiedPcs
<1>3. ASSUME NEW j \in Jobs PROVE JobSound(job[j], j)
  BY <1>2, NoneAssumption DEF Init, JobSound, HoldsClaim, HoldsRun, Progress, Verified, HoldingPcs,
    RunningPcs, VerifiedPcs, Kinds
<1>4. JobsFit
  BY <1>2 DEF Init, JobsFit, Fits
<1>5. StoreInv
  BY <1>2 DEF Init, StoreInv, ReportsFirst, ManifestMeansAll, RecordComplete, RunsApart, RunningPcs
<1>6. QED
  BY <1>1, <1>3, <1>4, <1>5 DEF PublishInv

(* No step of any job, no kill, edit or commit breaks the invariant of the evidence. *)
LEMMA PublishNext == PublishInv /\ [Next]_vars => PublishInv'
<1> SUFFICES ASSUME PublishInv, [Next]_vars PROVE PublishInv'
  BY SMTT(30)
<1>1. CASE UNCHANGED vars
  BY <1>1 DEF vars, dirs, PublishInv, StoreType, JobsFit, StoreInv, ReportsFirst, ManifestMeansAll,
    RecordComplete, Complete, Backs, RunsApart, JobSound, HoldsClaim, HoldsRun, Progress, Verified,
    TaskPart, TaskRun
<1>2. ASSUME NEW j \in Jobs, Start(j) PROVE PublishInv'
  BY <1>2, StartKept
<1>3. ASSUME NEW j \in Jobs, DatasetStep(j) PROVE PublishInv'
  BY <1>3, DatasetStepKept
<1>4. ASSUME NEW j \in Jobs, ResearchStep(j) PROVE PublishInv'
  BY <1>4, ResearchStepKept
<1>5. ASSUME NEW j \in Jobs, Stop(j) PROVE PublishInv'
  <2>1. StoreType' /\ UNCHANGED <<dirs, record>> /\ End(j)
    BY <1>5 DEF Stop, PublishInv, StoreType, dirs
  <2>2. QED
    BY <2>1, EndKept
<1>6. CASE Edit \/ Commit
  BY <1>6, DeveloperKept
<1>7. QED
  BY <1>1, <1>2, <1>3, <1>4, <1>5, <1>6 DEF Next, JobStep

-----------------------------------------------------------------------------
(* What follows for the evidence. *)

(* The types, the claims, the runs and the record are sound from the start on, *)
(* through every kill, edit and commit.                                        *)
THEOREM EvidencePublished == Spec => []PublishInv
<1>1. Init => PublishInv
  BY PublishStart
<1>2. PublishInv /\ [Next]_vars => PublishInv'
  BY PublishNext
<1>3. QED
  BY <1>1, <1>2, PTL DEF Spec

(* TypeOK: files, directories and places of the jobs stay in their sets. *)
THEOREM EvidenceTyped == Spec => []TypeOK
<1>1. PublishInv => TypeOK
  <2> SUFFICES ASSUME PublishInv PROVE TypeOK
    OBVIOUS
  <2>1. StoreType /\ \A j \in Jobs : job[j].pc \in Commands
    BY DEF PublishInv, JobsFit, JobType
  <2>2. ASSUME NEW p \in Roots \X FoldIds
        PROVE  /\ parts[p].claim \in Jobs \cup {None} /\ parts[p].pending \in BOOLEAN
               /\ parts[p].model \in Jobs \cup {None}
               /\ parts[p].manifest # None => parts[p].manifest \in Manifests
    BY <2>1 DEF StoreType, PartType
  <2>3. QED
    BY <2>1, <2>2 DEF TypeOK, StoreType, RunType, RootFiles, RepoType
<1>2. QED
  BY <1>1, EvidencePublished, PTL

(* OnePublisher: past its confirmation a trainer holds the claim of its       *)
(* partition, and no other trainer is past its own there.                     *)
THEOREM ClaimExcludesOthers == Spec => []OnePublisher
<1>1. PublishInv => OnePublisher
  <2> SUFFICES ASSUME PublishInv, NEW j \in Jobs, NEW k \in Jobs, Publishing(j)
               PROVE  /\ parts[<<job[j].root, Head(job[j].tasks).fold>>].claim = j
                      /\ Publishing(k) /\ j # k => \/ job[j].root # job[k].root
                                                  \/ Head(job[j].tasks).fold # Head(job[k].tasks).fold
    BY DEF OnePublisher
  <2>1. ASSUME NEW m \in Jobs, Publishing(m)
        PROVE  parts[<<job[m].root, Head(job[m].tasks).fold>>].claim = m
    BY <2>1 DEF Publishing, HoldingPcs, PublishInv, JobSound, HoldsClaim, TaskPart
  <2>2. QED
    BY <2>1
<1>2. QED
  BY <1>1, EvidencePublished, PTL

(* OwnsItsRun: a run partition belongs to the one job that made it.           *)
THEOREM RunsBelongToOneJob == Spec => []OwnsItsRun
<1>1. PublishInv => OwnsItsRun
  <2>1. \A j : Running(j) <=> job[j].pc \in RunningPcs
    BY DEF Running, RunningPcs
  <2>2. QED
    BY <2>1 DEF OwnsItsRun, PublishInv, StoreInv, RunsApart, JobSound, HoldsRun, TaskRun
<1>2. QED
  BY <1>1, EvidencePublished, PTL

(* ManifestLast: where there is a manifest there is what it lists.            *)
THEOREM ManifestsAreLast == Spec => []ManifestLast
<1>1. PublishInv => ManifestLast
  BY DEF PublishInv, StoreInv, ReportsFirst, ManifestMeansAll, ManifestLast
<1>2. QED
  BY <1>1, EvidencePublished, PTL

(* RecordIsBacked: the evaluation the acceptance record names stays on disk.  *)
THEOREM RecordStaysBacked == Spec => []RecordIsBacked
<1>1. PublishInv => RecordIsBacked
  BY DEF PublishInv, StoreInv, RecordComplete, Complete, RecordIsBacked
<1>2. QED
  BY <1>1, EvidencePublished, PTL

=============================================================================
