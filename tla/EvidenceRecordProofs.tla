------------------------ MODULE EvidenceRecordProofs ------------------------
(***************************************************************************)
(* Theorems about what a record and a release were made from: the bytes    *)
(* that were read, the revision that was checked, and the promise to a     *)
(* reader.                                                                 *)
(***************************************************************************)
EXTENDS EvidenceProofs

(* What is read. *)

SourcesWhole == \A s \in Sources : raw[s] = "locked"
SourcesNone == \A s \in Sources : raw[s] = "none"
LockedSources == [f \in RawFiles |-> IF f = "snapshot" THEN "none" ELSE "locked"]
(* What a release has hashed is what its archive will hold. *)
Hashed(w) ==
  /\ w.kind = "release_catalog" /\ ~w.disturbed
       => /\ w.pc = "p_archive" => w.cand = catalog /\ ~EmptyTree(catalog)
          /\ w.pc = "p_identities" => w.seen = w.cand
  /\ w.kind = "release_sources"
       => /\ w.pc = "p_archive" => SourcesWhole /\ w.cand = LockedSources
          /\ w.pc = "p_identities" => w.seen = w.cand
(* A rebuild that nobody wrote under has the locked catalog since it bound it. *)
EarlyPcs == {"capture", "contract", "bind"}
ReadsLocked(w) ==
  w.kind = "oos" /\ ~w.disturbed
    => w.reads = "locked" /\ (w.pc \notin EarlyPcs => CatalogLocked)
ReadInv ==
  /\ SourcesWhole \/ SourcesNone
  /\ \A j \in Jobs : Hashed(job[j]) /\ ReadsLocked(job[j])
  /\ RecordReadsLocked /\ ReleaseNamesItsFiles

(* Another job's step: it may write where the catalog is empty, or disturbs.  *)
SameReads(w, v) ==
  /\ v.kind = w.kind /\ v.pc = w.pc /\ v.cand = w.cand /\ v.seen = w.seen /\ v.reads = w.reads
  /\ \/ v.disturbed = w.disturbed /\ (UNCHANGED catalog \/ EmptyTree(catalog))
     \/ v.disturbed \/ v.kind \notin {"oos", "release_catalog"}

(* What another job has read stays what it was. *)
LEMMA ReadStays ==
  ASSUME PublishInv, NEW k \in Jobs, Hashed(job[k]), ReadsLocked(job[k]), SameReads(job[k], job'[k]),
         SourcesWhole => SourcesWhole'
  PROVE  Hashed(job[k])' /\ ReadsLocked(job[k])'
<1>1. CatalogLocked => ~EmptyTree(catalog)
  BY DEF CatalogLocked, EmptyTree, CatalogFiles, PublishInv, StoreType
<1>2. Hashed(job[k])'
  <2>1. CASE job[k].kind = "release_catalog"
    <3>1. CASE job'[k].disturbed
      BY <2>1, <3>1 DEF Hashed, SameReads
    <3>2. CASE ~job'[k].disturbed
      <4>1. ~job[k].disturbed /\ (UNCHANGED catalog \/ EmptyTree(catalog))
        BY <2>1, <3>2 DEF SameReads
      <4>2. job[k].pc = "p_archive" => UNCHANGED catalog
        BY <2>1, <4>1 DEF Hashed
      <4>3. QED
        BY <2>1, <4>1, <4>2 DEF Hashed, SameReads, EmptyTree
    <3>3. QED
      BY <3>1, <3>2
  <2>2. CASE job[k].kind # "release_catalog"
    BY <2>2 DEF Hashed, SameReads
  <2>3. QED
    BY <2>1, <2>2
<1>3. ReadsLocked(job[k])'
  BY <1>1 DEF ReadsLocked, SameReads, CatalogLocked
<1>4. QED
  BY <1>2, <1>3

(* What a step of a research job changes of what it reads. *)
NextReads(w, v) ==
  \/ v = Ended
  \/ /\ v.kind = w.kind /\ v.kind \in {"train", "backtest", "oos"} /\ v.disturbed = w.disturbed
     /\ v.reads = w.reads \/ (~CatalogLocked /\ w.pc \notin EarlyPcs)
     /\ v.kind = "oos" /\ v.pc \notin EarlyPcs => w.pc \notin EarlyPcs \/ CatalogLocked

ReadsOn(j) == \E v : job' = [job EXCEPT ![j] = v] /\ NextReads(job[j], v)

(* The steps of a task read a locked catalog or notice that it is not.       *)
TaskSteps(j) == TrainArtifact(j) \/ RunBase(j) \/ RunScenario(j)
(* A step of a task reads soundly. *)
LEMMA TaskReads ==
  ASSUME PublishInv, NEW j \in Jobs, TaskSteps(j), job[j].kind \in {"train", "backtest", "oos"}
  PROVE  ReadsOn(j)
<1> DEFINE w == job[j]
<1>1. w \in JobType /\ w.pc \notin EarlyPcs
  BY DEF PublishInv, JobsFit, TaskSteps, TrainArtifact, RunBase, RunScenario, LoadWindow, ReadTrainingRows,
    ValidateProvenance, RuntimeIdentity, LookAtPartition, OpenClaim, ConfirmClaim, MakePending, LinkModel,
    WriteManifest, ReleaseClaim, ClaimRunRoot, BindRun, ReadExpected, LoadNativeData, LoadArtifact,
    RereadManifest, RunEngine, Rebind, WriteOutput, At, EarlyPcs
<1>2. CASE End(j)
  BY <1>2 DEF End, ReadsOn, NextReads
<1>3. ASSUME NEW v, job' = [job EXCEPT ![j] = v], v.kind = w.kind, v.disturbed = w.disturbed,
             v.reads = w.reads \/ ~CatalogLocked
      PROVE  ReadsOn(j)
  BY <1>1, <1>3 DEF ReadsOn, NextReads
<1>4. ASSUME NEW q, Goto(j, q) PROVE ReadsOn(j)
  <2>1. PICK v : v = [w EXCEPT !.pc = q]
    OBVIOUS
  <2>2. v.kind = w.kind /\ v.disturbed = w.disturbed /\ v.reads = w.reads
    BY <1>1, <2>1 DEF JobType
  <2>3. QED
    BY <1>3, <1>4, <2>1, <2>2 DEF Goto
<1>5. ASSUME NEW new, new.kind = w.kind, new.disturbed = w.disturbed, new.reads = w.reads,
             new \in JobType, NextTask(j, new)
      PROVE  ReadsOn(j)
  <2>1. CASE Tail(w.tasks) = <<>> /\ new.kind # "oos"
    BY <1>2, <1>5, <2>1 DEF NextTask, End
  <2>2. CASE ~(Tail(w.tasks) = <<>> /\ new.kind # "oos")
    <3>1. PICK s, q : s = Tail(w.tasks) /\ q = EntryPc(Tail(w.tasks), "manifest")
      OBVIOUS
    <3>2. PICK v : v = [new EXCEPT !.tasks = s, !.pc = q]
      OBVIOUS
    <3>3. job' = [job EXCEPT ![j] = v]
      BY <1>5, <2>2, <3>1, <3>2 DEF NextTask
    <3>4. v.kind = w.kind /\ v.disturbed = w.disturbed /\ v.reads = w.reads
      BY <1>5, <3>2 DEF JobType
    <3>5. QED
      BY <1>3, <3>3, <3>4
  <2>3. QED
    BY <2>1, <2>2
<1>6. CASE TrainArtifact(j)
  <2>1. CASE ReadTrainingRows(j) /\ ~End(j)
    <3>1. PICK d : d = IF CatalogLocked THEN w.reads ELSE "other"
      OBVIOUS
    <3>2. PICK v : v = [w EXCEPT !.pc = "t_provenance", !.reads = d]
      OBVIOUS
    <3>3. job' = [job EXCEPT ![j] = v]
      BY <2>1, <3>1, <3>2 DEF ReadTrainingRows
    <3>4. v.kind = w.kind /\ v.disturbed = w.disturbed /\ v.reads = d
      BY <1>1, <3>2 DEF JobType
    <3>5. QED
      BY <1>3, <3>1, <3>3, <3>4
  <2>2. CASE RuntimeIdentity(j)
    <3>1. PICK v : v = [w EXCEPT !.code = repo.work, !.pc = "t_claim"]
      OBVIOUS
    <3>2. job' = [job EXCEPT ![j] = v]
      BY <2>2, <3>1 DEF RuntimeIdentity
    <3>3. v.kind = w.kind /\ v.disturbed = w.disturbed /\ v.reads = w.reads
      BY <1>1, <3>1 DEF JobType
    <3>4. QED
      BY <1>3, <3>2, <3>3
  <2>3. CASE ReleaseClaim(j)
    BY <1>1, <1>5, <2>3 DEF ReleaseClaim
  <2>4. QED
    BY <1>2, <1>4, <1>6, <2>1, <2>2, <2>3 DEF TrainArtifact, LoadWindow, ReadTrainingRows, ValidateProvenance,
      LookAtPartition, OpenClaim, ConfirmClaim, MakePending, LinkModel, WriteManifest, Require
<1>7. CASE RunBase(j) \/ RunScenario(j)
  <2>1. CASE ReadExpected(j) /\ ~End(j)
    <3>1. PICK v : v = [w EXCEPT !.seen = ReadResult, !.pc = "r_native"]
      OBVIOUS
    <3>2. job' = [job EXCEPT ![j] = v]
      BY <2>1, <3>1 DEF ReadExpected, ReleaseEmpty
    <3>3. v.kind = w.kind /\ v.disturbed = w.disturbed /\ v.reads = w.reads
      BY <1>1, <3>1 DEF JobType
    <3>4. QED
      BY <1>3, <3>2, <3>3
  <2>2. CASE LoadNativeData(j) /\ ~End(j)
    <3>1. PICK x, q : /\ x = IF w.seen \in {None, ReadResult} THEN "parity" ELSE "differs"
                      /\ q = IF IsModel(j) THEN "r_load" ELSE "r_engine"
      OBVIOUS
    <3>2. PICK d : d = IF CatalogLocked THEN w.reads ELSE "other"
      OBVIOUS
    <3>3. PICK v : v = [w EXCEPT !.seen = x, !.reads = d, !.pc = q]
      OBVIOUS
    <3>4. job' = [job EXCEPT ![j] = v]
      BY <2>2, <3>1, <3>2, <3>3 DEF LoadNativeData, ReleaseEmpty
    <3>5. v.kind = w.kind /\ v.disturbed = w.disturbed /\ v.reads = d
      BY <1>1, <3>3 DEF JobType
    <3>6. QED
      BY <1>3, <3>2, <3>4, <3>5
  <2>3. CASE LoadArtifact(j) /\ ~End(j)
    <3>1. PICK u : u = [w.used EXCEPT ![Now(j).fold] = Part(j).manifest]
      OBVIOUS
    <3>2. PICK v : v = [w EXCEPT !.used = u, !.pc = "r_reread"]
      OBVIOUS
    <3>3. job' = [job EXCEPT ![j] = v]
      BY <2>3, <3>1, <3>2 DEF LoadArtifact, ReleaseEmpty
    <3>4. v.kind = w.kind /\ v.disturbed = w.disturbed /\ v.reads = w.reads
      BY <1>1, <3>2 DEF JobType
    <3>5. QED
      BY <1>3, <3>3, <3>4
  <2>4. CASE WriteOutput(j, 2) /\ ~End(j)
    <3>1. PICK new : new = [w EXCEPT !.seen = None]
      OBVIOUS
    <3>2. NextTask(j, new)
      BY <2>4, <3>1 DEF WriteOutput, ReleaseEmpty
    <3>3. new \in JobType /\ new.kind = w.kind /\ new.disturbed = w.disturbed /\ new.reads = w.reads
      <4>1. None \in SeenTypes
        BY DEF SeenTypes
      <4>2. QED
        BY <1>1, <3>1, <4>1 DEF JobType
    <3>4. QED
      BY <1>5, <3>2, <3>3
  <2>5. CASE WriteOutput(j, 1)
    BY <1>2, <1>4, <2>5 DEF WriteOutput, ReleaseEmpty
  <2>6. QED
    BY <1>2, <1>4, <1>7, <2>1, <2>2, <2>3, <2>4, <2>5 DEF RunBase, RunScenario, ClaimRunRoot, BindRun,
      RereadManifest, RunEngine, Rebind, RequireRun, ReleaseEmpty
<1>8. QED
  BY <1>6, <1>7 DEF TaskSteps

(* So do the steps of a rebuild around its tasks, once it has bound it.      *)
LEMMA ResearchReads ==
  ASSUME PublishInv, NEW j \in Jobs, ResearchStep(j)
  PROVE  ReadsOn(j)
<1> DEFINE w == job[j]
<1>1. w \in JobType /\ w.kind \in {"train", "backtest", "oos"}
  BY DEF ResearchStep, PublishInv, JobsFit
<1>2. CASE TaskSteps(j)
  BY <1>1, <1>2, TaskReads
<1>3. CASE End(j)
  BY <1>3 DEF End, ReadsOn, NextReads
<1>4. ASSUME NEW v, job' = [job EXCEPT ![j] = v], v.kind = w.kind, v.disturbed = w.disturbed,
             v.reads = w.reads, v.kind = "oos" /\ v.pc \notin EarlyPcs => w.pc \notin EarlyPcs \/ CatalogLocked
      PROVE  ReadsOn(j)
  BY <1>1, <1>4 DEF ReadsOn, NextReads
<1>5. ASSUME NEW q, Goto(j, q), w.pc \notin EarlyPcs \/ CatalogLocked PROVE ReadsOn(j)
  <2>1. PICK v : v = [w EXCEPT !.pc = q]
    OBVIOUS
  <2>2. v.kind = w.kind /\ v.disturbed = w.disturbed /\ v.reads = w.reads
    BY <1>1, <2>1 DEF JobType
  <2>3. QED
    BY <1>4, <1>5, <2>1, <2>2 DEF Goto
<1>6. CASE CaptureProvenance(j) /\ ~End(j)
  <2>1. PICK q : q = IF w.kind = "oos" THEN "contract" ELSE EntryPc(w.tasks, "manifest")
    OBVIOUS
  <2>2. PICK v : v = [w EXCEPT !.sha = repo.sha, !.commit = repo.head, !.pc = q]
    OBVIOUS
  <2>3. job' = [job EXCEPT ![j] = v]
    BY <1>6, <2>1, <2>2 DEF CaptureProvenance
  <2>4. v.kind = w.kind /\ v.disturbed = w.disturbed /\ v.reads = w.reads /\ v.pc = q
    BY <1>1, <2>2 DEF JobType
  <2>5. v.kind = "oos" => v.pc \in EarlyPcs
    BY <2>1, <2>4 DEF EarlyPcs
  <2>6. QED
    BY <1>4, <2>3, <2>4, <2>5
<1>7. CASE RebuildContract(j)
  <2>1. PICK v : v = [w EXCEPT !.contract = repo.work, !.pc = "bind"]
    OBVIOUS
  <2>2. job' = [job EXCEPT ![j] = v]
    BY <1>7, <2>1 DEF RebuildContract
  <2>3. v.kind = w.kind /\ v.disturbed = w.disturbed /\ v.reads = w.reads /\ v.pc = "bind"
    BY <1>1, <2>1 DEF JobType
  <2>4. QED
    BY <1>4, <2>2, <2>3 DEF EarlyPcs
<1>8. CASE BindCatalog(j)
  BY <1>3, <1>5, <1>8 DEF BindCatalog, Require, CatalogBound
<1>9. CASE \/ RequireNewRoots(j) \/ FreezeParameters(j) \/ WriteEvaluationManifest(j) \/ BindAgain(j)
           \/ MakeRoot(j, "run_root", "mkdir_run", "mkdir_evidence")
           \/ MakeRoot(j, "evidence_root", "mkdir_evidence", "freeze")
           \/ BuildRecord(j) \/ RequireComplete(j) \/ RecheckRevision(j) \/ RecheckContract(j)
           \/ StageRecord(j) \/ PublishRecord(j)
  <2>1. w.pc \notin EarlyPcs
    BY <1>9 DEF RequireNewRoots, FreezeParameters, WriteEvaluationManifest, BindAgain, MakeRoot, BuildRecord,
      RequireComplete, RecheckRevision, RecheckContract, StageRecord, PublishRecord, At, EarlyPcs
  <2>2. QED
    BY <1>3, <1>5, <1>9, <2>1 DEF RequireNewRoots, FreezeParameters, WriteEvaluationManifest, BindAgain,
      MakeRoot, BuildRecord, RequireComplete, RecheckRevision, RecheckContract, StageRecord, PublishRecord,
      Require
<1>10. QED
  BY <1>2, <1>3, <1>6, <1>7, <1>8, <1>9 DEF ResearchStep, RebuildOos, RunEvaluation, Momentum, Model, TaskSteps

(* A dataset job keeps its kind until it ends. *)
KeepsKind(j) ==
  \E v : (Becomes(j, v) \/ Disturb(j, v)) /\ (v = Ended \/ v.kind = job[j].kind)
(* Its steps keep it. *)
LEMMA DatasetKind ==
  ASSUME PublishInv, NEW j \in Jobs, FetchSteps(j) \/ ReplaceTarget(j) \/ RebuildCatalog(j)
  PROVE  KeepsKind(j)
<1> DEFINE w == job[j]
<1>1. w \in JobType
  BY DEF PublishInv, JobsFit
<1>2. CASE End(j)
  BY <1>2 DEF End, Becomes, KeepsKind
<1>3. ASSUME NEW q, Goto(j, q) PROVE KeepsKind(j)
  <2>1. PICK v : v = [w EXCEPT !.pc = q]
    OBVIOUS
  <2>2. Becomes(j, v) /\ v.kind = w.kind
    BY <1>1, <1>3, <2>1 DEF Goto, Becomes, JobType
  <2>3. QED
    BY <2>2 DEF KeepsKind
<1>4. CASE Fail(j)
  <2>1. PICK v : v = [w EXCEPT !.failed = TRUE, !.pc = "b_unlink"]
    OBVIOUS
  <2>2. Becomes(j, v)
    BY <1>4, <2>1 DEF Fail, Becomes
  <2>3. v.kind = w.kind
    BY <1>1, <2>1 DEF JobType
  <2>4. QED
    BY <2>2, <2>3 DEF KeepsKind
<1>5. CASE Download(j) /\ ~End(j)
  BY <1>1, <1>5 DEF Download, Becomes, KeepsKind, JobType
<1>6. CASE \E s \in Sources : SubmitSource(j, s) \/ FetchChecksum(j, s) \/ FetchArchive(j, s)
  BY <1>1, <1>6 DEF SubmitSource, FetchChecksum, FetchArchive, Becomes, KeepsKind, JobType
<1>7. CASE ReadSources(j) \/ WriteFails(j)
  BY <1>1, <1>4, <1>7 DEF ReadSources, WriteFails, Becomes, KeepsKind, JobType
<1>8. CASE BeginFile(j) \/ SettleFile(j) \/ ClearDirectory(j)
  <2>1. CASE Fail(j)
    BY <1>4, <2>1
  <2>2. CASE ~Fail(j)
    <3>1. PICK v : /\ Disturb(j, v)
                   /\ \/ v = [w EXCEPT !.pc = "b_settle"]
                      \/ v = [w EXCEPT !.n = @ + 1, !.pc = IF w.n = 3 THEN "b_default" ELSE "b_write"]
                      \/ \E f : v = [w EXCEPT !.todo = @ \ {f}]
      BY <1>8, <2>2 DEF BeginFile, SettleFile, ClearDirectory
    <3>2. v.kind = w.kind
      BY <1>1, <3>1 DEF JobType
    <3>3. QED
      BY <3>1, <3>2 DEF KeepsKind
  <2>3. QED
    BY <2>1, <2>2
<1>9. QED
  BY <1>2, <1>3, <1>4, <1>5, <1>6, <1>7, <1>8 DEF FetchSteps, ReplaceTarget, RebuildCatalog, RequireSafeTarget,
    VerifyAsset, ExtractArchive, LoadCatalogSources, JoinWorkers, LoadConfig, VerifySourceRoot,
    RefetchSnapshot, PrepareCatalog, WriteDefaultSnapshot, UnlinkSnapshot, VerifyRebuilt, Require

(* What a dataset job writes, and what the others see of it. *)
DataWritten ==
  /\ SourcesWhole => SourcesWhole'
  /\ SourcesNone => SourcesNone' \/ SourcesWhole'

(* A candidate is renamed in whole, and only where nothing is. *)
LEMMA ReplaceWrites ==
  ASSUME PublishInv, NEW j \in Jobs, ReplaceTarget(j)
  PROVE  DataWritten /\ (UNCHANGED catalog \/ EmptyTree(catalog)) /\ Becomes(j, Ended)
<1> DEFINE w == job[j]
<1>1. /\ w.pc = "m_replace" /\ CandFits(w) /\ w.kind \in {"catalog", "sources", "fetch"}
      /\ raw \in [RawFiles -> Contents] /\ Becomes(j, Ended)
  BY KindOfPc DEF ReplaceTarget, At, End, Becomes, PublishInv, JobsFit, StoreType, Fits, DatasetPcs
<1>2. CASE UNCHANGED <<catalog, raw>>
  BY <1>1, <1>2 DEF DataWritten, SourcesWhole, SourcesNone
<1>3. CASE Replaceable(Target(j)) /\ Install(j, w.cand)
  <2>1. CASE w.kind = "catalog"
    BY <1>1, <1>3, <2>1 DEF Replaceable, Target, Install, DataWritten, SourcesWhole, SourcesNone
  <2>2. CASE w.kind # "catalog"
    <3>1. UNCHANGED catalog
      BY <1>3, <2>2 DEF Install
    <3>2. ASSUME NEW s \in Sources PROVE raw'[s] = "locked"
      <4>1. s \in RawFiles /\ s # "snapshot"
        BY SourcesAssumption DEF RawFiles
      <4>2. raw'[s] = IF s \in DOMAIN w.cand THEN w.cand[s] ELSE w.cand["archive"]
        BY <1>3, <2>2, <4>1 DEF Install
      <4>3. CASE w.kind = "sources"
        <5>1. DOMAIN w.cand = {"archive"} /\ w.cand["archive"] = "locked"
          BY <1>1, <4>3 DEF CandFits
        <5>2. QED
          BY <4>2, <5>1
      <4>4. CASE w.kind = "fetch"
        BY <1>1, <4>2, <4>4 DEF CandFits
      <4>5. QED
        BY <1>1, <2>2, <4>3, <4>4
    <3>3. QED
      BY <1>1, <3>1, <3>2 DEF DataWritten, SourcesWhole
  <2>3. QED
    BY <2>1, <2>2
<1>4. QED
  BY <1>2, <1>3 DEF ReplaceTarget

(* The rebuild of the catalog disturbs whom it writes under. *)
LEMMA RebuildWrites ==
  ASSUME PublishInv, NEW j \in Jobs, RebuildCatalog(j)
  PROVE  DataWritten /\ (UNCHANGED catalog \/ \E v : Disturb(j, v))
<1>1. \A s \in Sources : s \in RawFiles /\ s # "snapshot"
  BY SourcesAssumption DEF RawFiles
<1>2. \A s \in Sources : raw'[s] = raw[s]
  <2>1. raw \in [RawFiles -> Contents]
    BY DEF PublishInv, StoreType
  <2>2. UNCHANGED raw \/ \E c : raw' = [raw EXCEPT !["snapshot"] = c]
    BY DEF RebuildCatalog, LoadConfig, VerifySourceRoot, RefetchSnapshot, PrepareCatalog, ReadSources,
      BeginFile, SettleFile, WriteFails, ClearDirectory, WriteDefaultSnapshot, UnlinkSnapshot, VerifyRebuilt
  <2>3. QED
    BY <1>1, <2>1, <2>2
<1>3. UNCHANGED catalog \/ \E v : Disturb(j, v)
  BY DEF RebuildCatalog, LoadConfig, VerifySourceRoot, RefetchSnapshot, PrepareCatalog, ReadSources,
    BeginFile, SettleFile, WriteFails, ClearDirectory, WriteDefaultSnapshot, UnlinkSnapshot, VerifyRebuilt
<1>4. QED
  BY <1>2, <1>3 DEF DataWritten, SourcesWhole, SourcesNone

(* What a release hashed first it finds again for its archive. *)
LEMMA ReleaseReads ==
  ASSUME PublishInv, ReadInv, NEW j \in Jobs, ReleaseSteps(j),
         HashFiles(j) \/ WriteArchive(j) => UNCHANGED released
  PROVE  /\ UNCHANGED <<catalog, raw>> /\ \A k \in Jobs \ {j} : job'[k] = job[k]
         /\ Hashed(job[j])' /\ ReadsLocked(job[j])' /\ ReleaseNamesItsFiles'
<1> DEFINE w == job[j]
<1>1. /\ w \in JobType /\ job \in [Jobs -> JobType] /\ w.kind \in {"release_catalog", "release_sources"}
      /\ Hashed(w) /\ ReleaseNamesItsFiles /\ UNCHANGED <<catalog, raw>>
      /\ catalog \in [CatalogFiles -> Contents] /\ raw \in [RawFiles -> Contents]
  <2>1. w.pc \in ReleasePcs /\ Fits(w) /\ UNCHANGED <<catalog, raw>>
    BY DEF ReleaseSteps, HashFiles, WriteArchive, BuildLock, At, ReleasePcs, PublishInv, JobsFit
  <2>2. QED
    BY <2>1, KindOfPc DEF Fits, PublishInv, JobsFit, ReadInv, StoreType
<1>2. ASSUME NEW v, Becomes(j, v), v = Ended \/ (v.kind = w.kind /\ Hashed(v))
      PROVE  Hashed(job[j])' /\ ReadsLocked(job[j])' /\ \A k \in Jobs \ {j} : job'[k] = job[k]
  <2>1. job'[j] = v /\ \A k \in Jobs \ {j} : job'[k] = job[k]
    BY <1>1, <1>2 DEF Becomes
  <2>2. Ended.kind = None
    BY EndedFits
  <2>3. ReadsLocked(job[j])'
    BY <1>1, <1>2, <2>1, <2>2, NoneAssumption DEF ReadsLocked, Kinds
  <2>4. Hashed(job[j])'
    BY <1>1, <1>2, <2>1, <2>2, NoneAssumption DEF Hashed, Kinds, SourcesWhole, EmptyTree
  <2>5. QED
    BY <2>1, <2>3, <2>4
<1>3. ASSUME End(j)
      PROVE  Hashed(job[j])' /\ ReadsLocked(job[j])' /\ \A k \in Jobs \ {j} : job'[k] = job[k]
  <2>1. PICK v : v = Ended
    OBVIOUS
  <2>2. Becomes(j, v)
    BY <1>3, <2>1 DEF End, Becomes
  <2>3. QED
    BY <1>2, <2>1, <2>2
<1>3a. HashFiles(j) \/ WriteArchive(j) => ReleaseNamesItsFiles'
  BY <1>1 DEF ReleaseNamesItsFiles
<1>4. CASE HashFiles(j) /\ ~End(j)
  <2>1. PICK d : d = Released(j)
    OBVIOUS
  <2>2. PICK v : v = [w EXCEPT !.cand = d, !.pc = "p_archive"]
    OBVIOUS
  <2>3. Becomes(j, v)
    BY <1>4, <2>1, <2>2 DEF HashFiles, Becomes
  <2>4. v.kind = w.kind /\ v.pc = "p_archive" /\ v.cand = d /\ v.disturbed = w.disturbed
    BY <1>1, <2>2 DEF JobType
  <2>5. CASE w.kind = "release_catalog"
    <3>1. d = catalog /\ ~EmptyTree(catalog)
      BY <1>4, <2>1, <2>5 DEF HashFiles, Released
    <3>2. Hashed(v)
      BY <2>4, <2>5, <3>1 DEF Hashed
    <3>3. QED
      BY <1>3a, <1>1, <1>2, <1>4, <2>3, <2>4, <3>2
  <2>6. CASE w.kind = "release_sources"
    <3>1. d = raw /\ SourcesVerified
      BY <1>4, <2>1, <2>6 DEF HashFiles, Released
    <3>2. raw = LockedSources
      BY <1>1, <3>1 DEF SourcesVerified, LockedSources
    <3>3. SourcesWhole
      BY <3>1, SourcesAssumption DEF SourcesVerified, SourcesWhole, RawFiles
    <3>4. Hashed(v)
      BY <2>4, <2>6, <3>1, <3>2, <3>3 DEF Hashed
    <3>5. QED
      BY <1>3a, <1>1, <1>2, <1>4, <2>3, <2>4, <3>4
  <2>7. QED
    BY <1>1, <2>5, <2>6
<1>5. CASE WriteArchive(j) /\ ~End(j)
  <2>1. PICK d : d = [f \in DOMAIN Released(j) |-> IF w.cand[f] = "none" THEN "none" ELSE Released(j)[f]]
    OBVIOUS
  <2>2. PICK v : v = [w EXCEPT !.seen = d, !.pc = "p_identities"]
    OBVIOUS
  <2>3. Becomes(j, v) /\ w.pc = "p_archive"
    BY <1>5, <2>1, <2>2 DEF WriteArchive, Becomes, At
  <2>4. /\ v.kind = w.kind /\ v.pc = "p_identities" /\ v.cand = w.cand /\ v.disturbed = w.disturbed
        /\ v.seen = d
    BY <1>1, <2>2 DEF JobType
  <2>5. CASE w.kind = "release_catalog"
    <3>1. ~w.disturbed => w.cand = catalog
      BY <1>1, <2>3, <2>5 DEF Hashed
    <3>2. ~w.disturbed => d = catalog
      BY <1>1, <2>1, <2>5, <3>1 DEF Released
    <3>3. Hashed(v)
      BY <2>4, <2>5, <3>1, <3>2 DEF Hashed
    <3>4. QED
      BY <1>3a, <1>1, <1>2, <1>5, <2>3, <2>4, <3>3
  <2>6. CASE w.kind = "release_sources"
    <3>1. SourcesWhole /\ w.cand = LockedSources
      BY <1>1, <2>3, <2>6 DEF Hashed
    <3>2. ASSUME NEW f \in RawFiles
          PROVE  (IF w.cand[f] = "none" THEN "none" ELSE raw[f]) = LockedSources[f]
      BY <3>1 DEF LockedSources, SourcesWhole, RawFiles
    <3>3. d = LockedSources
      <4>1. d = [f \in RawFiles |-> IF w.cand[f] = "none" THEN "none" ELSE raw[f]]
        BY <1>1, <2>1, <2>6 DEF Released
      <4>2. QED
        BY <3>2, <4>1 DEF LockedSources
    <3>4. Hashed(v)
      BY <2>4, <2>6, <3>1, <3>3 DEF Hashed
    <3>5. QED
      BY <1>3a, <1>1, <1>2, <1>5, <2>3, <2>4, <3>4
  <2>7. QED
    BY <1>1, <2>5, <2>6
<1>6. CASE (HashFiles(j) \/ WriteArchive(j)) /\ End(j)
  BY <1>3a, <1>1, <1>3, <1>6
<1>7. CASE BuildLock(j)
  <2>1. w.pc = "p_identities" /\ End(j) /\ (released' = released \/ released' = Lock(j))
    BY <1>7 DEF BuildLock, At
  <2>2. ~w.disturbed \/ w.kind = "release_sources" => w.seen = w.cand
    BY <1>1, <2>1 DEF Hashed
  <2>3. released' = Lock(j) => (~released'.disturbed => released'.files = released'.archive)
    BY <2>2 DEF Lock
  <2>4. ReleaseNamesItsFiles'
    BY <1>1, <2>1, <2>3 DEF ReleaseNamesItsFiles
  <2>5. QED
    BY <1>1, <1>3, <2>1, <2>4
<1>8. QED
  BY <1>1, <1>4, <1>5, <1>6, <1>7 DEF ReleaseSteps

(* What a step has to show for what is read. *)
LEMMA ReadComposed ==
  ASSUME PublishInv, ReadInv, DataWritten, RecordReadsLocked', ReleaseNamesItsFiles',
         \A k \in Jobs : SameReads(job[k], job'[k]) \/ (Hashed(job[k])' /\ ReadsLocked(job[k])')
  PROVE  ReadInv'
<1>1. ASSUME NEW k \in Jobs PROVE Hashed(job[k])' /\ ReadsLocked(job[k])'
  BY <1>1, ReadStays DEF ReadInv, DataWritten
<1>2. SourcesWhole' \/ SourcesNone'
  BY DEF ReadInv, DataWritten
<1>3. QED
  BY <1>1, <1>2 DEF ReadInv

(* What the steps of a dataset job write. *)
LEMMA DatasetWrites ==
  ASSUME PublishInv, ReadInv, NEW j \in Jobs, DatasetStep(j)
  PROVE  DataWritten
<1>1. CASE ReleaseSteps(j)
  BY <1>1 DEF ReleaseSteps, HashFiles, WriteArchive, BuildLock, DataWritten, SourcesWhole, SourcesNone
<1>2. CASE FetchSteps(j)
  BY <1>2 DEF FetchSteps, RequireSafeTarget, Download, VerifyAsset, ExtractArchive, LoadCatalogSources,
    SubmitSource, FetchChecksum, FetchArchive, JoinWorkers, DataWritten, SourcesWhole, SourcesNone
<1>3. CASE ReplaceTarget(j)
  BY <1>3, ReplaceWrites
<1>4. CASE RebuildCatalog(j)
  BY <1>4, RebuildWrites
<1>5. QED
  BY <1>1, <1>2, <1>3, <1>4 DEF DatasetStep, ReleaseSteps, MaterializeCatalog, MaterializeSources, FetchSources,
    Materialize, FetchSteps

(* A dataset job reads and writes soundly. *)
LEMMA DatasetReadKept ==
  ASSUME PublishInv, ReadInv, NEW j \in Jobs, DatasetStep(j)
  PROVE  ReadInv'
<1>1. UNCHANGED record /\ RecordReadsLocked'
  BY DEF DatasetStep, ReadInv, RecordReadsLocked
<1>2. CASE ReleaseSteps(j)
  <2>1. HashFiles(j) \/ WriteArchive(j) => UNCHANGED released
    BY DEF DatasetStep, HashFiles, WriteArchive, BuildLock, At
  <2>2. /\ UNCHANGED <<catalog, raw>> /\ \A k \in Jobs \ {j} : job'[k] = job[k]
        /\ Hashed(job[j])' /\ ReadsLocked(job[j])' /\ ReleaseNamesItsFiles'
    BY <1>2, <2>1, ReleaseReads
  <2>3. DataWritten
    BY <2>2 DEF DataWritten, SourcesWhole, SourcesNone
  <2>4. \A k \in Jobs \ {j} : SameReads(job[k], job'[k])
    BY <2>2 DEF SameReads
  <2>5. QED
    BY <1>1, <2>2, <2>3, <2>4, ReadComposed
<1>3. CASE ~ReleaseSteps(j)
  <2>1. UNCHANGED released /\ (FetchSteps(j) \/ ReplaceTarget(j) \/ RebuildCatalog(j))
    BY <1>3 DEF DatasetStep, ReleaseSteps, MaterializeCatalog, MaterializeSources, FetchSources, Materialize,
      FetchSteps
  <2>2. job[j].kind \in {"catalog", "sources", "fetch", "rebuild"}
    <3>1. Fits(job[j])
      BY DEF PublishInv, JobsFit
    <3>2. job[j].pc \in DatasetPcs \cup RebuildPcs
      BY <2>1 DEF FetchSteps, ReplaceTarget, RebuildCatalog, RequireSafeTarget, Download, VerifyAsset,
        ExtractArchive, LoadCatalogSources, SubmitSource, FetchChecksum, FetchArchive, JoinWorkers, LoadConfig,
        VerifySourceRoot, RefetchSnapshot, PrepareCatalog, ReadSources, BeginFile, SettleFile, WriteFails,
        ClearDirectory, WriteDefaultSnapshot, UnlinkSnapshot, VerifyRebuilt, At, DatasetPcs, RebuildPcs
    <3>3. QED
      BY <3>1, <3>2, KindOfPc DEF Fits
  <2>3. PICK v : (Becomes(j, v) \/ Disturb(j, v)) /\ (v = Ended \/ v.kind = job[j].kind)
    BY <2>1, DatasetKind DEF KeepsKind
  <2>4. job'[j] = v /\ v.kind \notin {"oos", "release_catalog", "release_sources"}
    BY <2>2, <2>3, EndedFits, NoneAssumption DEF PublishInv, JobsFit, Becomes, Disturb, Kinds
  <2>5. Hashed(job[j])' /\ ReadsLocked(job[j])'
    BY <2>4 DEF Hashed, ReadsLocked
  <2>6. DataWritten /\ ((UNCHANGED catalog \/ EmptyTree(catalog)) \/ \E u : Disturb(j, u))
    <3>1. CASE FetchSteps(j)
      BY <3>1 DEF FetchSteps, RequireSafeTarget, Download, VerifyAsset, ExtractArchive, LoadCatalogSources,
        SubmitSource, FetchChecksum, FetchArchive, JoinWorkers, DataWritten, SourcesWhole, SourcesNone
    <3>2. CASE ReplaceTarget(j)
      BY <3>2, ReplaceWrites
    <3>3. CASE RebuildCatalog(j)
      BY <3>3, RebuildWrites
    <3>4. QED
      BY <2>1, <3>1, <3>2, <3>3
  <2>7. ASSUME NEW k \in Jobs, k # j PROVE SameReads(job[k], job'[k])
    <3>1. job[k] \in JobType /\ job \in [Jobs -> JobType]
      BY DEF PublishInv, JobsFit
    <3>2. CASE \E u : Disturb(j, u)
      <4>1. \/ job[k].kind \in {"oos", "release_catalog"} /\ job'[k] = [job[k] EXCEPT !.disturbed = TRUE]
            \/ job[k].kind \notin {"oos", "release_catalog"} /\ job'[k] = job[k]
        BY <2>7, <3>2 DEF Disturb
      <4>2. QED
        BY <3>1, <4>1 DEF SameReads, JobType
    <3>3. CASE ~\E u : Disturb(j, u)
      <4>1. job'[k] = job[k]
        BY <2>3, <2>7, <3>1, <3>3 DEF Becomes
      <4>2. QED
        BY <2>6, <3>3, <4>1 DEF SameReads
    <3>4. QED
      BY <3>2, <3>3
  <2>8. ReleaseNamesItsFiles'
    BY <2>1 DEF ReadInv, ReleaseNamesItsFiles
  <2>9. QED
    BY <1>1, <2>5, <2>6, <2>7, <2>8, ReadComposed
<1>4. QED
  BY <1>2, <1>3

(* A research job reads soundly, and its record says so. *)
LEMMA ResearchReadKept ==
  ASSUME PublishInv, ReadInv, NEW j \in Jobs, ResearchStep(j)
  PROVE  ReadInv'
<1> DEFINE w == job[j]
<1>1. UNCHANGED <<catalog, raw, released>> /\ DataWritten /\ ReleaseNamesItsFiles'
  BY DEF ResearchStep, DataWritten, SourcesWhole, SourcesNone, ReadInv, ReleaseNamesItsFiles
<1>2. PICK v : job' = [job EXCEPT ![j] = v] /\ NextReads(w, v)
  BY ResearchReads DEF ReadsOn
<1>3. job'[j] = v /\ \A k \in Jobs \ {j} : job'[k] = job[k]
  BY <1>2 DEF PublishInv, JobsFit
<1>4. ReadsLocked(w) /\ RecordReadsLocked
  BY DEF ReadInv
<1>5. Hashed(job[j])'
  BY <1>2, <1>3, EndedFits, NoneAssumption DEF Hashed, NextReads, Kinds
<1>6. ReadsLocked(job[j])'
  <2>1. Ended.kind # "oos"
    BY EndedFits, NoneAssumption DEF Kinds
  <2>2. UNCHANGED CatalogLocked
    BY <1>1 DEF CatalogLocked
  <2>3. QED
    BY <1>2, <1>3, <1>4, <2>1, <2>2 DEF ReadsLocked, NextReads
<1>7. RecordReadsLocked'
  <2>1. CASE UNCHANGED record
    BY <1>4, <2>1 DEF RecordReadsLocked
  <2>2. CASE ~UNCHANGED record
    <3>1. record' = AcceptanceRecord(j) /\ w.kind = "oos"
      BY <2>2 DEF ResearchStep, RebuildOos, RunEvaluation, TrainArtifact, RunBase, RunScenario, Momentum, Model,
        CaptureProvenance, RebuildContract, BindCatalog, RequireNewRoots, MakeRoot, FreezeParameters, LoadWindow,
        ReadTrainingRows, ValidateProvenance, RuntimeIdentity, LookAtPartition, OpenClaim, ConfirmClaim,
        MakePending, LinkModel, WriteManifest, ReleaseClaim, ClaimRunRoot, BindRun, ReadExpected, LoadNativeData,
        LoadArtifact, RereadManifest, RunEngine, Rebind, WriteOutput, WriteEvaluationManifest, BindAgain,
        BuildRecord, RequireComplete, RecheckRevision, RecheckContract, StageRecord, PublishRecord
    <3>2. record'.reads = w.reads /\ record'.disturbed = w.disturbed
      BY <3>1 DEF AcceptanceRecord
    <3>3. QED
      BY <1>4, <3>1, <3>2, SMTT(30) DEF ReadsLocked, RecordReadsLocked
  <2>3. QED
    BY <2>1, <2>2
<1>8. \A k \in Jobs \ {j} : SameReads(job[k], job'[k])
  BY <1>1, <1>3 DEF SameReads
<1>9. QED
  BY <1>1, <1>5, <1>6, <1>7, <1>8, ReadComposed

(* A job starts with nothing read. *)
LEMMA CommandReads ==
  ASSUME NEW new \in DatasetCommands \cup ResearchCommands
  PROVE  /\ new.reads = "locked" /\ new.edits = 0 /\ new.sha = 0 /\ (new.kind = "oos" => new.pc = "capture")
         /\ new.kind \in {"release_catalog", "release_sources"} => new.pc = "p_hash"
<1>1. CASE new \in DatasetCommands
  <2>1. PICK kind, q :
          /\ new = NewJob(kind, q) \/ new = [NewJob(kind, q) EXCEPT !.cand = [s \in Sources |-> "none"]]
          /\ kind # "oos" /\ (kind \in {"release_catalog", "release_sources"} => q = "p_hash")
    BY <1>1 DEF DatasetCommands
  <2>2. PICK w : w = NewJob(kind, q)
    OBVIOUS
  <2>3. w.reads = "locked" /\ w.edits = 0 /\ w.sha = 0 /\ w.kind = kind /\ w.pc = q
    BY <2>2 DEF NewJob, IdleJob
  <2>4. new.reads = w.reads /\ new.edits = w.edits /\ new.sha = w.sha /\ new.kind = w.kind /\ new.pc = w.pc
    <3>1. PICK d : d = [s \in Sources |-> "none"]
      OBVIOUS
    <3>2. new = w \/ new = [w EXCEPT !.cand = d]
      BY <2>1, <2>2, <3>1
    <3>3. QED
      BY <2>2, <3>2, ZenonT(60) DEF NewJob, IdleJob
  <2>5. QED
    BY <2>1, <2>3, <2>4
<1>2. CASE new \in ResearchCommands
  <2>1. PICK kind, q, r, s : kind \in {"train", "backtest", "oos"} /\ Commanded(new, kind, q, r, s)
    BY <1>2, ResearchCommanded
  <2>2. /\ new = [NewJob(kind, q) EXCEPT !.root = r, !.tasks = s]
        /\ kind = "oos" => q = "capture"
    BY <2>1 DEF Commanded
  <2>3. QED
    BY <2>1, <2>2 DEF NewJob, IdleJob
<1>3. QED
  BY <1>1, <1>2

(* What was read holds at the start and is kept by every step. *)
LEMMA ReadStart == Init => ReadInv
<1> SUFFICES ASSUME Init PROVE ReadInv
  OBVIOUS
<1>1. \A j \in Jobs : job[j].kind = None
  BY DEF Init, IdleJob
<1>2. \A j \in Jobs : Hashed(job[j]) /\ ReadsLocked(job[j])
  BY <1>1, NoneAssumption DEF Hashed, ReadsLocked, Kinds
<1>3. SourcesWhole \/ SourcesNone
  BY SourcesAssumption DEF Init, SourcesWhole, SourcesNone, EmptyTree, SourcesVerified, RawFiles
<1>4. QED
  BY <1>2, <1>3 DEF ReadInv, Init, RecordReadsLocked, ReleaseNamesItsFiles

(* No step makes a job believe it read what it did not. *)
LEMMA ReadNext == PublishInv /\ ReadInv /\ [Next]_vars => ReadInv'
<1> SUFFICES ASSUME PublishInv, ReadInv, [Next]_vars PROVE ReadInv'
  OBVIOUS
<1>1. ASSUME UNCHANGED <<catalog, raw, record, released>>,
             \A k \in Jobs : SameReads(job[k], job'[k]) \/ (Hashed(job[k])' /\ ReadsLocked(job[k])')
      PROVE  ReadInv'
  <2>1. DataWritten /\ RecordReadsLocked' /\ ReleaseNamesItsFiles'
    BY <1>1 DEF DataWritten, SourcesWhole, SourcesNone, ReadInv, RecordReadsLocked, ReleaseNamesItsFiles
  <2>2. QED
    BY <1>1, <2>1, ReadComposed
<1>2. CASE UNCHANGED vars
  BY <1>1, <1>2 DEF vars, SameReads
<1>3. ASSUME NEW j \in Jobs, Start(j) PROVE ReadInv'
  <2>1. PICK new \in DatasetCommands \cup ResearchCommands : job' = [job EXCEPT ![j] = new]
    BY <1>3 DEF Start
  <2>2. job'[j] = new /\ \A k \in Jobs \ {j} : job'[k] = job[k]
    BY <2>1 DEF PublishInv, JobsFit
  <2>3. Hashed(job[j])' /\ ReadsLocked(job[j])'
    BY <2>2, CommandReads DEF Hashed, ReadsLocked, EarlyPcs
  <2>4. UNCHANGED <<catalog, raw, record, released>>
    BY <1>3 DEF Start
  <2>5. \A k \in Jobs \ {j} : SameReads(job[k], job'[k])
    BY <2>2, <2>4 DEF SameReads
  <2>6. QED
    BY <1>1, <2>3, <2>4, <2>5
<1>4. ASSUME NEW j \in Jobs, Stop(j) PROVE ReadInv'
  <2>1. job'[j] = Ended /\ (\A k \in Jobs \ {j} : job'[k] = job[k]) /\ UNCHANGED <<catalog, raw, record, released>>
    BY <1>4 DEF Stop, End, PublishInv, JobsFit
  <2>2. Hashed(job[j])' /\ ReadsLocked(job[j])'
    BY <2>1, EndedFits, NoneAssumption DEF Hashed, ReadsLocked, Kinds
  <2>3. \A k \in Jobs \ {j} : SameReads(job[k], job'[k])
    BY <2>1 DEF SameReads
  <2>4. QED
    BY <1>1, <2>1, <2>2, <2>3
<1>5. CASE Edit \/ Commit
  <2>1. UNCHANGED <<catalog, raw, record, released>>
    BY <1>5 DEF Edit, Commit
  <2>2. ASSUME NEW k \in Jobs PROVE SameReads(job[k], job'[k])
    <3>1. job[k] \in JobType /\ (job'[k] = job[k] \/ job'[k] = [job[k] EXCEPT !.edits = @ + 1])
      BY <1>5 DEF Edit, Commit, PublishInv, JobsFit
    <3>2. QED
      BY <2>1, <3>1 DEF SameReads, JobType
  <2>3. QED
    BY <1>1, <2>1, <2>2
<1>6. QED
  BY <1>2, <1>3, <1>4, <1>5, DatasetReadKept, ResearchReadKept DEF Next, JobStep

(* RecordReadsLocked: the data behind a record is the locked catalog, unless  *)
(* a rebuild of the catalog wrote into it meanwhile.                          *)
THEOREM RecordsReadLockedData == Spec => []RecordReadsLocked
<1>1. Init => ReadInv
  BY ReadStart
<1>2. PublishInv /\ ReadInv /\ [Next]_vars => ReadInv'
  BY ReadNext
<1>3. ReadInv => RecordReadsLocked
  BY DEF ReadInv
<1>4. QED
  BY <1>1, <1>2, <1>3, EvidencePublished, PTL DEF Spec

(* ReleaseNamesItsFiles: a release lock names the very bytes of its archive,  *)
(* unless a rebuild of the catalog wrote between the two reads.               *)
THEOREM ReleasesNameTheirFiles == Spec => []ReleaseNamesItsFiles
<1>1. Init => ReadInv
  BY ReadStart
<1>2. PublishInv /\ ReadInv /\ [Next]_vars => ReadInv'
  BY ReadNext
<1>3. ReadInv => ReleaseNamesItsFiles
  BY DEF ReadInv
<1>4. QED
  BY <1>1, <1>2, <1>3, EvidencePublished, PTL DEF Spec

-----------------------------------------------------------------------------
(* Files that were written stay, whoever steps. *)

FilesLast ==
  /\ \A p \in Roots \X FoldIds : /\ parts[p].manifest # None => parts'[p].manifest = parts[p].manifest
                                 /\ parts[p].model # None => parts'[p].model = parts[p].model
  /\ \A k \in Roots \X RunKeys : runs[k].files \subseteq runs'[k].files
  /\ \A r \in Roots : roots[r] \subseteq roots'[r]

(* Of a partition, only files that are not there yet are written. *)
LEMMA PartsLast ==
  ASSUME PublishInv, NEW j \in Jobs, TrainArtifact(j)
  PROVE  \A p \in Roots \X FoldIds : /\ parts[p].manifest # None => parts'[p].manifest = parts[p].manifest
                                     /\ parts[p].model # None => parts'[p].model = parts[p].model
<1>1. parts \in [Roots \X FoldIds -> PartType]
  BY DEF PublishInv, StoreType
<1>2. \/ UNCHANGED parts
      \/ \E q : /\ Change(j, q)
                /\ Part(j).manifest # None => q.manifest = Part(j).manifest
                /\ Part(j).model # None => q.model = Part(j).model
  <2>1. CASE job[j].pc \notin ClaimingPcs \cup HoldingPcs
    BY <2>1 DEF TrainArtifact, LoadWindow, ReadTrainingRows, ValidateProvenance, RuntimeIdentity,
      LookAtPartition, OpenClaim, ConfirmClaim, MakePending, LinkModel, WriteManifest, ReleaseClaim, At,
      ClaimingPcs, HoldingPcs
  <2>2. CASE job[j].pc \in ClaimingPcs \cup HoldingPcs
    <3>1. Part(j) \in PartType
      BY <2>2, PartOfTask
    <3>2. CASE UNCHANGED parts
      BY <3>2
    <3>3. CASE ~UNCHANGED parts
      <4>1. PICK q : /\ Change(j, q)
                     /\ \/ \E c : q = [Part(j) EXCEPT !.claim = c]
                        \/ q = [Part(j) EXCEPT !.pending = TRUE]
                        \/ Part(j).model = None /\ q = [Part(j) EXCEPT !.model = j, !.pending = FALSE]
                        \/ Part(j).manifest = None /\ \E m : q = [Part(j) EXCEPT !.manifest = m]
        BY <3>3 DEF TrainArtifact, LoadWindow, ReadTrainingRows, ValidateProvenance, RuntimeIdentity,
          LookAtPartition, OpenClaim, ConfirmClaim, MakePending, LinkModel, WriteManifest, ReleaseClaim, dirs,
          Withdraw
      <4>2. /\ Part(j).manifest # None => q.manifest = Part(j).manifest
            /\ Part(j).model # None => q.model = Part(j).model
        BY <3>1, <4>1 DEF PartType
      <4>3. QED
        BY <4>1, <4>2
    <3>4. QED
      BY <3>2, <3>3
  <2>3. QED
    BY <2>1, <2>2
<1>3. QED
  BY <1>1, <1>2 DEF Change, Part

(* A run partition only ever gains outputs. *)
LEMMA RunsLast ==
  ASSUME PublishInv, NEW j \in Jobs, RunBase(j) \/ RunScenario(j)
  PROVE  \A k \in Roots \X RunKeys : runs[k].files \subseteq runs'[k].files
<1>1. runs \in [Roots \X RunKeys -> RunType]
  BY DEF PublishInv, StoreType
<1>2. \/ UNCHANGED runs
      \/ \E b : runs' = [runs EXCEPT ![RunKey(j)].made = b]
      \/ \E o : runs' = [runs EXCEPT ![RunKey(j)].files = @ \cup {o}]
  BY DEF RunBase, RunScenario, ClaimRunRoot, BindRun, ReadExpected, LoadNativeData, LoadArtifact, RereadManifest,
    RunEngine, Rebind, WriteOutput, RequireRun, ReleaseEmpty
<1>3. ASSUME NEW k \in Roots \X RunKeys PROVE runs[k].files \subseteq runs'[k].files
  <2>1. runs[k] \in RunType
    BY <1>1
  <2>2. \/ runs'[k] = runs[k]
        \/ \E b : runs'[k] = [runs[k] EXCEPT !.made = b]
        \/ \E o : runs'[k] = [runs[k] EXCEPT !.files = @ \cup {o}]
    BY <1>1, <1>2
  <2>3. QED
    BY <2>1, <2>2 DEF RunType
<1>4. QED
  BY <1>3

(* So no step takes away a file of an evaluation. *)
LEMMA EvidenceLasts ==
  ASSUME PublishInv, Next
  PROVE  FilesLast
<1>1. CASE UNCHANGED <<parts, runs>> /\ \A r \in Roots : roots[r] \subseteq roots'[r]
  BY <1>1 DEF FilesLast
<1>2. roots \in [Roots -> SUBSET RootFiles]
  BY DEF PublishInv, StoreType
<1>3. ASSUME NEW j \in Jobs, Start(j) PROVE FilesLast
  <2>1. UNCHANGED <<parts, runs>>
    BY <1>3 DEF Start
  <2>2. \A r \in Roots : roots[r] \subseteq roots'[r]
    BY <1>2, <1>3 DEF Start
  <2>3. QED
    BY <1>1, <2>1, <2>2
<1>4. CASE UNCHANGED dirs
  BY <1>1, <1>4 DEF dirs
<1>5. ASSUME NEW j \in Jobs, ResearchStep(j) PROVE FilesLast
  <2>1. CASE TrainArtifact(j)
    <3>1. UNCHANGED <<runs, roots>>
      BY <2>1 DEF TrainArtifact, LoadWindow, ReadTrainingRows, ValidateProvenance, RuntimeIdentity,
        LookAtPartition, OpenClaim, ConfirmClaim, MakePending, LinkModel, WriteManifest, ReleaseClaim, dirs
    <3>2. QED
      BY <2>1, <3>1, PartsLast DEF FilesLast
  <2>2. CASE RunBase(j) \/ RunScenario(j)
    <3>1. UNCHANGED <<parts, roots>>
      BY <2>2 DEF RunBase, RunScenario, ClaimRunRoot, BindRun, ReadExpected, LoadNativeData, LoadArtifact,
        RereadManifest, RunEngine, Rebind, WriteOutput
    <3>2. QED
      BY <2>2, <3>1, RunsLast DEF FilesLast
  <2>3. CASE \/ MakeRoot(j, "run_root", "mkdir_run", "mkdir_evidence")
             \/ MakeRoot(j, "evidence_root", "mkdir_evidence", "freeze")
             \/ FreezeParameters(j) \/ WriteEvaluationManifest(j)
    BY <1>1, <1>2, <2>3 DEF MakeRoot, FreezeParameters, WriteEvaluationManifest
  <2>4. CASE \/ CaptureProvenance(j) \/ RebuildContract(j) \/ BindCatalog(j) \/ RequireNewRoots(j)
             \/ BindAgain(j) \/ BuildRecord(j) \/ RequireComplete(j) \/ RecheckRevision(j)
             \/ RecheckContract(j) \/ StageRecord(j) \/ PublishRecord(j)
    BY <1>4, <2>4 DEF CaptureProvenance, RebuildContract, BindCatalog, RequireNewRoots, BindAgain, BuildRecord,
      RequireComplete, RecheckRevision, RecheckContract, StageRecord, PublishRecord
  <2>5. QED
    BY <1>5, <2>1, <2>2, <2>3, <2>4 DEF ResearchStep, RebuildOos, RunEvaluation, Momentum, Model
<1>6. QED
  BY <1>3, <1>4, <1>5 DEF Next, JobStep, DatasetStep, Stop, Edit, Commit

-----------------------------------------------------------------------------
(* How often the code must have been edited for a rebuild to have read what  *)
(* its commit does not have.                                                 *)

(* At least n edits, and one more while the code is as `now` has it.         *)
AtLeast(w, n, now) == w.edits >= n /\ (repo.work = now => w.edits >= n + 1)
Strayed(w) == 1 - w.commit
CodeOf(w, f) == parts[<<w.root, f>>].manifest.code
CodingPcs == {"t_claim", "t_open"} \cup HoldingPcs
ContractEdits(w) ==
  w.pc \notin {"capture", "contract"} /\ w.contract # w.commit
    => /\ AtLeast(w, 1, w.commit)
       /\ Trained(w) # {} \/ w.pc \in {"t_code"} \cup CodingPcs => AtLeast(w, 2, Strayed(w))
CodeEdits(w) ==
  /\ \A f \in Trained(w) : CodeOf(w, f) # w.commit
       => /\ AtLeast(w, 1, w.commit)
          /\ w.pc \in {"t_code"} \cup CodingPcs => AtLeast(w, 2, Strayed(w))
          /\ w.pc \in CodingPcs /\ w.code # w.commit => AtLeast(w, 3, w.commit)
          /\ \A g \in Trained(w) : f # g /\ CodeOf(w, g) # w.commit => AtLeast(w, 3, w.commit)
  /\ w.pc \in CodingPcs /\ w.code # w.commit => AtLeast(w, 1, w.commit)
Matches(w) == w.contract = w.commit /\ \A f \in FoldIds : w.used[f].code = w.commit
AtRevision(w) ==
  /\ w.pc # "capture" => repo.head = w.commit /\ (repo.work # w.commit => w.edits >= 1)
  /\ ContractEdits(w) /\ CodeEdits(w)
  /\ w.pc = "recheck" /\ ~Matches(w) => AtLeast(w, 3, w.commit)
(* A rebuild is at its commit or can no longer publish; a rebuild that may    *)
(* publish what its commit does not have was edited under four times.         *)
RecheckedPcs == {"recontract", "stage", "publish"}
Edited(w) ==
  w.kind = "oos" =>
    /\ w.sha <= repo.sha
    /\ repo.sha = w.sha /\ w.pc \notin RecheckedPcs => AtRevision(w)
    /\ w.pc \in RecheckedPcs /\ ~Matches(w) => w.edits >= 4
    /\ w.pc \in VerifiedPcs => \A f \in FoldIds : w.used[f].sha = w.sha
RevisionInv == (\A j \in Jobs : Edited(job[j])) /\ RecordMatchesCommit

(* The commit and the code the repository shows. *)
RepoStays == repo'.sha = repo.sha /\ repo'.head = repo.head /\ repo'.work = repo.work
SameRevisions(w, v) ==
  /\ v.kind = w.kind /\ v.root = w.root /\ v.sha = w.sha /\ v.commit = w.commit
  /\ v.contract = w.contract /\ v.edits = w.edits

(* The manifests of the folds a rebuild has trained stay. *)
LEMMA CodesStay ==
  ASSUME PublishInv, FilesLast, NEW k \in Jobs, job[k].kind = "oos"
  PROVE  \A f \in Trained(job[k]) : /\ parts'[<<job[k].root, f>>].manifest.code = CodeOf(job[k], f)
                                    /\ parts'[<<job[k].root, f>>].manifest.sha = job[k].sha
<1> SUFFICES ASSUME NEW f \in Trained(job[k])
             PROVE  /\ parts'[<<job[k].root, f>>].manifest.code = CodeOf(job[k], f)
                    /\ parts'[<<job[k].root, f>>].manifest.sha = job[k].sha
  OBVIOUS
<1>1. <<job[k].root, f>> \in Roots \X FoldIds
  BY TaskPlace DEF PublishInv, JobsFit, Trained
<1>2. /\ parts[<<job[k].root, f>>].manifest # None
      /\ parts[<<job[k].root, f>>].manifest.sha = job[k].sha
  BY DEF PublishInv, JobSound, Progress
<1>3. QED
  BY <1>1, <1>2 DEF FilesLast, CodeOf

(* A rebuild that stays with its revision and is not yet rechecked.          *)
PlainMove(w, v) ==
  /\ SameRevisions(w, v) /\ v.code = w.code /\ Trained(v) = Trained(w)
  /\ w.pc \notin {"capture", "contract"} \cup RecheckedPcs
  /\ v.pc \notin {"capture", "contract", "recheck"} \cup RecheckedPcs
  /\ v.pc \in CodingPcs => w.pc \in CodingPcs
  /\ v.pc = "t_code" => w.pc \in {"t_code"} \cup CodingPcs
  /\ v.pc \in VerifiedPcs => \A f \in FoldIds : v.used[f].sha = v.sha

(* Such a move keeps the count of the edits. *)
LEMMA PlainMoveKept ==
  ASSUME PublishInv, FilesLast, RepoStays, NEW k \in Jobs, Edited(job[k]), PlainMove(job[k], job'[k])
  PROVE  Edited(job[k])'
<1> SUFFICES ASSUME job[k].kind = "oos" PROVE Edited(job[k])'
  BY DEF Edited, PlainMove, SameRevisions
<1> DEFINE w == job[k]  v == job'[k]
<1>1. \A f \in Trained(w) : CodeOf(job[k], f)' = CodeOf(w, f)
  BY CodesStay DEF CodeOf, PlainMove, SameRevisions
<1>2. SUFFICES ASSUME repo.sha = w.sha PROVE AtRevision(job[k])'
  BY DEF Edited, PlainMove, SameRevisions, RepoStays
<1>3. AtRevision(w)
  BY <1>2 DEF Edited, PlainMove
<1>4. ASSUME NEW n, NEW c PROVE AtLeast(job[k], n, c)' = AtLeast(w, n, c)
  BY DEF AtLeast, PlainMove, SameRevisions, RepoStays
<1>5. Strayed(job[k])' = Strayed(w)
  BY DEF Strayed, PlainMove, SameRevisions
<1>6. Trained(job[k])' = Trained(w) /\ v.commit = w.commit /\ v.contract = w.contract /\ v.code = w.code
  BY DEF PlainMove, SameRevisions, Trained, ToDo
<1>7. ContractEdits(job[k])'
  BY <1>3, <1>4, <1>5, <1>6 DEF AtRevision, ContractEdits, PlainMove
<1>8. CodeEdits(job[k])'
  BY <1>1, <1>3, <1>4, <1>5, <1>6 DEF AtRevision, CodeEdits, PlainMove
<1>9. QED
  BY <1>3, <1>7, <1>8 DEF AtRevision, PlainMove, SameRevisions, RepoStays

(* Where nothing but the disturbance of a rebuild changed, its count stays. *)
SameEdits(w, v) ==
  /\ SameRevisions(w, v) /\ v.code = w.code /\ v.tasks = w.tasks /\ v.used = w.used /\ v.pc = w.pc
(* Nothing of the count depends on a disturbance. *)
LEMMA SameEditsKept ==
  ASSUME PublishInv, FilesLast, RepoStays, NEW k \in Jobs, Edited(job[k]), SameEdits(job[k], job'[k])
  PROVE  Edited(job[k])'
<1> SUFFICES ASSUME job[k].kind = "oos" PROVE Edited(job[k])'
  BY DEF Edited, SameEdits, SameRevisions
<1> DEFINE w == job[k]  v == job'[k]
<1>1. \A f \in Trained(w) : CodeOf(job[k], f)' = CodeOf(w, f)
  BY CodesStay DEF CodeOf, SameEdits, SameRevisions
<1>2. Matches(job[k])' = Matches(w)
  BY DEF Matches, SameEdits, SameRevisions
<1>3. SUFFICES ASSUME repo.sha = w.sha, w.pc \notin RecheckedPcs PROVE AtRevision(job[k])'
  BY <1>2 DEF Edited, SameEdits, SameRevisions, RepoStays
<1>4. AtRevision(w)
  BY <1>3 DEF Edited
<1>5. ASSUME NEW n, NEW c PROVE AtLeast(job[k], n, c)' = AtLeast(w, n, c)
  BY DEF AtLeast, SameEdits, SameRevisions, RepoStays
<1>6. Strayed(job[k])' = Strayed(w)
  BY DEF Strayed, SameEdits, SameRevisions
<1>7. Trained(job[k])' = Trained(w)
  BY DEF SameEdits, Trained, ToDo
<1>8. v.commit = w.commit /\ v.contract = w.contract /\ v.code = w.code /\ v.pc = w.pc /\ v.edits = w.edits
  BY DEF SameEdits, SameRevisions
<1>9. ContractEdits(job[k])'
  BY <1>4, <1>5, <1>6, <1>7, <1>8 DEF AtRevision, ContractEdits
<1>10. CodeEdits(job[k])'
  BY <1>1, <1>4, <1>5, <1>6, <1>7, <1>8 DEF AtRevision, CodeEdits
<1>11. QED
  BY <1>2, <1>4, <1>5, <1>8, <1>9, <1>10 DEF AtRevision, RepoStays

Rebuilding(j) == PublishInv /\ RevisionInv /\ FilesLast /\ job[j].kind = "oos"
(* What a rebuild that is on its way has of its plan. *)
LEMMA RebuildPlan ==
  ASSUME NEW j \in Jobs, Rebuilding(j)
  PROVE  /\ job[j] \in JobType /\ Fits(job[j]) /\ repo \in RepoType /\ Edited(job[j]) /\ job \in [Jobs -> JobType]
         /\ job[j].pc \in AdmissionPcs => Trained(job[j]) = {}
         /\ job[j].pc \in FinalPcs => Trained(job[j]) = FoldIds
<1> DEFINE w == job[j]
<1>1. w \in JobType /\ Fits(w) /\ repo \in RepoType /\ Edited(w) /\ job \in [Jobs -> JobType]
  BY DEF Rebuilding, PublishInv, JobsFit, StoreType, RevisionInv
<1>2. ASSUME w.pc \in AdmissionPcs PROVE Trained(w) = {}
  <2>1. w.tasks = EvaluationPlan
    BY <1>1, <1>2 DEF Fits, TasksFit, Rebuilding
  <2>2. ASSUME NEW f \in FoldIds PROVE Training(f) \in ToDo(w)
    <3>1. Training(f) \in Trainings
      BY DEF Trainings
    <3>2. QED
      BY <2>1, <3>1, PlanIsComplete DEF ToDo
  <2>3. QED
    BY <2>2 DEF Trained
<1>3. ASSUME w.pc \in FinalPcs PROVE Trained(w) = FoldIds
  <2>1. w.tasks = <<>>
    BY <1>1, <1>3 DEF Fits, TasksFit, Rebuilding
  <2>2. QED
    BY <2>1 DEF Trained, ToDo
<1>4. QED
  BY <1>1, <1>2, <1>3

(* Moving on changes where a rebuild is. *)
LEMMA EndedEdited ==
  ASSUME NEW j, job'[j] = Ended
  PROVE  Edited(job[j])'
BY EndedFits, NoneAssumption DEF Edited, Kinds

(* A rebuild takes the revision it starts from, and the contract. *)
LEMMA CaptureEdited ==
  ASSUME NEW j \in Jobs, Rebuilding(j), CaptureProvenance(j)
  PROVE  Edited(job[j])'
<1> DEFINE w == job[j]  v == job'[j]
<1>1. w.pc = "capture" /\ UNCHANGED <<parts, repo>> /\ Trained(w) = {} /\ w \in JobType
  BY RebuildPlan DEF CaptureProvenance, At, dirs, AdmissionPcs
<1>2. CASE ~Clean
  BY <1>2, EndedEdited, RebuildPlan DEF CaptureProvenance, End
<1>3. CASE Clean
  <2>1. v = [w EXCEPT !.sha = repo.sha, !.commit = repo.head, !.pc = "contract"]
    BY <1>3, RebuildPlan DEF CaptureProvenance, Rebuilding
  <2>2. /\ v.sha = repo.sha /\ v.commit = repo.head /\ v.pc = "contract" /\ v.tasks = w.tasks
        /\ repo.work = repo.head
    BY <1>1, <1>3, <2>1 DEF JobType, Clean
  <2>3. Trained(job[j])' = {}
    BY <1>1, <2>2 DEF Trained, ToDo
  <2>4. AtRevision(job[j])'
    BY <1>1, <2>2, <2>3 DEF AtRevision, ContractEdits, CodeEdits, CodingPcs, HoldingPcs
  <2>5. QED
    BY <1>1, <2>2, <2>4, RebuildPlan DEF Edited, RecheckedPcs, VerifiedPcs, RepoType
<1>4. QED
  BY <1>2, <1>3

(* The contract is as the code is, which may have been edited since. *)
LEMMA ContractEdited ==
  ASSUME NEW j \in Jobs, Rebuilding(j), RebuildContract(j)
  PROVE  Edited(job[j])'
<1> DEFINE w == job[j]  v == job'[j]
<1>1. /\ w.pc = "contract" /\ UNCHANGED <<parts, repo>> /\ Trained(w) = {} /\ w \in JobType /\ Edited(w)
      /\ repo \in RepoType
  BY RebuildPlan DEF RebuildContract, At, dirs, AdmissionPcs
<1>2. v = [w EXCEPT !.contract = repo.work, !.pc = "bind"]
  BY RebuildPlan DEF RebuildContract
<1>3. /\ v.sha = w.sha /\ v.commit = w.commit /\ v.pc = "bind" /\ v.tasks = w.tasks /\ v.kind = w.kind
      /\ v.contract = repo.work /\ v.edits = w.edits
  BY <1>1, <1>2 DEF JobType
<1>4. Trained(job[j])' = {}
  BY <1>1, <1>3 DEF Trained, ToDo
<1>5. ASSUME repo.sha = w.sha PROVE AtRevision(job[j])'
  <2>1. AtRevision(w)
    BY <1>1, <1>5 DEF Edited, RecheckedPcs, Rebuilding
  <2>2. repo.head = w.commit /\ (repo.work # w.commit => w.edits >= 1)
    BY <1>1, <2>1 DEF AtRevision
  <2>3. QED
    BY <1>1, <1>3, <1>4, <2>2 DEF AtRevision, ContractEdits, CodeEdits, CodingPcs, HoldingPcs, AtLeast
<1>6. QED
  BY <1>1, <1>3, <1>5 DEF Edited, RecheckedPcs, VerifiedPcs, Rebuilding

(* A rebuild whose commit is the one the repository shows.                   *)
LEMMA AtItsRevision ==
  ASSUME NEW j \in Jobs, Rebuilding(j), repo.sha = job[j].sha, job[j].pc \notin RecheckedPcs
  PROVE  AtRevision(job[j]) /\ job[j].commit \in {0, 1} /\ job[j].edits \in Nat
BY RebuildPlan DEF Edited, Rebuilding, JobType

(* The tree is clean when a fold's code is about to be hashed: whatever was   *)
(* edited before was put back.                                               *)
LEMMA ProvenanceEdited ==
  ASSUME NEW j \in Jobs, Rebuilding(j), ValidateProvenance(j)
  PROVE  Edited(job[j])'
<1> DEFINE w == job[j]  v == job'[j]
<1>1. /\ w.pc = "t_provenance" /\ UNCHANGED <<parts, repo>> /\ w \in JobType /\ Edited(w) /\ repo \in RepoType
  BY RebuildPlan DEF ValidateProvenance, At, dirs
<1>2. CASE ~(Clean /\ repo.sha = w.sha /\ Part(j) = EmptyPartition)
  BY <1>2, EndedEdited, RebuildPlan DEF ValidateProvenance, Require, End
<1>3. CASE Clean /\ repo.sha = w.sha /\ Part(j) = EmptyPartition
  <2>1. v = [w EXCEPT !.pc = "t_code"]
    BY <1>3, RebuildPlan DEF ValidateProvenance, Require, Goto
  <2>2. SameRevisions(w, v) /\ v.code = w.code /\ v.tasks = w.tasks /\ v.pc = "t_code"
    BY <1>1, <2>1 DEF JobType, SameRevisions
  <2>3. Trained(job[j])' = Trained(w) /\ \A f \in FoldIds : CodeOf(job[j], f)' = CodeOf(w, f)
    BY <1>1, <2>2 DEF Trained, ToDo, CodeOf, SameRevisions
  <2>4. AtRevision(w) /\ w.commit \in {0, 1} /\ w.edits \in Nat
    BY <1>1, <1>3, AtItsRevision DEF RecheckedPcs
  <2>5. repo.work = w.commit /\ repo.head = w.commit
    BY <1>1, <1>3, <2>4 DEF AtRevision, Clean
  <2>6. ContractEdits(job[j])'
    BY <1>1, <2>2, <2>4, <2>5 DEF AtRevision, ContractEdits, AtLeast, Strayed, SameRevisions
  <2>7. CodeEdits(job[j])'
    <3>1. ASSUME NEW f \in Trained(w), CodeOf(w, f) # w.commit
          PROVE  /\ w.edits >= 2
                 /\ \A g \in Trained(w) : f # g /\ CodeOf(w, g) # w.commit => w.edits >= 4
      BY <2>4, <2>5, <3>1 DEF AtRevision, CodeEdits, AtLeast
    <3>2. \A f \in Trained(w) : f \in FoldIds
      BY DEF Trained
    <3>3. v.commit = w.commit /\ v.edits = w.edits /\ v.pc \notin CodingPcs
      BY <2>2 DEF SameRevisions, CodingPcs, HoldingPcs
    <3>4. ASSUME NEW f \in Trained(job[j])', CodeOf(job[j], f)' # v.commit
          PROVE  /\ v.edits >= 2
                 /\ \A g \in Trained(job[j])' : f # g /\ CodeOf(job[j], g)' # v.commit => v.edits >= 4
      BY <2>3, <3>1, <3>2, <3>3, <3>4
    <3>5. QED
      BY <1>1, <2>4, <2>5, <3>3, <3>4 DEF CodeEdits, AtLeast, Strayed
  <2>8. QED
    BY <1>1, <1>3, <2>2, <2>4, <2>5, <2>6, <2>7 DEF Edited, AtRevision, RecheckedPcs, VerifiedPcs, SameRevisions
<1>4. QED
  BY <1>2, <1>3

(* The code of an artifact is as the working tree is at that moment. *)
LEMMA CodeHashed ==
  ASSUME NEW j \in Jobs, Rebuilding(j), RuntimeIdentity(j)
  PROVE  Edited(job[j])'
<1> DEFINE w == job[j]  v == job'[j]
<1>1. /\ w.pc = "t_code" /\ UNCHANGED <<parts, repo>> /\ w \in JobType /\ Edited(w) /\ repo \in RepoType
  BY RebuildPlan DEF RuntimeIdentity, At, dirs
<1>2. v = [w EXCEPT !.code = repo.work, !.pc = "t_claim"]
  BY RebuildPlan DEF RuntimeIdentity
<1>3. SameRevisions(w, v) /\ v.code = repo.work /\ v.tasks = w.tasks /\ v.pc = "t_claim"
  BY <1>1, <1>2 DEF JobType, SameRevisions
<1>4. Trained(job[j])' = Trained(w) /\ \A f \in FoldIds : CodeOf(job[j], f)' = CodeOf(w, f)
  BY <1>1, <1>3 DEF Trained, ToDo, CodeOf, SameRevisions
<1>5. ASSUME repo.sha = w.sha PROVE AtRevision(job[j])'
  <2>1. AtRevision(w) /\ w.commit \in {0, 1} /\ w.edits \in Nat /\ repo.work \in {0, 1}
    BY <1>1, <1>5, AtItsRevision DEF RecheckedPcs, RepoType
  <2>2. repo.head = w.commit /\ (repo.work # w.commit => w.edits >= 1 /\ repo.work = 1 - w.commit)
    BY <1>1, <2>1 DEF AtRevision
  <2>3. v.commit = w.commit /\ v.edits = w.edits /\ v.pc \in CodingPcs /\ v.pc = "t_claim"
    BY <1>3 DEF SameRevisions, CodingPcs, HoldingPcs
  <2>4. ContractEdits(job[j])'
    BY <1>1, <1>3, <2>1 DEF AtRevision, ContractEdits, AtLeast, Strayed, SameRevisions
  <2>5. CodeEdits(job[j])'
    <3>1. ASSUME NEW f \in Trained(w), CodeOf(w, f) # w.commit
          PROVE  /\ AtLeast(w, 1, w.commit) /\ AtLeast(w, 2, Strayed(w))
                 /\ \A g \in Trained(w) : f # g /\ CodeOf(w, g) # w.commit => AtLeast(w, 3, w.commit)
      BY <1>1, <2>1, <3>1 DEF AtRevision, CodeEdits
    <3>2. \A f \in Trained(w) : f \in FoldIds
      BY DEF Trained
    <3>3. ASSUME NEW n, NEW c PROVE AtLeast(job[j], n, c)' = AtLeast(w, n, c)
      BY <1>1, <2>3 DEF AtLeast
    <3>4. Strayed(job[j])' = Strayed(w) /\ Strayed(w) = 1 - w.commit
      BY <2>3 DEF Strayed
    <3>5. v.code # v.commit /\ AtLeast(w, 2, Strayed(w)) => AtLeast(w, 3, w.commit)
      BY <1>3, <2>1, <2>2, <2>3, <3>4 DEF AtLeast
    <3>6. v.code # v.commit => AtLeast(w, 1, w.commit)
      BY <1>3, <2>1, <2>2, <2>3 DEF AtLeast
    <3>7. ASSUME NEW f \in Trained(job[j])', CodeOf(job[j], f)' # v.commit
          PROVE  /\ AtLeast(job[j], 1, job[j].commit)' /\ AtLeast(job[j], 2, Strayed(job[j]))'
                 /\ v.code # v.commit => AtLeast(job[j], 3, job[j].commit)'
                 /\ \A g \in Trained(job[j])' : f # g /\ CodeOf(job[j], g)' # v.commit => AtLeast(job[j], 3, job[j].commit)'
      BY <1>4, <2>3, <3>1, <3>2, <3>3, <3>4, <3>5, <3>7
    <3>8. v.code # v.commit => AtLeast(job[j], 1, job[j].commit)'
      BY <2>3, <3>3, <3>6
    <3>9. QED
      BY <3>7, <3>8 DEF CodeEdits
  <2>6. QED
    BY <1>1, <2>1, <2>2, <2>3, <2>4, <2>5 DEF AtRevision
<1>6. QED
  BY <1>1, <1>3, <1>5 DEF Edited, RecheckedPcs, VerifiedPcs, SameRevisions

(* The next task of a rebuild finds its revision as it was. *)
LEMMA NextTaskEdits ==
  ASSUME NEW j \in Jobs, Rebuilding(j), NEW new \in JobType, SameRevisions(job[j], new),
         new.code = job[j].code, NextTask(j, new), job[j].tasks # <<>>
  PROVE  /\ SameRevisions(job[j], job'[j]) /\ job'[j].code = job[j].code
         /\ job'[j].tasks = Tail(job[j].tasks) /\ job'[j].pc \in {"t_bind", "r_mkdir", "manifest"}
         /\ Trained(job[j]) \subseteq Trained(job'[j])
         /\ \A f \in Trained(job'[j]) : f \in Trained(job[j]) \/ Training(f) = Head(job[j].tasks)
<1> DEFINE w == job[j]  v == job'[j]
<1>1. w.kind = "oos" /\ new.kind = "oos" /\ w.tasks \in Seq(Trainings \cup RunSet)
  BY RebuildPlan DEF Rebuilding, SameRevisions, Fits, TasksFit
<1>2. PICK s, q : s = Tail(w.tasks) /\ q = EntryPc(Tail(w.tasks), "manifest")
  OBVIOUS
<1>3. q \in {"t_bind", "r_mkdir", "manifest"}
  BY <1>2 DEF EntryPc
<1>4. v = [new EXCEPT !.tasks = s, !.pc = q]
  BY <1>1, <1>2, RebuildPlan DEF NextTask
<1>5. /\ v.kind = new.kind /\ v.root = new.root /\ v.sha = new.sha /\ v.commit = new.commit /\ v.code = new.code
      /\ v.contract = new.contract /\ v.edits = new.edits /\ v.tasks = s /\ v.pc = q
  BY <1>4 DEF JobType
<1>6. v.tasks = Tail(w.tasks)
  BY <1>2, <1>5
<1>7. \A f \in Trained(v) : f \in Trained(w) \/ Training(f) = Head(w.tasks)
  BY <1>1, <1>6, NextTaskProgress
<1>8. Trained(w) \subseteq Trained(v)
  <2>1. \A k \in DOMAIN Tail(w.tasks) : \E m \in DOMAIN w.tasks : Tail(w.tasks)[k] = w.tasks[m]
    BY <1>1, HeadTailProperties
  <2>2. ToDo(v) \subseteq ToDo(w)
    BY <1>6, <2>1 DEF ToDo
  <2>3. QED
    BY <2>2 DEF Trained
<1>9. QED
  BY <1>3, <1>5, <1>6, <1>7, <1>8 DEF SameRevisions

(* An artifact that was published has the code that was hashed for it. *)
LEMMA ReleaseEdited ==
  ASSUME NEW j \in Jobs, Rebuilding(j), ReleaseClaim(j)
  PROVE  Edited(job[j])'
<1> DEFINE w == job[j]  v == job'[j]
<1>1. /\ w.pc = "t_release" /\ UNCHANGED repo /\ w \in JobType /\ Edited(w) /\ w.kind = "oos" /\ PublishInv
      /\ FilesLast
  BY RebuildPlan DEF ReleaseClaim, At, Rebuilding
<1>2. w.tasks # <<>> /\ Head(w.tasks) \in Trainings /\ w.pc \in HoldingPcs /\ w.pc \in CodingPcs
  BY <1>1, RebuildPlan DEF Fits, TasksFit, HoldingPcs, CodingPcs
<1>3. /\ SameRevisions(w, v) /\ v.code = w.code /\ v.pc \in {"t_bind", "r_mkdir", "manifest"}
      /\ Trained(w) \subseteq Trained(v) /\ v.pc \notin CodingPcs \cup {"t_code"}
      /\ \A f \in Trained(v) : f \in Trained(w) \/ Training(f) = Head(w.tasks)
  <2>1. SameRevisions(w, w)
    BY DEF SameRevisions
  <2>2. NextTask(j, w)
    BY DEF ReleaseClaim
  <2>3. QED
    BY <1>1, <1>2, <2>1, <2>2, NextTaskEdits DEF CodingPcs, HoldingPcs
<1>4. ASSUME NEW f \in Trained(v)
      PROVE  CodeOf(job[j], f)' = IF f \in Trained(w) THEN CodeOf(w, f) ELSE w.code
  <2>1. CASE f \in Trained(w)
    BY <1>1, <1>3, <2>1, CodesStay DEF CodeOf, SameRevisions
  <2>2. CASE f \notin Trained(w)
    <3>1. Head(w.tasks).fold = f
      <4>1. Training(f) = Head(w.tasks)
        BY <1>3, <1>4, <2>2
      <4>2. Training(f).fold = f
        BY DEF Training, Task
      <4>3. QED
        BY <4>1, <4>2
    <3>2. Part(j).manifest # None /\ Part(j).manifest.code = w.code /\ Partition(j) \in Roots \X FoldIds
          /\ Partition(j) = <<w.root, f>>
      BY <1>1, <1>2, <3>1, PartOfTask DEF HoldsClaim, Partition, Now
    <3>3. parts'[<<w.root, f>>].manifest = Part(j).manifest
      BY <1>1, <3>2 DEF FilesLast, Part
    <3>4. QED
      BY <1>3, <2>2, <3>2, <3>3 DEF CodeOf, SameRevisions
  <2>3. QED
    BY <2>1, <2>2
<1>5. ASSUME repo.sha = w.sha PROVE AtRevision(job[j])'
  <2>1. AtRevision(w)
    BY <1>1, <1>5, AtItsRevision DEF RecheckedPcs
  <2>2. ASSUME NEW n, NEW c PROVE AtLeast(job[j], n, c)' = AtLeast(w, n, c)
    BY <1>1, <1>3 DEF AtLeast, SameRevisions
  <2>3. Strayed(job[j])' = Strayed(w) /\ v.commit = w.commit /\ v.contract = w.contract /\ v.edits = w.edits
    BY <1>3 DEF Strayed, SameRevisions
  <2>4. ContractEdits(job[j])'
    BY <1>1, <1>2, <2>1, <2>2, <2>3 DEF AtRevision, ContractEdits
  <2>5. CodeEdits(job[j])'
    <3>1. w.code # w.commit
            => /\ AtLeast(w, 1, w.commit)
               /\ \A f \in Trained(w) : CodeOf(w, f) # w.commit => AtLeast(w, 3, w.commit)
      BY <1>2, <2>1 DEF AtRevision, CodeEdits
    <3>2. \A f \in Trained(w) : CodeOf(w, f) # w.commit
            => /\ AtLeast(w, 1, w.commit)
               /\ \A g \in Trained(w) : f # g /\ CodeOf(w, g) # w.commit => AtLeast(w, 3, w.commit)
      BY <2>1 DEF AtRevision, CodeEdits
    <3>3. \A f, g \in Trained(v) : f \notin Trained(w) /\ g \notin Trained(w) => f = g
      <4>1. ASSUME NEW f \in Trained(v), f \notin Trained(w) PROVE Head(w.tasks).fold = f
        <5>1. Training(f) = Head(w.tasks)
          BY <1>3, <4>1
        <5>2. Training(f).fold = f
          BY DEF Training, Task
        <5>3. QED
          BY <5>1, <5>2
      <4>2. QED
        BY <4>1
    <3>4. ASSUME NEW f \in Trained(job[j])', CodeOf(job[j], f)' # w.commit
          PROVE  /\ AtLeast(job[j], 1, job[j].commit)'
                 /\ \A g \in Trained(job[j])' : f # g /\ CodeOf(job[j], g)' # w.commit
                      => AtLeast(job[j], 3, job[j].commit)'
      <4>1. f \in Trained(v) /\ (f \notin Trained(w) => w.code # w.commit)
            /\ (f \in Trained(w) => CodeOf(w, f) # w.commit)
        BY <1>4, <3>4 DEF Trained, ToDo
      <4>2. AtLeast(w, 1, w.commit)
        BY <3>1, <3>2, <4>1
      <4>3. ASSUME NEW g \in Trained(job[j])', f # g, CodeOf(job[j], g)' # w.commit PROVE AtLeast(w, 3, w.commit)
        <5>1. g \in Trained(v) /\ (g \notin Trained(w) => w.code # w.commit)
              /\ (g \in Trained(w) => CodeOf(w, g) # w.commit)
          BY <1>4, <4>3 DEF Trained, ToDo
        <5>2. QED
          BY <3>1, <3>2, <3>3, <4>1, <4>3, <5>1
      <4>4. QED
        BY <2>2, <2>3, <4>2, <4>3
    <3>5. QED
      BY <1>3, <2>3, <3>4 DEF CodeEdits
  <2>6. QED
    BY <1>1, <1>3, <2>1, <2>3, <2>4, <2>5 DEF AtRevision
<1>6. QED
  BY <1>1, <1>3, <1>5 DEF Edited, RecheckedPcs, VerifiedPcs, SameRevisions

(* What was verified is what the partitions of the rebuild hold. *)
LEMMA UsedIsTrained ==
  ASSUME NEW j \in Jobs, Rebuilding(j), job[j].pc \in FinalPcs, Complete(job[j].root, job[j].used),
         NEW f \in FoldIds
  PROVE  /\ f \in Trained(job[j]) /\ job[j].used[f].code = CodeOf(job[j], f)
         /\ job[j].used[f].sha = job[j].sha
<1>1. Trained(job[j]) = FoldIds /\ parts[<<job[j].root, f>>].manifest = job[j].used[f]
  BY RebuildPlan DEF Complete, Backs
<1>2. parts[<<job[j].root, f>>].manifest.sha = job[j].sha
  BY <1>1 DEF Rebuilding, PublishInv, JobSound, Progress
<1>3. QED
  BY <1>1, <1>2 DEF CodeOf

(* The evaluation is verified: its artifacts are of the commit it started at. *)
LEMMA BuildRecordEdited ==
  ASSUME NEW j \in Jobs, Rebuilding(j), BuildRecord(j)
  PROVE  Edited(job[j])'
<1> DEFINE w == job[j]  v == job'[j]
<1>1. w.pc = "verify" /\ UNCHANGED <<dirs, repo>> /\ w \in JobType /\ Edited(w) /\ PublishInv /\ FilesLast
  BY RebuildPlan DEF BuildRecord, At, Rebuilding
<1>2. CASE ~CompleteEvaluation(w.root, w.used)
  BY <1>2, EndedEdited, RebuildPlan DEF BuildRecord, Require, End
<1>3. CASE CompleteEvaluation(w.root, w.used)
  <2>1. v = [w EXCEPT !.pc = "complete"]
    BY <1>3, RebuildPlan DEF BuildRecord, Require, Goto
  <2>2. SameRevisions(w, v) /\ v.code = w.code /\ v.tasks = w.tasks /\ v.used = w.used /\ v.pc = "complete"
    BY <1>1, <2>1 DEF JobType, SameRevisions
  <2>3. \A f \in FoldIds : w.used[f].sha = w.sha
    BY <1>1, <1>3, VerifiedIsComplete, UsedIsTrained DEF FinalPcs
  <2>4. PlainMove(w, v)
    BY <1>1, <2>2, <2>3 DEF PlainMove, SameRevisions, Trained, ToDo, CodingPcs, HoldingPcs, RecheckedPcs
  <2>5. QED
    BY <1>1, <2>4, PlainMoveKept DEF RepoStays
<1>4. QED
  BY <1>2, <1>3

(* What the record names agrees with the contract and with itself. *)
LEMMA CompleteEdited ==
  ASSUME NEW j \in Jobs, Rebuilding(j), RequireComplete(j)
  PROVE  Edited(job[j])'
<1> DEFINE w == job[j]  v == job'[j]
<1>1. /\ w.pc = "complete" /\ UNCHANGED <<parts, repo>> /\ w \in JobType /\ Edited(w) /\ repo \in RepoType
      /\ w.kind = "oos" /\ Complete(w.root, w.used)
  BY RebuildPlan DEF RequireComplete, At, dirs, Rebuilding, PublishInv, JobSound, Verified, VerifiedPcs
<1>2. CASE ~(ArtifactsAgree(w.used) /\ ConfigsCurrent(j) /\ RunMatrix(j))
  BY <1>2, EndedEdited, RebuildPlan DEF RequireComplete, Require, End
<1>3. CASE ArtifactsAgree(w.used) /\ ConfigsCurrent(j) /\ RunMatrix(j)
  <2>1. v = [w EXCEPT !.pc = "recheck"]
    BY <1>3, RebuildPlan DEF RequireComplete, Require, Goto
  <2>2. SameRevisions(w, v) /\ v.code = w.code /\ v.tasks = w.tasks /\ v.used = w.used /\ v.pc = "recheck"
    BY <1>1, <2>1 DEF JobType, SameRevisions
  <2>3. Trained(job[j])' = Trained(w) /\ \A f \in FoldIds : CodeOf(job[j], f)' = CodeOf(w, f)
    BY <1>1, <2>2 DEF Trained, ToDo, CodeOf, SameRevisions
  <2>4. \A f \in FoldIds : f \in Trained(w) /\ w.used[f].code = CodeOf(w, f)
    BY <1>1, UsedIsTrained DEF FinalPcs, VerifiedPcs
  <2>5. ASSUME repo.sha = w.sha PROVE AtRevision(job[j])'
    <3>1. AtRevision(w) /\ w.commit \in {0, 1} /\ w.edits \in Nat /\ w.contract \in {0, 1}
      BY <1>1, <2>5, AtItsRevision DEF RecheckedPcs, JobType
    <3>2. ASSUME NEW n, NEW c PROVE AtLeast(job[j], n, c)' = AtLeast(w, n, c)
      BY <1>1, <2>2 DEF AtLeast, SameRevisions
    <3>3. /\ Strayed(job[j])' = Strayed(w) /\ v.commit = w.commit /\ v.contract = w.contract
          /\ v.edits = w.edits /\ Strayed(w) = 1 - w.commit
      BY <2>2 DEF Strayed, SameRevisions
    <3>4. ContractEdits(job[j])'
      BY <1>1, <2>2, <2>3, <3>1, <3>2, <3>3 DEF AtRevision, ContractEdits, CodingPcs, HoldingPcs
    <3>5. CodeEdits(job[j])'
      BY <1>1, <2>2, <2>3, <3>1, <3>2, <3>3 DEF AtRevision, CodeEdits, CodingPcs, HoldingPcs, Trained
    <3>6. ~Matches(w) => AtLeast(w, 3, w.commit)
      <4>1. CASE w.contract # w.commit
        <5>1. repo.work = Strayed(w) /\ repo.work # w.commit
          BY <1>3, <3>1, <3>3, <4>1 DEF ConfigsCurrent
        <5>2. AtLeast(w, 2, Strayed(w))
          BY <1>1, <2>4, <3>1, <4>1 DEF AtRevision, ContractEdits, FoldIds
        <5>3. QED
          BY <3>1, <5>1, <5>2 DEF AtLeast
      <4>2. CASE w.contract = w.commit /\ \E f \in FoldIds : w.used[f].code # w.commit
        <5>1. /\ w.used["validation"].code # w.commit /\ w.used["final"].code # w.commit
              /\ "validation" \in FoldIds /\ "final" \in FoldIds /\ "validation" # "final"
          BY <1>3, <4>2 DEF ArtifactsAgree, FoldIds
        <5>2. /\ "validation" \in Trained(w) /\ "final" \in Trained(w)
              /\ CodeOf(w, "validation") # w.commit /\ CodeOf(w, "final") # w.commit
          BY <2>4, <5>1
        <5>3. QED
          BY <3>1, <5>1, <5>2 DEF AtRevision, CodeEdits
      <4>3. QED
        BY <4>1, <4>2 DEF Matches
    <3>7. Matches(job[j])' = Matches(w)
      BY <2>2, <3>3 DEF Matches
    <3>8. QED
      BY <1>1, <2>2, <3>1, <3>2, <3>3, <3>4, <3>5, <3>6, <3>7 DEF AtRevision
  <2>6. \A f \in FoldIds : v.used[f].sha = v.sha
    BY <1>1, <2>2 DEF Edited, VerifiedPcs, SameRevisions
  <2>7. QED
    BY <1>1, <2>2, <2>5, <2>6 DEF Edited, RecheckedPcs, VerifiedPcs, SameRevisions
<1>4. QED
  BY <1>2, <1>3

(* The tree is clean at the recheck: then four edits were needed, and after   *)
(* it nothing the record says changes any more.                              *)
LEMMA RecheckEdited ==
  ASSUME NEW j \in Jobs, Rebuilding(j), RecheckRevision(j) \/ RecheckContract(j) \/ StageRecord(j)
  PROVE  Edited(job[j])'
<1> DEFINE w == job[j]  v == job'[j]
<1>1. /\ w.pc \in {"recheck", "recontract", "stage"} /\ repo'.sha = repo.sha /\ w \in JobType /\ Edited(w)
      /\ repo \in RepoType /\ w.kind = "oos"
  BY RebuildPlan DEF RecheckRevision, RecheckContract, StageRecord, At, Rebuilding, RepoType
<1>2. CASE End(j)
  BY <1>2, EndedEdited, RebuildPlan DEF End
<1>3. CASE ~End(j)
  <2>1. PICK q \in RecheckedPcs : v = [w EXCEPT !.pc = q]
    BY <1>3, RebuildPlan DEF RecheckRevision, RecheckContract, StageRecord, Require, Goto, RecheckedPcs
  <2>2. SameRevisions(w, v) /\ v.used = w.used /\ v.pc = q
    BY <1>1, <2>1 DEF JobType, SameRevisions
  <2>3. ~Matches(w) => w.edits >= 4
    <3>1. CASE w.pc = "recheck"
      <4>1. Clean /\ repo.sha = w.sha
        BY <1>3, <3>1 DEF RecheckRevision, RecheckContract, StageRecord, At, Require, Unchanged
      <4>2. AtRevision(w)
        BY <3>1, <4>1, AtItsRevision DEF RecheckedPcs
      <4>3. repo.work = w.commit
        BY <3>1, <4>1, <4>2 DEF AtRevision, Clean
      <4>4. QED
        BY <3>1, <4>2, <4>3 DEF AtRevision, AtLeast
    <3>2. CASE w.pc # "recheck"
      BY <1>1, <3>2 DEF Edited, RecheckedPcs
    <3>3. QED
      BY <3>1, <3>2
  <2>4. Matches(v) = Matches(w) /\ v.edits = w.edits /\ v.sha = w.sha
    BY <2>2 DEF Matches, SameRevisions
  <2>5. \A f \in FoldIds : v.used[f].sha = v.sha
    BY <1>1, <2>2 DEF Edited, VerifiedPcs, SameRevisions
  <2>6. QED
    BY <1>1, <2>2, <2>3, <2>4, <2>5 DEF Edited, Matches
<1>4. QED
  BY <1>2, <1>3

(* The moves of a rebuild that change nothing of its revision. *)
OnTheWay(w, q) ==
  /\ w.pc \notin {"capture", "contract"} \cup RecheckedPcs
  /\ q \notin {"capture", "contract", "t_code"} \cup VerifiedPcs
  /\ q \in CodingPcs => w.pc \in CodingPcs
(* Such a move keeps the count. *)
LEMMA MoveEdited ==
  ASSUME NEW j \in Jobs, Rebuilding(j), RepoStays, NEW v, job' = [job EXCEPT ![j] = v], OnTheWay(job[j], v.pc),
         SameRevisions(job[j], v), v.code = job[j].code, v.tasks = job[j].tasks
  PROVE  Edited(job[j])'
<1>1. job'[j] = v /\ Edited(job[j]) /\ PublishInv /\ FilesLast
  BY RebuildPlan DEF Rebuilding
<1>2. PlainMove(job[j], v)
  BY DEF PlainMove, OnTheWay, Trained, ToDo, RecheckedPcs, VerifiedPcs
<1>3. QED
  BY <1>1, <1>2, PlainMoveKept

(* And so does going on. *)
LEMMA GotoEdited ==
  ASSUME NEW j \in Jobs, Rebuilding(j), RepoStays, NEW q, OnTheWay(job[j], q), Goto(j, q)
  PROVE  Edited(job[j])'
<1>1. PICK v : v = [job[j] EXCEPT !.pc = q]
  OBVIOUS
<1>2. SameRevisions(job[j], v) /\ v.code = job[j].code /\ v.tasks = job[j].tasks /\ v.pc = q
  BY <1>1, RebuildPlan DEF JobType, SameRevisions
<1>3. QED
  BY <1>1, <1>2, MoveEdited DEF Goto

(* The steps of a training that leave the revision alone. *)
LEMMA TrainEdited ==
  ASSUME NEW j \in Jobs, Rebuilding(j), TrainArtifact(j)
  PROVE  Edited(job[j])'
<1> DEFINE w == job[j]
<1>1. CASE ValidateProvenance(j) \/ RuntimeIdentity(j) \/ ReleaseClaim(j)
  BY <1>1, ProvenanceEdited, CodeHashed, ReleaseEdited
<1>2. CASE ~(ValidateProvenance(j) \/ RuntimeIdentity(j) \/ ReleaseClaim(j))
  <2>1. RepoStays
    BY <1>2 DEF TrainArtifact, LoadWindow, ReadTrainingRows, LookAtPartition, OpenClaim, ConfirmClaim,
      MakePending, LinkModel, WriteManifest, RepoStays
  <2>2. CASE End(j)
    BY <2>2, EndedEdited, RebuildPlan DEF End
  <2>3. CASE ReadTrainingRows(j) /\ ~End(j)
    <3>1. PICK d : d = IF CatalogLocked THEN w.reads ELSE "other"
      OBVIOUS
    <3>2. PICK v : v = [w EXCEPT !.pc = "t_provenance", !.reads = d]
      OBVIOUS
    <3>3. job' = [job EXCEPT ![j] = v] /\ w.pc = "t_read"
      BY <2>3, <3>1, <3>2 DEF ReadTrainingRows, At
    <3>4. SameRevisions(w, v) /\ v.code = w.code /\ v.tasks = w.tasks /\ v.pc = "t_provenance"
      BY <3>2, RebuildPlan DEF JobType, SameRevisions
    <3>5. QED
      BY <2>1, <3>3, <3>4, MoveEdited DEF OnTheWay, CodingPcs, HoldingPcs, RecheckedPcs, VerifiedPcs
  <2>4. CASE ~ReadTrainingRows(j) /\ ~End(j)
    <3>1. \/ w.pc = "t_bind" /\ Goto(j, "t_read")
          \/ w.pc = "t_claim" /\ Goto(j, "t_open")
          \/ w.pc = "t_open" /\ Goto(j, "t_confirm")
          \/ w.pc = "t_confirm" /\ Goto(j, "t_pending")
          \/ w.pc = "t_pending" /\ Goto(j, "t_link")
          \/ w.pc = "t_link" /\ Goto(j, "t_manifest")
          \/ w.pc = "t_manifest" /\ Goto(j, "t_release")
      BY <1>2, <2>4 DEF TrainArtifact, LoadWindow, LookAtPartition, OpenClaim, ConfirmClaim, MakePending,
        LinkModel, WriteManifest, Require, At, AfterPending
    <3>2. \E q : OnTheWay(w, q) /\ Goto(j, q)
      BY <3>1 DEF OnTheWay, CodingPcs, HoldingPcs, RecheckedPcs, VerifiedPcs
    <3>3. QED
      BY <2>1, <3>2, GotoEdited
  <2>5. QED
    BY <2>2, <2>3, <2>4
<1>3. QED
  BY <1>1, <1>2

(* A run of the matrix leaves the revision alone. *)
LEMMA RunEdited ==
  ASSUME NEW j \in Jobs, Rebuilding(j), RunBase(j) \/ RunScenario(j)
  PROVE  Edited(job[j])'
<1> DEFINE w == job[j]
<1>1. RepoStays
  BY DEF RunBase, RunScenario, ClaimRunRoot, BindRun, ReadExpected, LoadNativeData, LoadArtifact, RereadManifest,
    RunEngine, Rebind, WriteOutput, RepoStays
<1>2. CASE End(j)
  BY <1>2, EndedEdited, RebuildPlan DEF End
<1>3. ASSUME NEW v, job' = [job EXCEPT ![j] = v], v.pc \in RunningPcs, w.pc \in RunningPcs, SameRevisions(w, v),
             v.code = w.code, v.tasks = w.tasks
      PROVE  Edited(job[j])'
  <2>1. OnTheWay(w, v.pc)
    BY <1>3 DEF OnTheWay, RunningPcs, CodingPcs, HoldingPcs, RecheckedPcs, VerifiedPcs
  <2>2. QED
    BY <1>1, <1>3, <2>1, MoveEdited
<1>4. ASSUME NEW q \in RunningPcs, Goto(j, q), w.pc \in RunningPcs \cup {"r_mkdir"} PROVE Edited(job[j])'
  <2>1. OnTheWay(w, q)
    BY <1>4 DEF OnTheWay, RunningPcs, CodingPcs, HoldingPcs, RecheckedPcs, VerifiedPcs
  <2>2. QED
    BY <1>1, <1>4, <2>1, GotoEdited
<1>5. CASE ReadExpected(j) /\ ~End(j)
  <2>1. PICK v : v = [w EXCEPT !.seen = ReadResult, !.pc = "r_native"]
    OBVIOUS
  <2>2. job' = [job EXCEPT ![j] = v] /\ w.pc \in RunningPcs
    BY <1>5, <2>1 DEF ReadExpected, ReleaseEmpty, At, RunningPcs
  <2>3. SameRevisions(w, v) /\ v.code = w.code /\ v.tasks = w.tasks /\ v.pc \in RunningPcs
    BY <2>1, RebuildPlan DEF JobType, SameRevisions, RunningPcs
  <2>4. QED
    BY <1>3, <2>2, <2>3
<1>6. CASE LoadNativeData(j) /\ ~End(j)
  <2>1. PICK x, d, q : /\ x = IF w.seen \in {None, ReadResult} THEN "parity" ELSE "differs"
                       /\ d = IF CatalogLocked THEN w.reads ELSE "other"
                       /\ q = IF IsModel(j) THEN "r_load" ELSE "r_engine"
    OBVIOUS
  <2>2. PICK v : v = [w EXCEPT !.seen = x, !.reads = d, !.pc = q]
    OBVIOUS
  <2>3. job' = [job EXCEPT ![j] = v] /\ w.pc \in RunningPcs
    BY <1>6, <2>1, <2>2, ZenonT(60) DEF LoadNativeData, ReleaseEmpty, At, RunningPcs
  <2>4. SameRevisions(w, v) /\ v.code = w.code /\ v.tasks = w.tasks /\ v.pc \in RunningPcs
    BY <2>1, <2>2, RebuildPlan DEF JobType, SameRevisions, RunningPcs
  <2>5. QED
    BY <1>3, <2>3, <2>4
<1>7. CASE LoadArtifact(j) /\ ~End(j)
  <2>1. PICK u : u = [w.used EXCEPT ![Now(j).fold] = Part(j).manifest]
    OBVIOUS
  <2>2. PICK v : v = [w EXCEPT !.used = u, !.pc = "r_reread"]
    OBVIOUS
  <2>3. job' = [job EXCEPT ![j] = v] /\ w.pc \in RunningPcs
    BY <1>7, <2>1, <2>2 DEF LoadArtifact, ReleaseEmpty, At, RunningPcs
  <2>4. SameRevisions(w, v) /\ v.code = w.code /\ v.tasks = w.tasks /\ v.pc \in RunningPcs
    BY <2>2, RebuildPlan DEF JobType, SameRevisions, RunningPcs
  <2>5. QED
    BY <1>3, <2>3, <2>4
<1>8. CASE WriteOutput(j, 2) /\ ~End(j)
  <2>1. PICK new : new = [w EXCEPT !.seen = None]
    OBVIOUS
  <2>2. NextTask(j, new) /\ w.pc = "r_manifest"
    BY <1>8, <2>1 DEF WriteOutput, ReleaseEmpty, At
  <2>3. new \in JobType /\ SameRevisions(w, new) /\ new.code = w.code
    <3>1. None \in SeenTypes
      BY DEF SeenTypes
    <3>2. QED
      BY <2>1, <3>1, RebuildPlan, ZenonT(60) DEF JobType, SameRevisions
  <2>4. w.tasks # <<>> /\ Head(w.tasks) \in RunKeys
    BY <2>2, RebuildPlan DEF Fits, TasksFit, RunningPcs
  <2>5. Trained(w) = Trained(job'[j])
    <3>1. \A f \in FoldIds : Training(f) # Head(w.tasks)
      BY <2>4, TaskKinds DEF Trainings
    <3>2. /\ Trained(w) \subseteq Trained(job'[j])
          /\ \A f \in Trained(job'[j]) : f \in Trained(w) \/ Training(f) = Head(w.tasks)
      BY <2>2, <2>3, <2>4, NextTaskEdits
    <3>3. \A f \in Trained(job'[j]) : f \in FoldIds
      BY DEF Trained
    <3>4. QED
      BY <3>1, <3>2, <3>3
  <2>6. PlainMove(w, job'[j])
    <3>1. /\ SameRevisions(w, job'[j]) /\ job'[j].code = w.code
          /\ job'[j].pc \in {"t_bind", "r_mkdir", "manifest"}
      BY <2>2, <2>3, <2>4, NextTaskEdits
    <3>2. QED
      BY <2>2, <2>5, <3>1 DEF PlainMove, CodingPcs, HoldingPcs, RecheckedPcs, VerifiedPcs
  <2>7. QED
    BY <1>1, <2>6, PlainMoveKept, RebuildPlan DEF Rebuilding
<1>9. QED
  BY <1>2, <1>4, <1>5, <1>6, <1>7, <1>8 DEF RunBase, RunScenario, ClaimRunRoot, BindRun, RereadManifest,
    RunEngine, Rebind, WriteOutput, RequireRun, ReleaseEmpty, At, RunningPcs

(* Every step of a rebuild keeps its own count. *)
LEMMA RebuildEdited ==
  ASSUME NEW j \in Jobs, Rebuilding(j), RebuildOos(j)
  PROVE  Edited(job[j])'
<1> DEFINE w == job[j]
<1>1. CASE End(j) \/ PublishRecord(j)
  BY <1>1, EndedEdited, RebuildPlan DEF End, PublishRecord
<1>2. CASE \/ ~End(j) /\ (BindCatalog(j) \/ RequireNewRoots(j) \/ BindAgain(j) \/ FreezeParameters(j))
           \/ ~End(j) /\ \/ MakeRoot(j, "run_root", "mkdir_run", "mkdir_evidence")
                         \/ MakeRoot(j, "evidence_root", "mkdir_evidence", "freeze")
           \/ WriteEvaluationManifest(j)
  <2>1. RepoStays
    BY <1>2 DEF BindCatalog, RequireNewRoots, BindAgain, FreezeParameters, MakeRoot, WriteEvaluationManifest,
      RepoStays
  <2>2. PICK q : Goto(j, q) /\ \/ w.pc = "bind" /\ q = "new_roots"
                               \/ w.pc = "new_roots" /\ q = "mkdir_run"
                               \/ w.pc = "mkdir_run" /\ q = "mkdir_evidence"
                               \/ w.pc = "mkdir_evidence" /\ q = "freeze"
                               \/ w.pc = "freeze" /\ q \in {"t_bind", "r_mkdir", "manifest"}
                               \/ w.pc = "manifest" /\ q = "bind_again"
                               \/ w.pc = "bind_again" /\ q = "verify"
    BY <1>2 DEF BindCatalog, RequireNewRoots, BindAgain, FreezeParameters, MakeRoot, WriteEvaluationManifest,
      Require, At, EntryPc
  <2>3. OnTheWay(w, q)
    BY <2>2 DEF OnTheWay, CodingPcs, HoldingPcs, RecheckedPcs, VerifiedPcs
  <2>4. QED
    BY <2>1, <2>2, <2>3, GotoEdited
<1>3. CASE RecheckRevision(j) \/ RecheckContract(j) \/ StageRecord(j)
  BY <1>3, RecheckEdited
<1>4. CASE BuildRecord(j) \/ RequireComplete(j)
  BY <1>4, BuildRecordEdited, CompleteEdited
<1>5. CASE CaptureProvenance(j) \/ RebuildContract(j)
  BY <1>5, CaptureEdited, ContractEdited
<1>6. CASE TrainArtifact(j) \/ RunBase(j) \/ RunScenario(j)
  BY <1>6, TrainEdited, RunEdited
<1>7. QED
  BY <1>1, <1>2, <1>3, <1>4, <1>5, <1>6 DEF RebuildOos, RunEvaluation

(* The record that is published was rechecked. *)
LEMMA RecordMatches ==
  ASSUME NEW j \in Jobs, Rebuilding(j), PublishRecord(j)
  PROVE  RecordMatchesCommit'
<1> DEFINE w == job[j]
<1>1. w.pc = "publish" /\ record' = AcceptanceRecord(j) /\ Edited(w) /\ w.kind = "oos"
  BY RebuildPlan DEF PublishRecord, At, Rebuilding
<1>2. (~Matches(w) => w.edits >= 4) /\ \A f \in FoldIds : w.used[f].sha = w.sha
  BY <1>1 DEF Edited, RecheckedPcs, VerifiedPcs
<1>3. w.edits \in Nat
  BY RebuildPlan DEF JobType
<1>4. /\ record'.edits = w.edits /\ record'.contract = w.contract /\ record'.commit = w.commit
      /\ record'.sha = w.sha /\ record'.used = w.used
  BY <1>1 DEF AcceptanceRecord
<1>5. QED
  BY <1>2, <1>3, <1>4 DEF RecordMatchesCommit, Matches

(* A step of one job leaves the count of the others. *)
LEMMA OthersEdited ==
  ASSUME PublishInv, RevisionInv, FilesLast, RepoStays, NEW j, NEW k \in Jobs, k # j,
         job'[k] = job[k] \/ job'[k] = [job[k] EXCEPT !.disturbed = TRUE]
  PROVE  Edited(job[k])'
<1>1. job[k] \in JobType /\ Edited(job[k])
  BY DEF PublishInv, JobsFit, RevisionInv
<1>2. SameEdits(job[k], job'[k])
  BY <1>1 DEF SameEdits, SameRevisions, JobType
<1>3. QED
  BY <1>1, <1>2, SameEditsKept

(* The steps of the jobs. *)
LEMMA ResearchEdits ==
  ASSUME PublishInv, RevisionInv, FilesLast, NEW j \in Jobs, ResearchStep(j)
  PROVE  RevisionInv'
<1>1. PICK v : job' = [job EXCEPT ![j] = v] /\ NextReads(job[j], v)
  BY ResearchReads DEF ReadsOn
<1>2. job'[j] = v /\ \A k \in Jobs \ {j} : job'[k] = job[k]
  BY <1>1 DEF PublishInv, JobsFit
<1>3. repo \in RepoType
  BY DEF PublishInv, StoreType
<1>4. RepoStays
  <2>1. UNCHANGED repo \/ StageRecord(j) \/ PublishRecord(j)
    BY DEF ResearchStep, RebuildOos, RunEvaluation, TrainArtifact, RunBase, RunScenario, Momentum, Model,
      CaptureProvenance, RebuildContract, BindCatalog, RequireNewRoots, MakeRoot, FreezeParameters, LoadWindow,
      ReadTrainingRows, ValidateProvenance, RuntimeIdentity, LookAtPartition, OpenClaim, ConfirmClaim,
      MakePending, LinkModel, WriteManifest, ReleaseClaim, ClaimRunRoot, BindRun, ReadExpected, LoadNativeData,
      LoadArtifact, RereadManifest, RunEngine, Rebind, WriteOutput, WriteEvaluationManifest, BindAgain,
      BuildRecord, RequireComplete, RecheckRevision, RecheckContract
  <2>2. StageRecord(j) => RepoStays
    BY <1>3 DEF StageRecord, RepoStays, RepoType
  <2>3. PublishRecord(j) => RepoStays
    BY <1>3 DEF PublishRecord, RepoStays, RepoType
  <2>4. QED
    BY <2>1, <2>2, <2>3, SMTT(30) DEF RepoStays
<1>5. \A k \in Jobs \ {j} : Edited(job[k])'
  BY <1>2, <1>4, OthersEdited
<1>6. Edited(job[j])'
  <2>1. CASE job[j].kind = "oos"
    BY <2>1, RebuildEdited DEF ResearchStep, Rebuilding
  <2>2. CASE job[j].kind # "oos"
    <3>1. v.kind # "oos"
      BY <1>1, <2>2, EndedFits, NoneAssumption DEF NextReads, Kinds
    <3>2. QED
      BY <1>2, <3>1 DEF Edited
  <2>3. QED
    BY <2>1, <2>2
<1>7. RecordMatchesCommit'
  <2>1. CASE job[j].kind = "oos" /\ PublishRecord(j)
    BY <2>1, RecordMatches DEF Rebuilding
  <2>2. CASE ~(job[j].kind = "oos" /\ PublishRecord(j))
    <3>1. UNCHANGED record
      BY <2>2 DEF ResearchStep, RebuildOos, RunEvaluation, TrainArtifact, RunBase, RunScenario, Momentum, Model,
        CaptureProvenance, RebuildContract, BindCatalog, RequireNewRoots, MakeRoot, FreezeParameters, LoadWindow,
        ReadTrainingRows, ValidateProvenance, RuntimeIdentity, LookAtPartition, OpenClaim, ConfirmClaim,
        MakePending, LinkModel, WriteManifest, ReleaseClaim, ClaimRunRoot, BindRun, ReadExpected, LoadNativeData,
        LoadArtifact, RereadManifest, RunEngine, Rebind, WriteOutput, WriteEvaluationManifest, BindAgain,
        BuildRecord, RequireComplete, RecheckRevision, RecheckContract, StageRecord
    <3>2. QED
      BY <3>1, SMTT(30) DEF RevisionInv, RecordMatchesCommit
  <2>3. QED
    BY <2>1, <2>2
<1>8. QED
  BY <1>5, <1>6, <1>7 DEF RevisionInv

(* A dataset job never becomes a rebuild. *)
LEMMA DatasetEdits ==
  ASSUME PublishInv, RevisionInv, FilesLast, NEW j \in Jobs, DatasetStep(j)
  PROVE  RevisionInv'
<1> DEFINE w == job[j]
<1>1. Fits(w) /\ w \in JobType /\ job \in [Jobs -> JobType] /\ UNCHANGED <<dirs, repo, record>>
  BY DEF PublishInv, JobsFit, DatasetStep
<1>2. PICK v : (Becomes(j, v) \/ Disturb(j, v)) /\ v.kind # "oos"
  <2>1. Ended.kind # "oos"
    BY EndedFits, NoneAssumption DEF Kinds
  <2>2. CASE ReleaseSteps(j)
    <3>1. w.kind \in {"release_catalog", "release_sources"}
      BY <1>1, <2>2, KindOfPc DEF ReleaseSteps, HashFiles, WriteArchive, BuildLock, At, ReleasePcs, Fits
    <3>2. CASE End(j)
      BY <2>1, <3>2 DEF End, Becomes
    <3>3. CASE ~End(j)
      <4>1. PICK c, s, q : job' = [job EXCEPT ![j].cand = c, ![j].pc = q] \/ job' = [job EXCEPT ![j].seen = s, ![j].pc = q]
        BY <2>2, <3>3 DEF ReleaseSteps, HashFiles, WriteArchive, BuildLock
      <4>2. PICK v : v = job'[j]
        OBVIOUS
      <4>3. v = [w EXCEPT !.cand = c, !.pc = q] \/ v = [w EXCEPT !.seen = s, !.pc = q]
        BY <1>1, <4>1, <4>2
      <4>4. v.kind # "oos"
        BY <1>1, <3>1, <4>3 DEF JobType
      <4>5. Becomes(j, v)
        BY <1>1, <4>1, <4>2 DEF Becomes
      <4>6. QED
        BY <4>4, <4>5
    <3>4. QED
      BY <3>2, <3>3
  <2>3. CASE ~ReleaseSteps(j)
    <3>1. FetchSteps(j) \/ ReplaceTarget(j) \/ RebuildCatalog(j)
      BY <2>3 DEF DatasetStep, ReleaseSteps, MaterializeCatalog, MaterializeSources, FetchSources, Materialize,
        FetchSteps
    <3>2. w.pc \in DatasetPcs \cup RebuildPcs
      BY <3>1 DEF FetchSteps, ReplaceTarget, RebuildCatalog, RequireSafeTarget, Download, VerifyAsset,
        ExtractArchive, LoadCatalogSources, SubmitSource, FetchChecksum, FetchArchive, JoinWorkers, LoadConfig,
        VerifySourceRoot, RefetchSnapshot, PrepareCatalog, ReadSources, BeginFile, SettleFile, WriteFails,
        ClearDirectory, WriteDefaultSnapshot, UnlinkSnapshot, VerifyRebuilt, At, DatasetPcs, RebuildPcs
    <3>3. w.kind # "oos"
      BY <1>1, <3>2, KindOfPc DEF Fits
    <3>4. PICK v : (Becomes(j, v) \/ Disturb(j, v)) /\ (v = Ended \/ v.kind = w.kind)
      BY <3>1, DatasetKind DEF KeepsKind
    <3>5. QED
      BY <2>1, <3>3, <3>4
  <2>4. QED
    BY <2>2, <2>3
<1>3. job'[j] = v /\ \A k \in Jobs \ {j} : job'[k] = job[k] \/ job'[k] = [job[k] EXCEPT !.disturbed = TRUE]
  BY <1>1, <1>2 DEF Becomes, Disturb
<1>4. \A k \in Jobs \ {j} : Edited(job[k])'
  BY <1>1, <1>3, OthersEdited DEF RepoStays
<1>5. Edited(job[j])' /\ RecordMatchesCommit'
  BY <1>1, <1>2, <1>3 DEF Edited, RevisionInv, RecordMatchesCommit
<1>6. QED
  BY <1>4, <1>5 DEF RevisionInv

(* An edit is counted; a commit ends what a rebuild could still publish.     *)
LEMMA DeveloperEdits ==
  ASSUME PublishInv, RevisionInv, Edit \/ Commit
  PROVE  RevisionInv'
<1>1. UNCHANGED <<parts, record>> /\ RecordMatchesCommit' /\ repo \in RepoType /\ job \in [Jobs -> JobType]
  BY DEF Edit, Commit, dirs, RevisionInv, RecordMatchesCommit, PublishInv, StoreType, JobsFit
<1>2. SUFFICES ASSUME NEW k \in Jobs, job'[k].kind = "oos" PROVE Edited(job[k])'
  BY <1>1 DEF RevisionInv, Edited
<1> DEFINE w == job[k]  v == job'[k]
<1>3. CASE Edit
  <2>1. /\ repo'.sha = repo.sha /\ repo'.head = repo.head /\ repo'.work = 1 - repo.work
        /\ v = IF w.kind = "oos" THEN [w EXCEPT !.edits = @ + 1] ELSE w
    BY <1>1, <1>3 DEF Edit, RepoType
  <2>2. w.kind = "oos" /\ w \in JobType /\ Edited(w)
    BY <1>1, <1>2, <2>1 DEF RevisionInv
  <2>3. /\ v.kind = w.kind /\ v.root = w.root /\ v.sha = w.sha /\ v.commit = w.commit /\ v.contract = w.contract
        /\ v.edits = w.edits + 1 /\ v.code = w.code /\ v.tasks = w.tasks /\ v.used = w.used /\ v.pc = w.pc
        /\ w.edits \in Nat
    BY <2>1, <2>2 DEF JobType
  <2>4. Matches(job[k])' = Matches(w) /\ Strayed(job[k])' = Strayed(w) /\ Trained(job[k])' = Trained(w)
    BY <2>3 DEF Matches, Strayed, Trained, ToDo
  <2>5. \A f \in FoldIds : CodeOf(job[k], f)' = CodeOf(w, f)
    BY <1>1, <2>3 DEF CodeOf
  <2>6. ASSUME repo.sha = w.sha, w.pc \notin RecheckedPcs PROVE AtRevision(job[k])'
    <3>1. AtRevision(w)
      BY <2>2, <2>6 DEF Edited
    <3>2. /\ AtLeast(w, 1, w.commit) => AtLeast(job[k], 1, job[k].commit)'
          /\ AtLeast(w, 2, Strayed(w)) => AtLeast(job[k], 2, Strayed(job[k]))'
          /\ AtLeast(w, 3, w.commit) => AtLeast(job[k], 3, job[k].commit)'
      BY <2>3 DEF AtLeast
    <3>3. ContractEdits(job[k])'
      BY <2>3, <2>4, <3>1, <3>2 DEF AtRevision, ContractEdits
    <3>4. CodeEdits(job[k])'
      <4>1. \A f \in Trained(w) : f \in FoldIds
        BY DEF Trained
      <4>2. CodeEdits(w)
        BY <3>1 DEF AtRevision
      <4>3. \A f \in Trained(w) : CodeOf(job[k], f)' = CodeOf(w, f)
        BY <2>5, <4>1
      <4>4. QED
        BY <2>3, <2>4, <3>2, <4>2, <4>3 DEF CodeEdits
    <3>5. QED
      BY <2>1, <2>3, <2>4, <3>1, <3>2, <3>3, <3>4 DEF AtRevision
  <2>7. QED
    BY <2>1, <2>2, <2>3, <2>4, <2>6 DEF Edited
<1>4. CASE Commit
  <2>1. repo'.sha = repo.sha + 1 /\ v = w /\ repo.sha \in Nat
    BY <1>1, <1>4 DEF Commit, RepoType
  <2>2. Edited(w) /\ w.kind = "oos" /\ w.sha \in Nat
    BY <1>1, <1>2, <2>1 DEF RevisionInv, JobType
  <2>3. Matches(job[k])' = Matches(w)
    BY <2>1 DEF Matches
  <2>4. w.sha <= repo'.sha /\ repo'.sha # w.sha
    BY <2>1, <2>2 DEF Edited
  <2>5. QED
    BY <2>1, <2>2, <2>3, <2>4 DEF Edited
<1>5. QED
  BY <1>3, <1>4

(* The revisions hold at the start and are kept by every step. *)
LEMMA RevisionStart == Init => RevisionInv
<1> SUFFICES ASSUME Init PROVE RevisionInv
  OBVIOUS
<1>1. \A j \in Jobs : job[j].kind # "oos"
  BY NoneAssumption DEF Init, IdleJob, Kinds
<1>2. QED
  BY <1>1 DEF RevisionInv, Edited, Init, RecordMatchesCommit

(* No step lets a rebuild publish what fewer than four edits could not hide. *)
LEMMA RevisionNext == PublishInv /\ RevisionInv /\ [Next]_vars => RevisionInv'
<1> SUFFICES ASSUME PublishInv, RevisionInv, [Next]_vars PROVE RevisionInv'
  OBVIOUS
<1>1. CASE UNCHANGED vars
  BY <1>1 DEF vars, dirs, RevisionInv, Edited, AtRevision, ContractEdits, CodeEdits, AtLeast, Strayed, CodeOf,
    Matches, Trained, ToDo, RecordMatchesCommit
<1>2. ASSUME NEW j \in Jobs, Start(j) PROVE RevisionInv'
  <2>1. PICK new \in DatasetCommands \cup ResearchCommands : job' = [job EXCEPT ![j] = new]
    BY <1>2 DEF Start
  <2>2. job'[j] = new /\ \A k \in Jobs \ {j} : job'[k] = job[k]
    BY <2>1 DEF PublishInv, JobsFit
  <2>3. FilesLast /\ UNCHANGED <<parts, repo, record>> /\ repo \in RepoType
    BY <1>2, EvidenceLasts DEF Next, Start, PublishInv, StoreType
  <2>4. \A k \in Jobs \ {j} : Edited(job[k])'
    BY <2>2, <2>3, OthersEdited DEF RepoStays
  <2>5. Edited(job[j])'
    <3>1. SUFFICES ASSUME new.kind = "oos" PROVE Edited(job[j])'
      BY <2>2 DEF Edited
    <3>2. new.pc = "capture" /\ new.sha = 0 /\ new.tasks = EvaluationPlan
      <4>1. Fits(new) /\ new.pc = "capture" /\ new.sha = 0
        BY <3>1, CommandFits, CommandReads
      <4>2. QED
        BY <3>1, <4>1 DEF Fits, TasksFit, AdmissionPcs
    <3>3. Trained(job[j])' = {}
      <4>1. \A f \in FoldIds : Training(f) \in Trainings
        BY DEF Trainings
      <4>2. QED
        BY <2>2, <3>2, <4>1, PlanIsComplete DEF Trained, ToDo
    <3>4. QED
      BY <2>2, <2>3, <3>2, <3>3 DEF Edited, AtRevision, ContractEdits, CodeEdits, CodingPcs, HoldingPcs,
        RecheckedPcs, VerifiedPcs, RepoType
  <2>6. QED
    BY <2>3, <2>4, <2>5 DEF RevisionInv, RecordMatchesCommit
<1>3. ASSUME NEW j \in Jobs, Stop(j) PROVE RevisionInv'
  <2>1. job'[j] = Ended /\ (\A k \in Jobs \ {j} : job'[k] = job[k]) /\ UNCHANGED <<dirs, repo, record>>
    BY <1>3 DEF Stop, End, PublishInv, JobsFit
  <2>2. FilesLast
    BY <1>3, EvidenceLasts DEF Next
  <2>3. \A k \in Jobs \ {j} : Edited(job[k])'
    BY <2>1, <2>2, OthersEdited DEF RepoStays
  <2>4. QED
    BY <2>1, <2>3, EndedEdited DEF RevisionInv, RecordMatchesCommit
<1>4. ASSUME NEW j \in Jobs, JobStep(j) PROVE RevisionInv'
  <2>1. FilesLast
    BY <1>4, EvidenceLasts DEF Next
  <2>2. QED
    BY <1>4, <2>1, ResearchEdits, DatasetEdits DEF JobStep
<1>5. QED
  BY <1>1, <1>2, <1>3, <1>4, DeveloperEdits DEF Next

(* RecordMatchesCommit: a record binds one commit, one contract and one code  *)
(* identity, unless the code was edited at least four times meanwhile.        *)
THEOREM RecordsMatchTheirCommit == Spec => []RecordMatchesCommit
<1>1. Init => RevisionInv
  BY RevisionStart
<1>2. PublishInv /\ RevisionInv /\ [Next]_vars => RevisionInv'
  BY RevisionNext
<1>3. RevisionInv => RecordMatchesCommit
  BY DEF RevisionInv
<1>4. QED
  BY <1>1, <1>2, <1>3, EvidencePublished, PTL DEF Spec

-----------------------------------------------------------------------------
(* The promise to a reader. *)

(* What a reader sees of the archives. *)
LEMMA SourcesSeen ==
  /\ SourcesWhole => SourceState = "whole"
  /\ SourcesNone => SourceState = "nothing"
  /\ SourcesWhole' => SourceState' = "whole"
  /\ SourcesNone' => SourceState' = "nothing"
<1>1. SourcesWhole => Archives = {"locked"}
  BY SourcesAssumption DEF SourcesWhole, Archives
<1>2. SourcesNone => Archives = {"none"}
  BY SourcesAssumption DEF SourcesNone, Archives
<1>3. SourcesWhole' => Archives' = {"locked"}
  BY SourcesAssumption DEF SourcesWhole, Archives
<1>4. SourcesNone' => Archives' = {"none"}
  BY SourcesAssumption DEF SourcesNone, Archives
<1>5. {"locked"} # {"none"}
  OBVIOUS
<1>6. QED
  BY <1>1, <1>2, <1>3, <1>4, <1>5 DEF SourceState

(* An evaluation is complete when its roots back what their manifests name.  *)
Done(r) == (\A f \in FoldIds : parts[<<r, f>>].manifest # None) /\ Backs(r, Manifest(r))
(* The completed evaluations are those of the roots that are done. *)
LEMMA CompletedSeen ==
  /\ CompletedEvaluations = {Evaluation(r, Manifest(r)) : r \in {q \in Roots : Done(q)}}
  /\ CompletedEvaluations' = {Evaluation(r, Manifest(r)') : r \in {q \in Roots : Done(q)'}}
<1>1. FoldIds # {}
  BY DEF FoldIds
<1>2. \A q \in Roots : Done(q) <=> \A f \in FoldIds : parts[<<q, f>>].manifest # None /\ Backs(q, Manifest(q))
  BY <1>1 DEF Done
<1>3. \A q \in Roots :
        Done(q)' <=> \A f \in FoldIds : parts'[<<q, f>>].manifest # None /\ Backs(q, Manifest(q))'
  BY <1>1 DEF Done
<1>4. CompletedEvaluations = {Evaluation(r, Manifest(r)) : r \in {q \in Roots : Done(q)}}
  BY <1>2 DEF CompletedEvaluations
<1>5. CompletedEvaluations' = {Evaluation(r, Manifest(r)') : r \in {q \in Roots : Done(q)'}}
  BY <1>3 DEF CompletedEvaluations, Evaluation
<1>6. QED
  BY <1>4, <1>5

(* The files of a pair of roots that a reader looks at. *)
SameFiles(r) ==
  /\ roots'[r] = roots[r]
  /\ \A f \in FoldIds : /\ parts'[<<r, f>>].manifest = parts[<<r, f>>].manifest
                        /\ parts'[<<r, f>>].model = parts[<<r, f>>].model
  /\ \A t \in RunSet : runs'[<<r, t>>].files = runs[<<r, t>>].files

(* Roots whose files stay are complete as before. *)
LEMMA SameFilesDone ==
  ASSUME NEW r \in Roots, SameFiles(r)
  PROVE  Manifest(r)' = Manifest(r) /\ Done(r)' = Done(r)
<1>1. Manifest(r)' = Manifest(r)
  BY DEF SameFiles, Manifest
<1>2. Backs(r, Manifest(r))' = Backs(r, Manifest(r))
  BY <1>1 DEF SameFiles, Backs
<1>3. QED
  BY <1>1, <1>2 DEF Done, SameFiles

(* What was complete stays so, by the same manifests. *)
LEMMA DoneStays ==
  ASSUME PublishInv, StoreType', FilesLast, NEW r \in Roots, Done(r)
  PROVE  Manifest(r)' = Manifest(r) /\ Done(r)'
<1>1. ASSUME NEW f \in FoldIds
      PROVE  /\ parts'[<<r, f>>].manifest = parts[<<r, f>>].manifest /\ parts[<<r, f>>].manifest # None
             /\ parts'[<<r, f>>].model = parts[<<r, f>>].manifest.model
  <2>1. <<r, f>> \in Roots \X FoldIds /\ parts[<<r, f>>].manifest # None
        /\ parts[<<r, f>>].model = parts[<<r, f>>].manifest.model
    BY DEF Done, Backs, Manifest
  <2>2. parts[<<r, f>>] \in PartType
    BY <2>1 DEF PublishInv, StoreType
  <2>3. parts[<<r, f>>].model # None
    BY <2>1, <2>2, NoneAssumption DEF PartType, Manifests
  <2>4. QED
    BY <2>1, <2>3 DEF FilesLast
<1>2. Manifest(r)' = Manifest(r)
  BY <1>1 DEF Manifest
<1>3. ASSUME NEW t \in RunSet PROVE runs'[<<r, t>>].files = Outputs
  <2>1. <<r, t>> \in Roots \X RunKeys
    BY TaskKinds
  <2>2. runs'[<<r, t>>] \in RunType /\ runs[<<r, t>>].files = Outputs
    BY <2>1 DEF StoreType, Done, Backs
  <2>3. QED
    BY <2>1, <2>2 DEF FilesLast, RunType
<1>4. {"parameters", "manifest"} \subseteq roots'[r]
  BY DEF Done, Backs, FilesLast
<1>5. Backs(r, Manifest(r))'
  BY <1>1, <1>2, <1>3, <1>4 DEF Backs, Manifest
<1>6. QED
  BY <1>1, <1>2, <1>5 DEF Done

(* A step that touches the files of one pair of roots at most completes one   *)
(* evaluation at most.                                                       *)
LEMMA OneCompletes ==
  ASSUME PublishInv, StoreType', FilesLast, NEW r, \A q \in Roots : q # r => SameFiles(q)
  PROVE  \/ UNCHANGED CompletedEvaluations
         \/ \E e \in CompletedEvaluations' : CompletedEvaluations' = CompletedEvaluations \cup {e}
<1> DEFINE e == Evaluation(r, Manifest(r)')
<1>1. CompletedEvaluations \subseteq CompletedEvaluations'
  BY CompletedSeen, DoneStays
<1>2. ASSUME NEW x \in CompletedEvaluations', x \notin CompletedEvaluations PROVE x = e
  <2>1. PICK q \in Roots : Done(q)' /\ x = Evaluation(q, Manifest(q)')
    BY <1>2, CompletedSeen
  <2>2. CASE q = r
    BY <2>1, <2>2
  <2>3. CASE q # r
    <3>1. Done(q) /\ Manifest(q)' = Manifest(q)
      BY <2>1, <2>3, SameFilesDone
    <3>2. x \in CompletedEvaluations
      BY <2>1, <3>1, CompletedSeen
    <3>3. QED
      BY <1>2, <3>2
  <2>4. QED
    BY <2>2, <2>3
<1>3. QED
  BY <1>1, <1>2

(* A research job writes into its own roots only. *)
LEMMA OwnRootsOnly ==
  ASSUME PublishInv, NEW j \in Jobs, ResearchStep(j), NEW q \in Roots, q # job[j].root
  PROVE  SameFiles(q)
<1>1. /\ parts \in [Roots \X FoldIds -> PartType] /\ runs \in [Roots \X RunKeys -> RunType]
      /\ roots \in [Roots -> SUBSET RootFiles]
  BY SMTT(30) DEF PublishInv, StoreType
<1>2. UNCHANGED parts \/ \E p : Change(j, p)
  BY ZenonT(60) DEF ResearchStep, RebuildOos, RunEvaluation, TrainArtifact, RunBase, RunScenario, Momentum, Model,
    CaptureProvenance, RebuildContract, BindCatalog, RequireNewRoots, MakeRoot, FreezeParameters, LoadWindow,
    ReadTrainingRows, ValidateProvenance, RuntimeIdentity, LookAtPartition, OpenClaim, ConfirmClaim,
    MakePending, LinkModel, WriteManifest, ReleaseClaim, ClaimRunRoot, BindRun, ReadExpected, LoadNativeData,
    LoadArtifact, RereadManifest, RunEngine, Rebind, WriteOutput, WriteEvaluationManifest, BindAgain,
    BuildRecord, RequireComplete, RecheckRevision, RecheckContract, StageRecord, PublishRecord, dirs
<1>3. \/ UNCHANGED runs
      \/ \E b : runs' = [runs EXCEPT ![RunKey(j)].made = b]
      \/ \E o : runs' = [runs EXCEPT ![RunKey(j)].files = @ \cup {o}]
  BY ZenonT(60) DEF ResearchStep, RebuildOos, RunEvaluation, TrainArtifact, RunBase, RunScenario, Momentum, Model,
    CaptureProvenance, RebuildContract, BindCatalog, RequireNewRoots, MakeRoot, FreezeParameters, LoadWindow,
    ReadTrainingRows, ValidateProvenance, RuntimeIdentity, LookAtPartition, OpenClaim, ConfirmClaim,
    MakePending, LinkModel, WriteManifest, ReleaseClaim, ClaimRunRoot, BindRun, ReadExpected, LoadNativeData,
    LoadArtifact, RereadManifest, RunEngine, Rebind, WriteOutput, WriteEvaluationManifest, BindAgain,
    BuildRecord, RequireComplete, RecheckRevision, RecheckContract, StageRecord, PublishRecord, dirs,
    RequireRun, ReleaseEmpty
<1>4. UNCHANGED roots \/ \E x : roots' = [roots EXCEPT ![job[j].root] = x]
  BY DEF ResearchStep, RebuildOos, RunEvaluation, TrainArtifact, RunBase, RunScenario, Momentum, Model,
    CaptureProvenance, RebuildContract, BindCatalog, RequireNewRoots, MakeRoot, FreezeParameters, LoadWindow,
    ReadTrainingRows, ValidateProvenance, RuntimeIdentity, LookAtPartition, OpenClaim, ConfirmClaim,
    MakePending, LinkModel, WriteManifest, ReleaseClaim, ClaimRunRoot, BindRun, ReadExpected, LoadNativeData,
    LoadArtifact, RereadManifest, RunEngine, Rebind, WriteOutput, WriteEvaluationManifest, BindAgain,
    BuildRecord, RequireComplete, RecheckRevision, RecheckContract, StageRecord, PublishRecord, dirs
<1>5. \A f \in FoldIds : parts'[<<q, f>>] = parts[<<q, f>>]
  <2>1. ASSUME NEW f \in FoldIds PROVE <<q, f>> # Partition(j) /\ <<q, f>> \in Roots \X FoldIds
    BY DEF Partition
  <2>2. QED
    BY <1>1, <1>2, <2>1 DEF Change
<1>6. ASSUME NEW t \in RunSet PROVE runs'[<<q, t>>] = runs[<<q, t>>]
  <2>1. <<q, t>> # RunKey(j) /\ <<q, t>> \in Roots \X RunKeys
    BY TaskKinds DEF RunKey
  <2>2. QED
    BY <1>1, <1>3, <2>1
<1>7. roots'[q] = roots[q]
  BY <1>1, <1>4
<1>8. QED
  BY <1>5, <1>6, <1>7 DEF SameFiles

(* What the reader sees of the record. *)
Named == IF record = None THEN None ELSE Evaluation(record.root, record.used)
(* The record that is published names a complete evaluation. *)
LEMMA PublishesCompleted ==
  ASSUME PublishInv, NEW j \in Jobs, PublishRecord(j)
  PROVE  Named' \in CompletedEvaluations
<1> DEFINE w == job[j]
<1>1. /\ w.root \in Roots /\ Complete(w.root, w.used) /\ w.used \in [FoldIds -> Manifests]
      /\ record' \in Records /\ record'.root = w.root /\ record'.used = w.used
  BY PublishedRecord
<1>2. \A f \in FoldIds : parts[<<w.root, f>>].manifest = w.used[f] /\ w.used[f] # None
  BY <1>1 DEF Complete, Backs
<1>3. Manifest(w.root) = w.used
  BY <1>1, <1>2 DEF Manifest
<1>4. Done(w.root)
  BY <1>1, <1>2, <1>3 DEF Done, Complete
<1>5. Named' = Evaluation(w.root, w.used)
  BY <1>1, NoneAssumption DEF Named, Evaluation
<1>6. QED
  BY <1>1, <1>3, <1>4, <1>5, CompletedSeen

(* What the reader does not see. *)
Unseen == UNCHANGED <<SourceState, CompletedEvaluations, Named>>
Shown == Promise!PublishSources \/ Promise!Complete \/ Promise!PublishRecord \/ Unseen
(* What a step that leaves the archives and the record alone shows.          *)
LEMMA FilesShown ==
  ASSUME PublishInv, StoreType', FilesLast, UNCHANGED <<raw, record>>,
         NEW r, \A q \in Roots : q # r => SameFiles(q)
  PROVE  Shown
<1>1. UNCHANGED SourceState /\ UNCHANGED Named
  BY DEF SourceState, Archives, Named, Evaluation
<1>2. CASE UNCHANGED CompletedEvaluations
  BY <1>1, <1>2 DEF Unseen, Shown
<1>3. CASE \E e \in CompletedEvaluations' : CompletedEvaluations' = CompletedEvaluations \cup {e}
  BY <1>1, <1>3 DEF Shown, Promise!Complete, Named
<1>4. QED
  BY <1>2, <1>3, OneCompletes

(* What a step that leaves the evaluations alone shows. *)
LEMMA StillShown ==
  ASSUME UNCHANGED dirs
  PROVE  UNCHANGED CompletedEvaluations
BY DEF dirs, CompletedEvaluations, Evaluation, Manifest, Backs

(* What the steps of the jobs show. *)
LEMMA JobShown ==
  ASSUME PublishInv, PublishInv', ReadInv, ReadInv', FilesLast, NEW j \in Jobs, JobStep(j)
  PROVE  Shown
<1>1. CASE ResearchStep(j) /\ PublishRecord(j)
  <2>1. UNCHANGED <<raw, dirs>>
    BY <1>1 DEF ResearchStep, PublishRecord
  <2>2. UNCHANGED SourceState /\ UNCHANGED CompletedEvaluations
    BY <2>1, StillShown DEF SourceState, Archives
  <2>3. Named' \in CompletedEvaluations
    BY <1>1, PublishesCompleted
  <2>4. QED
    BY <2>2, <2>3 DEF Shown, Promise!PublishRecord, Named
<1>2. CASE ResearchStep(j) /\ ~PublishRecord(j)
  <2>1. UNCHANGED <<raw, record>>
    BY <1>2 DEF ResearchStep, RebuildOos, RunEvaluation, TrainArtifact, RunBase, RunScenario, Momentum, Model,
      CaptureProvenance, RebuildContract, BindCatalog, RequireNewRoots, MakeRoot, FreezeParameters, LoadWindow,
      ReadTrainingRows, ValidateProvenance, RuntimeIdentity, LookAtPartition, OpenClaim, ConfirmClaim,
      MakePending, LinkModel, WriteManifest, ReleaseClaim, ClaimRunRoot, BindRun, ReadExpected, LoadNativeData,
      LoadArtifact, RereadManifest, RunEngine, Rebind, WriteOutput, WriteEvaluationManifest, BindAgain,
      BuildRecord, RequireComplete, RecheckRevision, RecheckContract, StageRecord
  <2>2. StoreType' /\ \A q \in Roots : q # job[j].root => SameFiles(q)
    BY <1>2, OwnRootsOnly DEF PublishInv
  <2>3. QED
    BY <2>1, <2>2, FilesShown, SMTT(30)
<1>3. CASE DatasetStep(j)
  <2>1. UNCHANGED <<dirs, record>>
    BY <1>3 DEF DatasetStep
  <2>2. UNCHANGED CompletedEvaluations /\ UNCHANGED Named
    BY <2>1, StillShown DEF Named, Evaluation
  <2>3. /\ SourcesWhole \/ SourcesNone
        /\ SourcesWhole' \/ SourcesNone'
        /\ SourcesWhole => SourcesWhole'
    BY <1>3, DatasetWrites DEF ReadInv, DataWritten
  <2>4. \/ UNCHANGED SourceState
        \/ SourceState = "nothing" /\ SourceState' = "whole"
    BY <2>3, SourcesSeen
  <2>5. QED
    BY <2>2, <2>4 DEF Shown, Unseen, Promise!PublishSources, Named
<1>4. QED
  BY <1>1, <1>2, <1>3 DEF JobStep

(* The reader starts with nothing or all of the archives, and no evaluation. *)
LEMMA PromiseStart == Init => Promise!Init
<1> SUFFICES ASSUME Init PROVE Promise!Init
  OBVIOUS
<1>1. SourceState \in {"nothing", "whole"}
  BY ReadStart, SourcesSeen DEF ReadInv
<1>2. \A r \in Roots : ~Done(r)
  BY DEF Init, Done, Backs
<1>3. CompletedEvaluations = {}
  BY <1>2, CompletedSeen
<1>4. record = None
  BY DEF Init
<1>5. QED
  BY <1>1, <1>3, <1>4 DEF Promise!Init

(* What the jobs and the developer do is what the promise allows. *)
LEMMA PromiseStep ==
  PublishInv /\ PublishInv' /\ ReadInv /\ ReadInv' /\ [Next]_vars => [Promise!Next]_(Promise!vars)
<1> SUFFICES ASSUME PublishInv, PublishInv', ReadInv, ReadInv', [Next]_vars
             PROVE  [Promise!Next]_(Promise!vars)
  OBVIOUS
<1>1. Shown => [Promise!Next]_(Promise!vars)
  BY DEF Shown, Unseen, Named, Promise!Next, Promise!vars
<1>2. CASE UNCHANGED <<raw, dirs, record>>
  <2>1. UNCHANGED SourceState /\ UNCHANGED CompletedEvaluations /\ UNCHANGED Named
    BY <1>2, StillShown DEF SourceState, Archives, Named, Evaluation
  <2>2. QED
    BY <1>1, <2>1 DEF Shown, Unseen
<1>3. ASSUME NEW j \in Jobs, Start(j) PROVE Shown
  <2>1. PICK new \in DatasetCommands \cup ResearchCommands :
          roots' = IF new.kind = "train"
                   THEN [roots EXCEPT ![new.root] = @ \cup {"parameters", "evidence_root"}] ELSE roots
    BY <1>3 DEF Start
  <2>2. UNCHANGED <<raw, parts, runs, record>> /\ StoreType' /\ roots \in [Roots -> SUBSET RootFiles] /\ FilesLast
    BY <1>3, EvidenceLasts DEF Start, PublishInv, StoreType, Next
  <2>3. \A q \in Roots : q # new.root => SameFiles(q)
    BY <2>1, <2>2 DEF SameFiles
  <2>4. QED
    BY <2>2, <2>3, FilesShown
<1>4. ASSUME NEW j \in Jobs, JobStep(j) PROVE Shown
  <2>1. FilesLast
    BY <1>4, EvidenceLasts DEF Next
  <2>2. QED
    BY <1>4, <2>1, JobShown
<1>5. QED
  BY <1>1, <1>2, <1>3, <1>4 DEF Next, Stop, Edit, Commit, vars

(* KeepsItsPromise: the archives are none or all and never lost, a completed   *)
(* evaluation stays as it is, and the record only ever names a completed one.   *)
THEOREM PromiseIsKept == Spec => KeepsItsPromise
<1>1. Init => ReadInv
  BY ReadStart
<1>2. PublishInv /\ ReadInv /\ [Next]_vars => ReadInv'
  BY ReadNext
<1>3. Init => Promise!Init
  BY PromiseStart
<1>4. PublishInv /\ PublishInv' /\ ReadInv /\ ReadInv' /\ [Next]_vars => [Promise!Next]_(Promise!vars)
  BY PromiseStep
<1>5. QED
  BY <1>1, <1>2, <1>3, <1>4, EvidencePublished, PTL DEF Spec, KeepsItsPromise, Promise!Spec

=============================================================================
