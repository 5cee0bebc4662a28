---------------------------- MODULE ResearchJobs ----------------------------
(***************************************************************************)
(* The jobs that read the catalog: training one artifact, one model        *)
(* backtest, and the formal rebuild that trains every fold, runs the whole *)
(* matrix and publishes the tracked acceptance record.                     *)
(***************************************************************************)
EXTENDS EvidenceStore

Now(j) == Head(job[j].tasks)
(* The task is done: on to the next one, or to what follows the last. *)
NextTask(j, new) ==
  LET rest == Tail(job[j].tasks) IN
  job' = [job EXCEPT ![j] =
            IF rest = <<>> /\ new.kind # "oos" THEN Ended
            ELSE [new EXCEPT !.tasks = rest, !.pc = EntryPc(rest, "manifest")]]

-----------------------------------------------------------------------------
(* Admission of a formal rebuild: the revision, the contract, new roots. *)

(* capture_formal_provenance: a clean tree, and the commit it is at. *)
CaptureProvenance(j) ==
  /\ At(j, "capture")
  /\ IF Clean
     THEN job' = [job EXCEPT ![j].sha = repo.sha, ![j].commit = repo.head,
                             ![j].pc = IF job[j].kind = "oos" THEN "contract"
                                       ELSE EntryPc(job[j].tasks, "manifest")]
     ELSE End(j)
  /\ UNCHANGED <<dirs, repo, record>>

RebuildContract(j) ==
  /\ At(j, "contract")
  /\ job' = [job EXCEPT ![j].contract = repo.work, ![j].pc = "bind"]
  /\ UNCHANGED <<dirs, repo, record>>

(* bind_accepted_stage2_catalog: every file of the tree, by size and hash. *)
BindCatalog(j) == /\ At(j, "bind")
                  /\ Require(j, CatalogBound, "new_roots")
                  /\ UNCHANGED <<dirs, repo, record>>

RequireNewRoots(j) ==
  /\ At(j, "new_roots")
  /\ Require(j, roots[job[j].root] \cap {"run_root", "evidence_root"} = {}, "mkdir_run")
  /\ UNCHANGED <<dirs, repo, record>>

(* mkdir without exist_ok: of two jobs that saw no directory, one makes it. *)
MakeRoot(j, dir, from, to) ==
  /\ At(j, from)
  /\ IF dir \in roots[job[j].root] THEN End(j) /\ UNCHANGED roots
     ELSE roots' = [roots EXCEPT ![job[j].root] = @ \cup {dir}] /\ Goto(j, to)
  /\ UNCHANGED <<parts, runs, repo, record>>

(* freeze_training_parameters: written once, before any artifact. *)
FreezeParameters(j) ==
  /\ At(j, "freeze")
  /\ IF "parameters" \in roots[job[j].root] THEN End(j) /\ UNCHANGED roots
     ELSE /\ roots' = [roots EXCEPT ![job[j].root] = @ \cup {"parameters"}]
          /\ Goto(j, EntryPc(job[j].tasks, "manifest"))
  /\ UNCHANGED <<parts, runs, repo, record>>

-----------------------------------------------------------------------------
(* Training the artifact of a fold into its partition. *)

Partition(j) == <<job[j].root, Now(j).fold>>
Part(j) == parts[Partition(j)]
Change(j, p) == parts' = [parts EXCEPT ![Partition(j)] = p]

(* What a read of the catalog returns: a file that is missing or cut off     *)
(* fails it, rows that differ from the locked ones need not.                 *)
Readable == \A f \in CatalogFiles : catalog[f] \notin {"none", "torn"}
ReadResult == IF CatalogLocked THEN "locked" ELSE "other"

LoadWindow(j) == /\ At(j, "t_bind")
                 /\ Require(j, CatalogBound, "t_read")
                 /\ UNCHANGED <<dirs, repo, record>>

ReadTrainingRows(j) ==
  /\ At(j, "t_read")
  /\ \/ Readable /\ job' = [job EXCEPT ![j].pc = "t_provenance",
                              ![j].reads = IF CatalogLocked THEN @ ELSE "other"]
     \/ ~CatalogLocked /\ End(j)
  /\ UNCHANGED <<dirs, repo, record>>

(* _validate_provenance captures the revision again; the partition is empty. *)
ValidateProvenance(j) ==
  /\ At(j, "t_provenance")
  /\ Require(j, Clean /\ repo.sha = job[j].sha /\ Part(j) = EmptyPartition, "t_code")
  /\ UNCHANGED <<dirs, repo, record>>

(* _runtime_identity hashes the code files as they are now. *)
RuntimeIdentity(j) ==
  /\ At(j, "t_code")
  /\ job' = [job EXCEPT ![j].code = repo.work, ![j].pc = "t_claim"]
  /\ UNCHANGED <<dirs, repo, record>>

(* _claim_artifact_partition looks, creates the claim, and looks again. *)
LookAtPartition(j) ==
  /\ At(j, "t_claim")
  /\ Require(j, Part(j) = EmptyPartition, "t_open")
  /\ UNCHANGED <<dirs, repo, record>>

ClaimReopened(p) == TRUE                              \* mutant: opened with "w"
ClaimIsNew(p) == p.claim = None

OpenClaim(j) ==
  /\ At(j, "t_open")
  /\ IF ~ClaimIsNew(Part(j)) THEN End(j) /\ UNCHANGED parts
     ELSE Change(j, [Part(j) EXCEPT !.claim = j]) /\ Goto(j, "t_confirm")
  /\ UNCHANGED <<runs, roots, repo, record>>

WithdrawAll(p) == EmptyPartition                      \* mutant: the partition is cleared
Withdraw(p) == [p EXCEPT !.claim = None]
OnlyClaimed(p) == ~p.pending /\ p.model = None /\ p.manifest = None

ConfirmClaim(j) ==
  /\ At(j, "t_confirm")
  /\ IF OnlyClaimed(Part(j)) THEN Goto(j, "t_pending") /\ UNCHANGED parts
     ELSE Change(j, Withdraw(Part(j))) /\ End(j)
  /\ UNCHANGED <<runs, roots, repo, record>>

ManifestBeforeModel == "t_manifest"                   \* mutant: swapped
AfterPending == "t_link"

MakePending(j) ==
  /\ At(j, "t_pending")
  /\ IF Part(j).pending THEN End(j) /\ UNCHANGED parts
     ELSE Change(j, [Part(j) EXCEPT !.pending = TRUE]) /\ Goto(j, AfterPending)
  /\ UNCHANGED <<runs, roots, repo, record>>

(* The model is saved aside and hard-linked to its name, which must be free. *)
LinkModel(j) ==
  /\ At(j, "t_link")
  /\ IF Part(j).model # None THEN End(j) /\ UNCHANGED parts
     ELSE /\ Change(j, [Part(j) EXCEPT !.model = j, !.pending = FALSE])
          /\ Goto(j, "t_manifest")
  /\ UNCHANGED <<runs, roots, repo, record>>

WriteManifest(j) ==
  /\ At(j, "t_manifest")
  /\ IF Part(j).manifest # None THEN End(j) /\ UNCHANGED parts
     ELSE /\ Change(j, [Part(j) EXCEPT
                !.manifest = [by |-> j, fold |-> Now(j).fold, model |-> Part(j).model,
                              sha |-> job[j].sha, code |-> job[j].code]])
          /\ Goto(j, "t_release")
  /\ UNCHANGED <<runs, roots, repo, record>>

ReleaseClaim(j) ==
  /\ At(j, "t_release")
  /\ Change(j, [Part(j) EXCEPT !.claim = None])
  /\ NextTask(j, job[j])
  /\ UNCHANGED <<runs, roots, repo, record>>

-----------------------------------------------------------------------------
(* One run of the matrix, or a backtest on its own, in its run partition. *)

RunKey(j) == <<job[j].root, Now(j)>>
Run(j) == runs[RunKey(j)]
IsReplay(j) == Now(j).scenario = "fees"
IsModel(j) == Now(j).strategy = "lightgbm" /\ ~IsReplay(j)

(* _release_empty_run_root: what holds an output is failure evidence. *)
ReleaseEmpty(j) ==
  /\ runs' = IF Run(j).files = {} THEN [runs EXCEPT ![RunKey(j)].made = FALSE] ELSE runs
  /\ End(j)

RunReused(j) == TRUE                                  \* mutant: mkdir with exist_ok
RunIsNew(j) == ~Run(j).made

ClaimRunRoot(j) ==
  /\ At(j, "r_mkdir")
  /\ IF ~RunIsNew(j) THEN End(j) /\ UNCHANGED runs
     ELSE /\ runs' = [runs EXCEPT ![RunKey(j)].made = TRUE]
          /\ Goto(j, "r_bind")
  /\ UNCHANGED <<parts, roots, repo, record>>

RequireRun(j, check, pc) ==
  IF check THEN Goto(j, pc) /\ UNCHANGED runs ELSE ReleaseEmpty(j)

BindRun(j) ==
  /\ At(j, "r_bind")
  /\ RequireRun(j, CatalogBound, IF IsReplay(j) THEN "r_native" ELSE "r_expected")
  /\ UNCHANGED <<parts, roots, repo, record>>

(* The batch features are read first, the data of the engine after them. *)
ReadExpected(j) ==
  /\ At(j, "r_expected")
  /\ \/ /\ Readable
        /\ job' = [job EXCEPT ![j].seen = ReadResult, ![j].pc = "r_native"]
        /\ UNCHANGED runs
     \/ ~CatalogLocked /\ ReleaseEmpty(j)
  /\ UNCHANGED <<parts, roots, repo, record>>

LoadNativeData(j) ==
  /\ At(j, "r_native")
  /\ \/ /\ Readable
        /\ job' = [job EXCEPT ![j].seen = IF @ \in {None, ReadResult} THEN "parity" ELSE "differs",
                              ![j].reads = IF CatalogLocked THEN @ ELSE "other",
                              ![j].pc = IF IsModel(j) THEN "r_load" ELSE "r_engine"]
        /\ UNCHANGED runs
     \/ ~CatalogLocked /\ ReleaseEmpty(j)
  /\ UNCHANGED <<parts, roots, repo, record>>

(* load_lightgbm_artifact: exactly the two files, a manifest of this code,    *)
(* and a model with the manifest's checksum.                                  *)
LoadArtifact(j) ==
  /\ At(j, "r_load")
  /\ IF /\ Published(Part(j))
        /\ Part(j).manifest.model = Part(j).model
        /\ Part(j).manifest.code = repo.work
     THEN /\ job' = [job EXCEPT ![j].used[Now(j).fold] = Part(j).manifest,
                                ![j].pc = "r_reread"]
          /\ UNCHANGED runs
     ELSE ReleaseEmpty(j)
  /\ UNCHANGED <<parts, roots, repo, record>>

(* The strategy reads the manifest again for what it reports. *)
RereadManifest(j) ==
  /\ At(j, "r_reread")
  /\ RequireRun(j, Part(j).manifest = job[j].used[Now(j).fold], "r_engine")
  /\ UNCHANGED <<parts, roots, repo, record>>

FeatureParity(j) == job[j].seen = "parity"
PredictionParity(j) == FeatureParity(j) /\ job[j].used[Now(j).fold] # None

(* The backtest itself, which may end in any error of the engine or audit. *)
RunEngine(j) ==
  /\ At(j, "r_engine")
  /\ \/ /\ IF IsModel(j) THEN PredictionParity(j) ELSE FeatureParity(j)
        /\ Goto(j, IF IsReplay(j) THEN "r_rebind" ELSE "r_reports")
        /\ UNCHANGED runs
     \/ ReleaseEmpty(j)
  /\ UNCHANGED <<parts, roots, repo, record>>

Rebind(j) ==
  /\ At(j, "r_rebind")
  /\ RequireRun(j, CatalogBound, "r_reports")
  /\ UNCHANGED <<parts, roots, repo, record>>

ManifestFirst == <<"manifest", "reports">>            \* mutant: swapped
OutputOrder == <<"reports", "manifest">>

WriteOutput(j, k) ==
  /\ At(j, <<"r_reports", "r_manifest">>[k])
  /\ IF OutputOrder[k] \in Run(j).files THEN ReleaseEmpty(j)
     ELSE /\ runs' = [runs EXCEPT ![RunKey(j)].files = @ \cup {OutputOrder[k]}]
          /\ IF k = 2 THEN NextTask(j, [job[j] EXCEPT !.seen = None])
             ELSE Goto(j, "r_manifest")
  /\ UNCHANGED <<parts, roots, repo, record>>

-----------------------------------------------------------------------------
(* The evaluation manifest and the acceptance record. *)

WriteEvaluationManifest(j) ==
  /\ At(j, "manifest")
  /\ roots' = [roots EXCEPT ![job[j].root] = @ \cup {"manifest"}]
  /\ Goto(j, "bind_again")
  /\ UNCHANGED <<parts, runs, repo, record>>

BindAgain(j) == /\ At(j, "bind_again")
                /\ Require(j, CatalogBound, "verify")
                /\ UNCHANGED <<dirs, repo, record>>

(* What the record refers to, as it is on disk. *)
RunOutputs(r, t) == runs[<<r, t>>].files = Outputs
ArtifactReference(r, f, used) ==
  /\ Published(parts[<<r, f>>])
  /\ parts[<<r, f>>].manifest = used[f]
  /\ parts[<<r, f>>].model = used[f].model
CompleteEvaluation(r, used) ==
  /\ {"parameters", "manifest"} \subseteq roots[r]
  /\ \A t \in RunSet : RunOutputs(r, t)
  /\ \A f \in FoldIds : ArtifactReference(r, f, used)

(* _build_acceptance_record hashes what is on disk, not what the runs held. *)
BuildRecord(j) ==
  /\ At(j, "verify")
  /\ Require(j, CompleteEvaluation(job[j].root, job[j].used), "complete")
  /\ UNCHANGED <<dirs, repo, record>>

(* One artifact per fold, no two the same, all from one runtime identity. *)
ArtifactsAgree(used) ==
  \A f, g \in FoldIds : used[f].code = used[g].code /\ (f # g => used[f] # used[g])
(* The contract is hashed once more and must be the one of the admission. *)
ConfigsCurrent(j) == repo.work = job[j].contract
(* The model runs of a fold, its replays included, name the fold's artifact. *)
RunMatrix(j) ==
  \A t \in RunSet : t.strategy = "lightgbm" => job[j].used[t.fold] # None

RequireComplete(j) ==
  /\ At(j, "complete")
  /\ Require(j, ArtifactsAgree(job[j].used) /\ ConfigsCurrent(j) /\ RunMatrix(j), "recheck")
  /\ UNCHANGED <<dirs, repo, record>>

(* _require_unchanged_formal_repository, in the order of its three reads. *)
SameRevision(j) == repo.sha = job[j].sha              \* mutant: the tree may be dirty
Unchanged(j) == Clean /\ repo.sha = job[j].sha

RecheckRevision(j) ==
  /\ At(j, "recheck")
  /\ Require(j, Unchanged(j), "recontract")
  /\ UNCHANGED <<dirs, repo, record>>

RecheckContract(j) ==
  /\ At(j, "recontract")
  /\ Require(j, repo.work = job[j].contract, "stage")
  /\ UNCHANGED <<dirs, repo, record>>

(* _write_json_replacing: a temporary file beside the record, then a rename. *)
StageRecord(j) ==
  /\ At(j, "stage")
  /\ repo' = [repo EXCEPT !.stray = @ \cup {j}]
  /\ Goto(j, "publish")
  /\ UNCHANGED <<dirs, record>>

AcceptanceRecord(j) ==
  [by |-> j, root |-> job[j].root, sha |-> job[j].sha,
   commit |-> job[j].commit, contract |-> job[j].contract, used |-> job[j].used,
   reads |-> job[j].reads, disturbed |-> job[j].disturbed, edits |-> job[j].edits]

PublishRecord(j) ==
  /\ At(j, "publish")
  /\ record' = AcceptanceRecord(j)
  /\ repo' = [repo EXCEPT !.stray = @ \ {j}, !.tracked = FALSE]
  /\ End(j)
  /\ UNCHANGED dirs

-----------------------------------------------------------------------------
(* The commands. *)

TrainArtifact(j) ==
  \/ LoadWindow(j) \/ ReadTrainingRows(j) \/ ValidateProvenance(j) \/ RuntimeIdentity(j)
  \/ LookAtPartition(j) \/ OpenClaim(j) \/ ConfirmClaim(j) \/ MakePending(j)
  \/ LinkModel(j) \/ WriteManifest(j) \/ ReleaseClaim(j)

RunBase(j) ==
  \/ ClaimRunRoot(j) \/ BindRun(j) \/ ReadExpected(j) \/ LoadNativeData(j)
  \/ LoadArtifact(j) \/ RereadManifest(j) \/ RunEngine(j)
  \/ WriteOutput(j, 1) \/ WriteOutput(j, 2)

RunScenario(j) ==
  \/ ClaimRunRoot(j) \/ BindRun(j) \/ LoadNativeData(j) \/ RunEngine(j) \/ Rebind(j)
  \/ WriteOutput(j, 1) \/ WriteOutput(j, 2)

RunEvaluation(j) ==
  \/ RequireNewRoots(j)
  \/ MakeRoot(j, "run_root", "mkdir_run", "mkdir_evidence")
  \/ MakeRoot(j, "evidence_root", "mkdir_evidence", "freeze")
  \/ FreezeParameters(j) \/ TrainArtifact(j)
  \/ job[j].tasks # <<>> /\ IF IsReplay(j) THEN RunScenario(j) ELSE RunBase(j)
  \/ WriteEvaluationManifest(j)

RebuildOos(j) ==
  \/ CaptureProvenance(j) \/ RebuildContract(j) \/ BindCatalog(j) \/ RunEvaluation(j)
  \/ BindAgain(j) \/ BuildRecord(j) \/ RequireComplete(j)
  \/ RecheckRevision(j) \/ RecheckContract(j) \/ StageRecord(j) \/ PublishRecord(j)

Momentum(j) == job[j].tasks = <<SingleRun("momentum")>> /\ RunBase(j)

Model(j) == job[j].tasks = <<SingleRun("lightgbm")>> /\ RunBase(j)

ResearchStep(j) ==
  /\ \/ job[j].kind = "oos" /\ RebuildOos(j)
     \/ job[j].kind = "train" /\ (CaptureProvenance(j) \/ TrainArtifact(j))
     \/ job[j].kind = "backtest" /\ (Momentum(j) \/ Model(j))
  /\ UNCHANGED <<catalog, raw, released, agenda>>
=============================================================================
