------------------------------ MODULE Evidence ------------------------------
(***************************************************************************)
(* The research jobs side by side: datasets are materialized, fetched and  *)
(* rebuilt while artifacts are trained, backtests run and a formal rebuild *)
(* publishes the acceptance record; jobs are killed and a developer works  *)
(* in the repository at any moment.                                        *)
(***************************************************************************)
EXTENDS DatasetJobs, ResearchJobs

NewJob(kind, pc) == [IdleJob EXCEPT !.kind = kind, !.pc = pc]

(* The command lines that start a job; a train gets parameters already frozen. *)
DatasetCommands ==
  {NewJob("catalog", "m_check"), NewJob("sources", "m_check"),
   [NewJob("fetch", "f_manifest") EXCEPT !.cand = [s \in Sources |-> "none"]],
   NewJob("rebuild", "b_config"), NewJob("release_catalog", "p_hash"),
   NewJob("release_sources", "p_hash")}
ResearchCommands ==
  UNION {{[NewJob("train", "capture") EXCEPT !.root = r, !.tasks = <<Training(f)>>] :
            f \in FoldIds}
         \cup {[NewJob("backtest", "r_mkdir") EXCEPT !.root = r, !.tasks = <<SingleRun(s)>>] :
                s \in {"momentum", "lightgbm"}}
         \cup {[NewJob("oos", "capture") EXCEPT !.root = r, !.tasks = EvaluationPlan]} :
         r \in Roots}

Spend(event) == agenda[event] > 0 /\ agenda' = [agenda EXCEPT ![event] = @ - 1]

(* Jobs are numbered in the order they start. *)
Start(j) ==
  /\ At(j, "idle")
  /\ \A k \in 1..(j - 1) : ~At(k, "idle")
  /\ \E new \in DatasetCommands \cup ResearchCommands :
       /\ Spend(new.kind)
       /\ job' = [job EXCEPT ![j] = new]
       /\ roots' = IF new.kind = "train"
                   THEN [roots EXCEPT ![new.root] = @ \cup {"parameters", "evidence_root"}]
                   ELSE roots
  /\ UNCHANGED <<catalog, raw, parts, runs, repo, record, released>>

(* A kill, or an exception nothing cleans up after: what is on disk stays. *)
Stop(j) == /\ Live(j) /\ Spend("kill")
           /\ End(j)
           /\ UNCHANGED <<catalog, raw, dirs, repo, record, released>>

(* The developer edits a code file, or puts back what was there. *)
Edit == /\ Spend("edit")
        /\ repo' = [repo EXCEPT !.work = 1 - @]
        /\ job' = [j \in Jobs |-> IF job[j].kind = "oos"
                                  THEN [job[j] EXCEPT !.edits = @ + 1] ELSE job[j]]
        /\ UNCHANGED <<catalog, raw, dirs, record, released>>

Commit == /\ ~Clean /\ Spend("commit")
          /\ repo' = [repo EXCEPT !.sha = @ + 1, !.head = repo.work,
                                  !.tracked = TRUE, !.stray = {}]
          /\ UNCHANGED <<catalog, raw, dirs, record, released, job>>

JobStep(j) == DatasetStep(j) \/ ResearchStep(j)

Next == \/ \E j \in Jobs : Start(j) \/ JobStep(j) \/ Stop(j)
        \/ Edit \/ Commit

Spec == Init /\ [][Next]_vars

-----------------------------------------------------------------------------
(* Properties. *)

Manifests == [by : Jobs, fold : FoldIds, model : Jobs, sha : Nat, code : {0, 1}]
Commands == {"idle", "ended", "m_check", "m_download", "m_verify", "m_extract", "m_replace",
             "f_manifest", "f_work", "p_hash", "p_archive", "p_identities",
             "b_config", "b_sources", "b_snapshot", "b_prepare", "b_read", "b_write",
             "b_settle", "b_clear", "b_default", "b_unlink", "b_verify",
             "capture", "contract", "bind", "new_roots", "mkdir_run", "mkdir_evidence",
             "freeze", "t_bind", "t_read", "t_provenance", "t_code", "t_claim", "t_open",
             "t_confirm", "t_pending", "t_link", "t_manifest", "t_release",
             "r_mkdir", "r_bind", "r_expected", "r_native", "r_load", "r_reread",
             "r_engine", "r_rebind", "r_reports", "r_manifest", "manifest", "bind_again",
             "verify", "complete", "recheck", "recontract", "stage", "publish"}

Records == [by : Jobs, root : Roots, sha : Nat, commit : {0, 1}, contract : {0, 1},
            used : [FoldIds -> Manifests], reads : {"locked", "other"},
            disturbed : BOOLEAN, edits : Nat]
(* None is nothing else; the snapshot of the instruments is no archive. *)
ASSUME NoneAssumption ==
  None \notin Jobs /\ None \notin Kinds /\ None \notin Manifests /\ None \notin Records
ASSUME SourcesAssumption == Sources # {} /\ "snapshot" \notin Sources

(* The files and directories the jobs share, and where each job is, stay in  *)
(* the sets the modules describe.                                            *)
TypeOK ==
  /\ catalog \in [CatalogFiles -> Contents]
  /\ raw \in [RawFiles -> Contents]
  /\ \A p \in Roots \X FoldIds :
       /\ parts[p].claim \in Jobs \cup {None} /\ parts[p].pending \in BOOLEAN
       /\ parts[p].model \in Jobs \cup {None}
       /\ parts[p].manifest # None => parts[p].manifest \in Manifests
  /\ runs \in [Roots \X RunKeys -> [made : BOOLEAN, files : SUBSET Outputs]]
  /\ roots \in [Roots -> SUBSET {"run_root", "evidence_root", "parameters", "manifest"}]
  /\ repo.stray \subseteq Jobs
  /\ \A j \in Jobs : job[j].pc \in Commands

(* The claim protocol of an artifact partition lets one trainer at a time    *)
(* past its confirmation, whoever was killed with a claim before it.         *)
Publishing(j) == job[j].pc \in {"t_pending", "t_link", "t_manifest", "t_release"}
OnePublisher ==
  \A j, k \in Jobs : /\ Publishing(j)
                     => /\ parts[<<job[j].root, Head(job[j].tasks).fold>>].claim = j
                        /\ Publishing(k) /\ j # k
                           => \/ job[j].root # job[k].root
                              \/ Head(job[j].tasks).fold # Head(job[k].tasks).fold

(* A run partition belongs to the one job that made it, and stays until that *)
(* job leaves it: no other job's clean-up takes it away.                     *)
Running(j) == job[j].pc \in {"r_bind", "r_expected", "r_native", "r_load", "r_reread",
                             "r_engine", "r_rebind", "r_reports", "r_manifest"}
OwnsItsRun ==
  \A j, k \in Jobs :
    Running(j) => /\ runs[<<job[j].root, Head(job[j].tasks)>>].made
                  /\ j # k /\ Running(k) => \/ job[j].root # job[k].root
                                            \/ Head(job[j].tasks) # Head(job[k].tasks)

(* A manifest is written last: a run that has one has its reports, and an     *)
(* evaluation that has one has every run and every artifact, whatever was      *)
(* killed on the way.                                                          *)
ManifestLast ==
  /\ \A k \in Roots \X RunKeys : "manifest" \in runs[k].files => "reports" \in runs[k].files
  /\ \A r \in Roots : "manifest" \in roots[r]
       => /\ \A t \in RunSet : runs[<<r, t>>].files = Outputs
          /\ \A f \in FoldIds : parts[<<r, f>>].manifest # None

Backs(r, used) == /\ {"parameters", "manifest"} \subseteq roots[r]
                  /\ \A t \in RunSet : runs[<<r, t>>].files = Outputs
                  /\ \A f \in FoldIds : /\ parts[<<r, f>>].manifest = used[f]
                                        /\ parts[<<r, f>>].model = used[f].model

(* Whatever runs after it, the evaluation the acceptance record names is on   *)
(* disk with the artifacts its model runs were made with.                     *)
RecordIsBacked == record # None => Backs(record.root, record.used)

(* A record binds one commit, one contract and one code identity. The clean   *)
(* tree is checked apart from the reads that use it, so edits put back in time *)
(* can slip through, but not fewer than four during the rebuild.               *)
RecordMatchesCommit ==
  record # None /\ record.edits < 4
    => /\ record.contract = record.commit
       /\ \A f \in FoldIds : /\ record.used[f].code = record.commit
                             /\ record.used[f].sha = record.sha

(* The data behind a record is the locked catalog, unless a dataset rebuild    *)
(* wrote into it while the evaluation read it.                                 *)
RecordReadsLocked == record # None /\ ~record.disturbed => record.reads = "locked"

(* A release lock names the very bytes of its archive, unless a rebuild wrote  *)
(* into the catalog between the two reads.                                     *)
ReleaseNamesItsFiles ==
  released # None /\ ~released.disturbed => released.files = released.archive

(* What the jobs publish implements what a reader is promised. *)
Archives == {raw[s] : s \in Sources}
SourceState == IF Archives = {"none"} THEN "nothing"
               ELSE IF Archives = {"locked"} THEN "whole" ELSE "part"
Evaluation(r, used) == [root |-> r, used |-> used]
Manifest(r) == [f \in FoldIds |-> parts[<<r, f>>].manifest]
CompletedEvaluations ==
  {Evaluation(r, Manifest(r)) : r \in {q \in Roots : \A f \in FoldIds :
       parts[<<q, f>>].manifest # None /\ Backs(q, Manifest(q))}}
Promise == INSTANCE PublishedEvidence
             WITH sources <- SourceState, completed <- CompletedEvaluations,
                  record <- IF record = None THEN None
                            ELSE Evaluation(record.root, record.used)
KeepsItsPromise == Promise!Spec
=============================================================================
