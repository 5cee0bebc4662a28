--------------------------- MODULE EvidenceStore ---------------------------
(***************************************************************************)
(* What the research jobs share: one Nautilus catalog, the raw sources it  *)
(* is rebuilt from, the evidence and run roots of the evaluations, and the *)
(* repository with its tracked Stage 3 acceptance record.                  *)
(*                                                                         *)
(* A job is one process running one command of the package.  Jobs run side *)
(* by side without a lock between them, a job may be killed at any step,   *)
(* and a developer edits and commits in the repository meanwhile.  A file  *)
(* is abstracted to whether it is the locked one: "none", "torn" (a write  *)
(* in progress or cut off), "locked" (the bytes the release lock names) or *)
(* "other".                                                                *)
(***************************************************************************)
EXTENDS Integers, Sequences, FiniteSets

CONSTANTS NJobs,       \* the processes that may run at the same time
          Roots,       \* names a job may pick for its output roots
          Sources,     \* the official archives of the raw root
          Agendas,     \* bound: how often a behaviour starts each kind of job,
                       \* kills one, edits and commits
          Attempts,    \* how often the download of a source is tried
          MaxWorkers,  \* download threads of one fetch
          None

VARIABLES catalog,   \* the catalog directory, per kind of file
          raw,       \* the raw root, per file
          parts,     \* the artifact partitions, per evidence root and fold
          runs,      \* the run partitions, per run root and run
          roots,     \* which directories and files of a pair of roots exist
          repo,      \* the repository: HEAD, working tree, stray files
          record,    \* the tracked acceptance record, or None
          released,  \* the release assets built last, or None
          job,       \* per job: the command it runs and how far it is
          agenda     \* what is left of the agenda of this behaviour

dirs == <<parts, runs, roots>>
vars == <<catalog, raw, dirs, repo, record, released, job, agenda>>

ASSUME NJobsAssumption == NJobs \in Nat
Jobs == 1..NJobs

Kinds == {"catalog", "sources", "fetch", "rebuild", "release_catalog",
          "release_sources", "train", "backtest", "oos"}
Events == Kinds \cup {"kill", "edit", "commit"}

CatalogFiles == {"bars", "auxiliary", "identity"}
RawFiles == Sources \cup {"snapshot"}
Contents == {"none", "torn", "locked", "other"}

(* The evaluation trains one artifact per fold, runs both strategies on     *)
(* every fold, and replays the runs of the final fold once per scenario.    *)
FoldIds == {"validation", "final"}
Task(fold, strategy, scenario) ==
  [fold |-> fold, strategy |-> strategy, scenario |-> scenario]
Training(fold) == Task(fold, "train", "none")
EvaluationRuns ==
  <<Task("validation", "momentum", "base"), Task("validation", "lightgbm", "base"),
    Task("final", "momentum", "base"), Task("final", "lightgbm", "base"),
    Task("final", "momentum", "fees"), Task("final", "lightgbm", "fees")>>
EvaluationPlan == <<Training("validation"), Training("final")>> \o EvaluationRuns
RunSet == {EvaluationRuns[k] : k \in DOMAIN EvaluationRuns}
(* The backtests run on their own have a fixed window, the validation fold's. *)
SingleRun(strategy) == Task("validation", strategy, "single")
RunKeys == RunSet \cup {SingleRun("momentum"), SingleRun("lightgbm")}
Outputs == {"reports", "manifest"}

EmptyTree(dir) == \A f \in DOMAIN dir : dir[f] = "none"
CatalogLocked == \A f \in CatalogFiles : catalog[f] = "locked"
IdentityLocked == catalog["identity"] = "locked"  \* mutant: the manifest alone is hashed
CatalogBound == CatalogLocked                     \* what binding the catalog asks of it
SourcesVerified ==
  \A f \in RawFiles : raw[f] = IF f = "snapshot" THEN "none" ELSE "locked"

EmptyPartition == [claim |-> None, pending |-> FALSE, model |-> None, manifest |-> None]
(* The two files the loader expects, and nothing else. *)
Published(p) == p.claim = None /\ ~p.pending /\ p.model # None /\ p.manifest # None

Clean == repo.work = repo.head /\ repo.tracked /\ repo.stray = {}

-----------------------------------------------------------------------------
(* Jobs. *)

IdleJob == [kind |-> None, pc |-> "idle", root |-> None, tasks |-> <<>>,
            sha |-> 0, commit |-> 0, contract |-> 0, code |-> 0, seen |-> None,
            used |-> [f \in FoldIds |-> None], cand |-> None, todo |-> {}, n |-> 0,
            failed |-> FALSE, reads |-> "locked", disturbed |-> FALSE, edits |-> 0]

Live(j) == job[j].kind # None
At(j, pc) == job[j].pc = pc
Goto(j, pc) == job' = [job EXCEPT ![j].pc = pc]
Ended == [IdleJob EXCEPT !.pc = "ended"]
End(j) == job' = [job EXCEPT ![j] = Ended]
(* Going on where a check passes, and leaving with an error where it fails. *)
Require(j, check, pc) == IF check THEN Goto(j, pc) ELSE End(j)

EntryPc(tasks, otherwise) ==
  IF tasks = <<>> THEN otherwise
  ELSE IF Head(tasks).strategy = "train" THEN "t_bind" ELSE "r_mkdir"

Init == /\ catalog \in [CatalogFiles -> {"none", "locked"}]
        /\ EmptyTree(catalog) \/ CatalogLocked
        /\ raw \in [RawFiles -> {"none", "locked"}]
        /\ EmptyTree(raw) \/ SourcesVerified
        /\ parts = [p \in Roots \X FoldIds |-> EmptyPartition]
        /\ runs = [k \in Roots \X RunKeys |-> [made |-> FALSE, files |-> {}]]
        /\ roots = [r \in Roots |-> {}]
        /\ repo = [sha |-> 0, head |-> 0, work |-> 0, tracked |-> TRUE,
                   stray |-> {}]
        /\ record = None /\ released = None
        /\ job = [j \in Jobs |-> IdleJob]
        /\ agenda \in Agendas
=============================================================================
