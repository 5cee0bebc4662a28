---------------------------- MODULE DatasetJobs ----------------------------
(***************************************************************************)
(* The jobs that fill the catalog and the raw root.  Materializing and     *)
(* fetching build a whole tree in a private directory next to the target   *)
(* and rename it into place; the rebuild writes the catalog in place, file *)
(* by file, and clears it when it fails.                                   *)
(***************************************************************************)
EXTENDS EvidenceStore

Target(j) == IF job[j].kind = "catalog" THEN catalog ELSE raw

(* What renaming a candidate whose archives hold `got` leaves in the target. *)
Install(j, got) ==
  IF job[j].kind = "catalog"
  THEN catalog' = [f \in CatalogFiles |-> got["archive"]] /\ UNCHANGED raw
  ELSE /\ raw' = [f \in RawFiles |-> IF f = "snapshot" THEN "none"
                                     ELSE IF f \in DOMAIN got THEN got[f]
                                     ELSE got["archive"]]
       /\ UNCHANGED catalog

-----------------------------------------------------------------------------
(* Materializing the release archive of the catalog or of the sources. *)

RequireSafeTarget(j) ==
  /\ At(j, "m_check")
  /\ Require(j, EmptyTree(Target(j)),
             IF job[j].kind = "fetch" THEN "f_work" ELSE "m_download")
  /\ UNCHANGED <<catalog, raw>>

Tries(j) == IF job[j].kind = "catalog" THEN 1 ELSE Attempts

(* One attempt: an archive arrives, right or wrong, or the connection fails. *)
Download(j) ==
  /\ At(j, "m_download")
  /\ \/ \E c \in {"locked", "other"} :
          job' = [job EXCEPT ![j].cand = [a \in {"archive"} |-> c],
                             ![j].pc = "m_verify"]
     \/ job[j].n + 1 < Tries(j) /\ job' = [job EXCEPT ![j].n = @ + 1]
     \/ job[j].n + 1 = Tries(j) /\ End(j)
  /\ UNCHANGED <<catalog, raw>>

VerifyAsset(j) ==
  /\ At(j, "m_verify")
  /\ Require(j, job[j].cand["archive"] = "locked", "m_extract")
  /\ UNCHANGED <<catalog, raw>>

(* A member that the lock does not name, or names otherwise, ends it; so does *)
(* an error of the disk.  The candidate is then verified like any tree.       *)
ExtractArchive(j) ==
  /\ At(j, "m_extract")
  /\ Goto(j, "m_replace") \/ End(j)
  /\ UNCHANGED <<catalog, raw>>

Replaced(dir) == TRUE                 \* mutant: what is there is removed first
Replaceable(dir) == EmptyTree(dir)

(* os.replace takes the place of an empty directory only. *)
ReplaceTarget(j) ==
  /\ At(j, "m_replace")
  /\ IF Replaceable(Target(j)) THEN Install(j, job[j].cand)
     ELSE UNCHANGED <<catalog, raw>>
  /\ End(j)

-----------------------------------------------------------------------------
(* Fetching the official archives: the threads of one ThreadPoolExecutor    *)
(* write into the same candidate directory, each its own source.            *)

(* The catalog manifest the user names must be the locked one. *)
LoadCatalogSources(j) ==
  /\ At(j, "f_manifest")
  /\ Goto(j, "m_check") \/ End(j)
  /\ UNCHANGED <<catalog, raw>>

Downloading(j) == {s \in DOMAIN job[j].cand : job[j].cand[s] \in {"sum", "torn"}}

SubmitSource(j, s) ==
  /\ At(j, "f_work") /\ job[j].cand[s] = "none"
  /\ Cardinality(Downloading(j)) < MaxWorkers
  /\ job' = [job EXCEPT ![j].cand[s] = "sum"]
  /\ UNCHANGED <<catalog, raw>>

(* The checksum file must repeat the catalog manifest's value before the     *)
(* archive is asked for.                                                     *)
FetchChecksum(j, s) ==
  /\ At(j, "f_work") /\ job[j].cand[s] = "sum"
  /\ \/ job' = [job EXCEPT ![j].cand[s] = "torn"]
     \/ job' = [job EXCEPT ![j].cand[s] = "other"]
  /\ UNCHANGED <<catalog, raw>>

FetchArchive(j, s) ==
  /\ At(j, "f_work") /\ job[j].cand[s] = "torn"
  /\ \E c \in {"locked", "other"} : job' = [job EXCEPT ![j].cand[s] = c]
  /\ UNCHANGED <<catalog, raw>>

AnyVerified(j) == \E s \in Sources : job[j].cand[s] = "locked"  \* mutant: one result asked
AllVerified(j) == \A s \in Sources : job[j].cand[s] = "locked"

(* Leaving the executor waits for every submitted source, after a failure too. *)
JoinWorkers(j) ==
  /\ At(j, "f_work")
  /\ \A s \in Sources : job[j].cand[s] \in {"locked", "other"}
  /\ Require(j, AllVerified(j), "m_replace")
  /\ UNCHANGED <<catalog, raw>>

-----------------------------------------------------------------------------
(* Rebuilding the catalog from the verified raw root. *)

LoadConfig(j) == /\ At(j, "b_config")
                 /\ Require(j, EmptyTree(catalog), "b_sources")
                 /\ UNCHANGED <<catalog, raw>>

VerifySourceRoot(j) == /\ At(j, "b_sources")
                       /\ Require(j, SourcesVerified, "b_snapshot")
                       /\ UNCHANGED <<catalog, raw>>

(* The instrument snapshot asked for again must have the locked checksum. *)
RefetchSnapshot(j) == /\ At(j, "b_snapshot")
                      /\ \/ Goto(j, "b_prepare")
                         \/ End(j)
                      /\ UNCHANGED <<catalog, raw>>

Fail(j) == job' = [job EXCEPT ![j].failed = TRUE, ![j].pc = "b_unlink"]

(* prepare_stage2_combined_catalog reads the configuration again, then every *)
(* archive; what it finds wrong ends it before anything is written.          *)
PrepareCatalog(j) ==
  /\ At(j, "b_prepare")
  /\ IF EmptyTree(catalog) THEN Goto(j, "b_read") ELSE Fail(j)
  /\ UNCHANGED <<catalog, raw>>

ReadSources(j) ==
  /\ At(j, "b_read")
  /\ IF \A s \in Sources : raw[s] = "locked"
     THEN job' = [job EXCEPT ![j].n = 1, ![j].pc = "b_write"]
     ELSE Fail(j)
  /\ UNCHANGED <<catalog, raw>>

WriteOrder == <<"bars", "auxiliary", "identity">>
Writing(j) == WriteOrder[job[j].n]

(* The jobs a write into the catalog disturbs: those that read it. *)
Disturb(j, new) ==
  job' = [k \in Jobs |->
            IF k = j THEN new
            ELSE IF job[k].kind \in {"oos", "release_catalog"} THEN [job[k] EXCEPT !.disturbed = TRUE]
            ELSE job[k]]

BeginFile(j) ==
  /\ At(j, "b_write")
  /\ catalog' = [catalog EXCEPT ![Writing(j)] = "torn"]
  /\ Disturb(j, [job[j] EXCEPT !.pc = "b_settle"])
  /\ UNCHANGED raw

(* The rows come from the locked archives, the bytes of the columnar files   *)
(* and a supplied instrument snapshot may still differ from the locked ones. *)
SettleFile(j) ==
  /\ At(j, "b_settle")
  /\ \E c \in IF Writing(j) = "auxiliary" THEN {"locked"} ELSE {"locked", "other"} :
       catalog' = [catalog EXCEPT ![Writing(j)] = c]
  /\ Disturb(j, [job[j] EXCEPT !.n = @ + 1,
                               !.pc = IF job[j].n = 3 THEN "b_default" ELSE "b_write"])
  /\ UNCHANGED raw

(* A write refused by the Nautilus catalog, or a read back that differs. *)
WriteFails(j) ==
  /\ job[j].pc \in {"b_write", "b_settle"}
  /\ job' = [job EXCEPT ![j].todo = {f \in CatalogFiles : catalog[f] # "none"},
                        ![j].pc = "b_clear"]
  /\ UNCHANGED <<catalog, raw>>

(* _clear_directory removes the entries it listed, whoever wrote them, and    *)
(* stops at one that is already gone.                                         *)
ClearDirectory(j) ==
  /\ At(j, "b_clear")
  /\ \/ job[j].todo = {} /\ Fail(j) /\ UNCHANGED catalog
     \/ \E f \in job[j].todo :
          IF catalog[f] = "none" THEN Fail(j) /\ UNCHANGED catalog
          ELSE /\ catalog' = [catalog EXCEPT ![f] = "none"]
               /\ Disturb(j, [job[j] EXCEPT !.todo = @ \ {f}])
  /\ UNCHANGED raw

WriteDefaultSnapshot(j) ==
  /\ At(j, "b_default")
  /\ raw' = [raw EXCEPT !["snapshot"] = "locked"]
  /\ Goto(j, "b_unlink")
  /\ UNCHANGED catalog

(* The finally clause: the generated snapshot leaves the raw root. *)
UnlinkSnapshot(j) ==
  /\ At(j, "b_unlink")
  /\ raw' = [raw EXCEPT !["snapshot"] = "none"]
  /\ Require(j, ~job[j].failed, "b_verify")
  /\ UNCHANGED catalog

(* The raw root and the identities are checked once more; a tree that is      *)
(* refused here is reported and stays in place, nothing clears it.            *)
VerifyRebuilt(j) == At(j, "b_verify") /\ End(j) /\ UNCHANGED <<catalog, raw>>

-----------------------------------------------------------------------------
(* Building the release assets: the files are hashed one by one, and read    *)
(* again for the archive.                                                    *)

Released(j) == IF job[j].kind = "release_catalog" THEN catalog ELSE raw

HashFiles(j) ==
  /\ At(j, "p_hash")
  /\ IF IF job[j].kind = "release_catalog" THEN ~EmptyTree(catalog) ELSE SourcesVerified
     THEN job' = [job EXCEPT ![j].cand = Released(j), ![j].pc = "p_archive"]
     ELSE End(j)
  /\ UNCHANGED <<catalog, raw>>

(* The archive asks for the hashed files again: one that is gone or shorter   *)
(* fails, one that changed need not.                                          *)
WriteArchive(j) ==
  LET archived == [f \in DOMAIN Released(j) |->
                     IF job[j].cand[f] = "none" THEN "none" ELSE Released(j)[f]]
      gone == \E f \in DOMAIN archived : archived[f] = "none" /\ job[j].cand[f] # "none"
  IN /\ At(j, "p_archive")
     /\ \/ ~gone /\ job' = [job EXCEPT ![j].seen = archived, ![j].pc = "p_identities"]
        \/ archived # job[j].cand /\ End(j)
     /\ UNCHANGED <<catalog, raw>>

Lock(j) == [kind |-> job[j].kind, files |-> job[j].cand, archive |-> job[j].seen,
            disturbed |-> job[j].disturbed]

(* Last, the identities of the catalog must be the accepted ones. *)
BuildLock(j) ==
  /\ At(j, "p_identities")
  /\ released' = IF job[j].kind = "release_catalog" /\ catalog["identity"] # "locked"
                 THEN released ELSE Lock(j)
  /\ End(j)
  /\ UNCHANGED <<catalog, raw>>

-----------------------------------------------------------------------------
(* The commands. *)

Materialize(j) ==
  \/ RequireSafeTarget(j) \/ Download(j) \/ VerifyAsset(j) \/ ExtractArchive(j)
  \/ ReplaceTarget(j)

MaterializeCatalog(j) == job[j].kind = "catalog" /\ Materialize(j)

MaterializeSources(j) == job[j].kind = "sources" /\ Materialize(j)

FetchSources(j) ==
  /\ job[j].kind = "fetch"
  /\ \/ LoadCatalogSources(j) \/ RequireSafeTarget(j)
     \/ \E s \in Sources : SubmitSource(j, s) \/ FetchChecksum(j, s) \/ FetchArchive(j, s)
     \/ JoinWorkers(j) \/ ReplaceTarget(j)

RebuildCatalog(j) ==
  \/ LoadConfig(j) \/ VerifySourceRoot(j) \/ RefetchSnapshot(j)
  \/ PrepareCatalog(j) \/ ReadSources(j) \/ BeginFile(j) \/ SettleFile(j)
  \/ WriteFails(j) \/ ClearDirectory(j) \/ WriteDefaultSnapshot(j)
  \/ UnlinkSnapshot(j) \/ VerifyRebuilt(j)

DatasetStep(j) ==
  /\ \/ /\ \/ MaterializeCatalog(j) \/ MaterializeSources(j)
           \/ FetchSources(j) \/ RebuildCatalog(j)
           \/ HashFiles(j) \/ WriteArchive(j)
        /\ UNCHANGED released
     \/ BuildLock(j)
  /\ UNCHANGED <<dirs, repo, record, agenda>>
=============================================================================
