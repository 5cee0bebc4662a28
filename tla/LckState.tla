------------------------------ MODULE LckState ------------------------------
(***************************************************************************)
(* The state one Task has under the Local Control Kernel (tools/lck):      *)
(* what GitHub holds, what the developer's clone holds, the markers LCK     *)
(* keeps under .workflow.local/lck, and the one operation that holds the    *)
(* Task lock.  Every non-status command takes that lock (cli.py), so at     *)
(* most one operation runs at a time; it can stop or die between any two    *)
(* of its steps, and GitHub, other writers of the branch and the developer  *)
(* move between any two of its steps.                                       *)
(***************************************************************************)
EXTENDS Naturals, FiniteSets

CONSTANTS
    MaxCommit,     \* bound: Task commits that can be made
    MaxMain,       \* bound: versions of origin/main
    MaxBody,       \* bound: versions of the Task contract (issue body)
    MaxReview,     \* bound: Review invocations
    MaxCrash,      \* bound: process deaths
    MaxForeign,    \* bound: pushes by another writer of the Task branch
    MaxRetouch,    \* bound: developer commits and resets outside LCK
    PortableFindings  \* whether findings may arrive from another workspace

ASSUME BoundsAssumption ==
    /\ MaxCommit \in Nat \ {0} /\ MaxMain \in Nat \ {0}
    /\ MaxBody \in Nat \ {0}   /\ MaxReview \in Nat \ {0}
    /\ MaxCrash \in Nat /\ MaxForeign \in Nat /\ MaxRetouch \in Nat
    /\ PortableFindings \in BOOLEAN

VARIABLES
    \* GitHub
    main, body, remote, pr, merged, status,
    \* the developer's clone; made, anc and onto describe the commits there are
    local, work, made, anc, onto,
    \* durable LCK markers
    required, session, marker, guard, clones, record, latest, receipt,
    \* the operation that holds the Task lock
    op,
    \* history: what happened, never read by an operation.  repaired holds the heads
    \* Remediation or Refresh pushed; unfenced those of them that a Remediation
    \* Complete without a session pushed and has raised no boundary for
    validated, pushed, repaired, unfenced, ready,
    \* spent bounds
    crashes, foreign, retouched, opened

github  == <<main, body, remote, pr, merged, status>>
clone   == <<local, work>>
commits == <<made, anc, onto>>
reviewStore == <<marker, guard, clones, record, latest>>
repairStore == <<session, receipt>>
store   == <<required, reviewStore, repairStore>>
history == <<validated, pushed, repaired, unfenced, ready>>
spent   == <<crashes, foreign, retouched, opened>>
vars    == <<github, clone, commits, store, op, history, spent>>

NoCommit == 0              \* the Task branch holds no commit of its own
Commits  == 1..MaxCommit
Heads    == 0..MaxCommit
Mains    == 1..MaxMain
Bodies   == 1..MaxBody
Reviews  == 1..MaxReview
NoReview == 0
\* A Review completed in another workspace: its record is not in this store and
\* its findings arrive by --findings-file.
Foreign  == MaxReview + 1
Verdicts == {"PASS", "FAIL"}

\* ReviewIdentity: the exact PR head, base and Task contract a Review is about.
Targets  == [head: Heads, base: Mains, body: Bodies]
NoTarget == [head |-> NoCommit, base |-> 0, body |-> 0]
LiveTarget == [head |-> remote, base |-> main, body |-> body]

NoSession == [rid |-> NoReview, start |-> NoCommit, base |-> 0, cand |-> NoCommit]
Sessions  == [rid: Reviews \cup {Foreign}, start: Heads, base: Mains, cand: Heads]

\* The in-flight marker of Review Prepare: rid names the reserved clone; the
\* review id is part of the marker only once it is handed off.
NoMarker == [state |-> "none", rid |-> NoReview]
Markers  == {NoMarker} \cup [state: {"preparing"}, rid: Reviews \cup {NoReview}]
              \cup [state: {"handedOff"}, rid: Reviews]

NoVerdict == [verdict |-> "none", target |-> NoTarget]
Records   == [verdict: Verdicts, target: Targets] \cup {NoVerdict}
NoLatest  == [rid |-> NoReview, verdict |-> "none"]
NoReceipt == [start |-> NoCommit, base |-> 0]

OpNames == {"idle", "deliver", "repair", "prepareRepair", "noChange",
            "prepareReview", "completeReview", "refresh", "closeout"}
Steps == {"none", "recoverClone", "recoverHandoff", "snapshot", "validate",
          "commit", "record", "push", "confirm", "pr", "prVerify", "status", "final", "boundary", "release", "write",
          "guard", "handoff", "latest", "clear", "removeClone", "dropGuard",
          "rebase", "verify", "fence", "compensate", "restoreBoundary",
          "restoreHead", "sync", "metadata", "metadataOnly", "cleanupLocal",
          "cleanupRemote", "delete"}

\* The frozen operation snapshot and the progress of the running operation.
Ops == [name: OpNames, step: Steps, head: Heads, start: Heads,
        base: 0..MaxMain, body: 0..MaxBody, rid: 0..(MaxReview + 1),
        verdict: Verdicts \cup {"none"}, prior: Heads]
Idle == [name |-> "idle", step |-> "none", head |-> NoCommit, start |-> NoCommit,
         base |-> 0, body |-> 0, rid |-> NoReview, verdict |-> "none",
         prior |-> NoCommit]
\* Claim the lock and freeze the facts the operation works with.
Begin(name, step, head, rid, verdict) ==
    [name |-> name, step |-> step, head |-> head, start |-> head, base |-> main,
     body |-> body, rid |-> rid, verdict |-> verdict, prior |-> NoCommit]

At(name, step) == op.name = name /\ op.step = step
Goto(step) == op' = [op EXCEPT !.step = step]

IsAncestor(a, b) == a = NoCommit \/ (b # NoCommit /\ a \in anc[b])
New == made + 1
\* A new commit on parent p; base is the origin/main version it contains.
MakeCommit(p, base) ==
    /\ made < MaxCommit
    /\ made' = New
    /\ anc'  = [anc  EXCEPT ![New] = {New} \cup (IF p = NoCommit THEN {} ELSE anc[p])]
    /\ onto' = [onto EXCEPT ![New] = base]
\* The Task branch was cut from the first version of main.
MainOf(p) == IF p = NoCommit THEN 1 ELSE onto[p]

-----------------------------------------------------------------------------
\* A Task that is ready for delivery.
Init ==
    /\ main = 1 /\ body = 1 /\ remote = NoCommit /\ pr = "none"
    /\ merged = NoTarget /\ status = "Ready"
    /\ local = NoCommit /\ work = "clean"
    /\ made = 0 /\ anc = [c \in Commits |-> {}] /\ onto = [c \in Commits |-> 0]
    /\ required = NoCommit /\ session = NoSession /\ marker = NoMarker
    /\ guard = [r \in Reviews |-> NoTarget] /\ clones = {}
    /\ record = [r \in Reviews |-> NoVerdict] /\ latest = NoLatest
    /\ receipt = [r \in Reviews \cup {Foreign} |-> NoReceipt]
    /\ op = Idle
    /\ validated = {} /\ pushed = {} /\ repaired = {} /\ unfenced = {}
    /\ ready = NoTarget
    /\ crashes = 0 /\ foreign = 0 /\ retouched = 0 /\ opened = 0

-----------------------------------------------------------------------------
(* The environment: everything that is not LCK. *)

\* Another Task is merged: origin/main, and with it every open PR's base, moves.
\* Version 1 is the one the Task branch is cut from.
MainAdvances ==
    /\ status # "Ready" /\ main < MaxMain /\ main' = main + 1
    /\ UNCHANGED <<body, remote, pr, merged, status, clone, commits, store, op,
                   history, spent>>

ContractEdited ==
    /\ body < MaxBody /\ body' = body + 1
    /\ UNCHANGED <<main, remote, pr, merged, status, clone, commits, store, op,
                   history, spent>>

\* Another writer pushes to the Task branch: on top of it, or replacing it.
ForeignPush ==
    /\ remote # NoCommit /\ foreign < MaxForeign
    /\ \E p \in {NoCommit, remote} : MakeCommit(p, MainOf(p))
    /\ remote' = New /\ foreign' = foreign + 1
    /\ UNCHANGED <<main, body, pr, merged, status, clone, store, op, history,
                   crashes, retouched, opened>>

\* The maintainer squash-merges the open PR.  LCK never does.  (The squash also
\* moves origin/main, which nothing reads once the PR is merged.)
HumanMerge ==
    /\ pr = "open" /\ pr' = "merged" /\ merged' = LiveTarget
    /\ UNCHANGED <<main, body, remote, status, clone, commits, store, op,
                   history, spent>>

\* The developer (or a tool) changes files in the worktree, at any moment.
DeveloperEdit ==
    /\ status # "Ready" /\ work # "edited" /\ work' = "edited"
    /\ UNCHANGED <<github, local, commits, store, op, history, spent>>

\* Once Closeout has switched to main, the Task branch is not checked out.
OnTaskBranch == pr # "merged" \/ (local # NoCommit /\ op.name # "closeout")

\* The developer commits by hand instead of leaving that to LCK.
DeveloperCommit ==
    /\ OnTaskBranch /\ work # "clean" /\ retouched < MaxRetouch
    /\ MakeCommit(local, MainOf(local))
    /\ local' = New /\ work' = "clean" /\ retouched' = retouched + 1
    /\ UNCHANGED <<github, store, op, history, crashes, foreign, opened>>

\* The developer resets the clean Task branch to what is on the remote.
DeveloperSync ==
    /\ OnTaskBranch /\ work = "clean" /\ remote # NoCommit /\ local # remote
    /\ retouched < MaxRetouch
    /\ local' = remote /\ retouched' = retouched + 1
    /\ UNCHANGED <<github, work, commits, store, op, history, crashes, foreign, opened>>

\* The process dies.  The lock goes with it, everything durable stays.
Crash ==
    /\ op # Idle /\ crashes < MaxCrash
    /\ op' = Idle /\ crashes' = crashes + 1
    /\ UNCHANGED <<github, clone, commits, store, history, foreign, retouched,
                   opened>>

Environment ==
    \/ MainAdvances \/ ContractEdited \/ ForeignPush \/ HumanMerge
    \/ DeveloperEdit \/ DeveloperCommit \/ DeveloperSync \/ Crash
=============================================================================
