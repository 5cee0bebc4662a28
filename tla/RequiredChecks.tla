--------------------------- MODULE RequiredChecks ---------------------------
(***************************************************************************)
(* The strict check gate of Review Complete (for a PASS) and of Merge      *)
(* Preflight.  The operation freezes the PR's head, base and check rollup  *)
(* in one query, then reads from the base commit's own CI workflow which   *)
(* checks it requires, then judges the frozen rollup.  Meanwhile checks    *)
(* report and are rerun, the head is pushed to, and main moves.            *)
(***************************************************************************)
EXTENDS Naturals, Sequences

CONSTANTS Names,       \* the names checks report under
          Ids,         \* the ids of CI jobs, a nameless job's check name
          Workflow,    \* the jobs of canonical CI at each version of main
          Conclusions, \* the conclusions a check may come to
          MaxMain,     \* bound: versions of main
          MaxPushes,   \* bound: pushes of a new head
          MaxItems,    \* bound: items of a rollup
          MaxReruns,   \* bound: reruns of a finished check
          ListLimit,   \* how many items a bounded list keeps
          None

ASSUME ChecksAssumption ==
  /\ MaxMain \in Nat \ {0}
  /\ Workflow \in [1..MaxMain -> SUBSET [id : Ids, name : Names \cup {None},
                                        form : {"static", "matrix", "dynamic"}]]
  /\ MaxPushes \in Nat /\ MaxItems \in Nat /\ MaxReruns \in Nat
  /\ ListLimit \in Nat /\ "QUEUED" \notin Conclusions

VARIABLES main,     \* the version of origin/main, the PR's base
          head,     \* how often the PR's head has been replaced
          jobs,     \* the jobs of the CI workflow the head carries
          rollup,   \* statusCheckRollup of the head: [name, state]
          op,       \* the running operation's frozen facts, or None
          passed,   \* the target the last operation's gate passed, or None
          green,    \* history: the targets seen green since the operation began
          reruns

vars == <<main, head, jobs, rollup, op, passed, green, reruns>>

(* _parse_required_checks_workflow: the check names of a workflow's jobs, or *)
(* none when it cannot be told what they are, and the operation stops.      *)
CheckName(job) == IF job.name = None THEN job.id ELSE job.name
ParsedChecks(jobset) ==
  IF /\ \A j \in jobset : j.form = "static"
     /\ \A i, j \in jobset : CheckName(i) = CheckName(j) => i = j
  THEN {CheckName(j) : j \in jobset} ELSE {}
RequiredChecksAt(version) == ParsedChecks(Workflow[version])

(* _normalize_checks: what a state counts as. *)
Category(state) ==
  CASE state \in {"SUCCESS", "NEUTRAL"}   -> "success"
    [] state = "QUEUED"                   -> "pending"
    [] state \in {"FAILURE", "CANCELLED"} -> "failed"
    [] OTHER                              -> "skipped-or-unknown"

Bounded(items) ==
  SubSeq(items, 1, IF Len(items) < ListLimit THEN Len(items) ELSE ListLimit)

Counts(items) == {Category(items[k].state) : k \in DOMAIN items}

(* The category of each name, the last item of a name standing for it; only *)
(* the items the bounded list keeps are looked at.                          *)
ObservedCategories(items) ==
  LET kept == Bounded(items)
      named(n) == {k \in DOMAIN kept : kept[k].name = n}
      last(n) == CHOOSE k \in named(n) : \A j \in named(n) : j <= k
  IN [n \in {kept[k].name : k \in DOMAIN kept} |-> Category(kept[last(n)].state)]

(* _evaluate_pr_checks with require_success. *)
EvaluatePrChecks(items, required) ==
  LET observed == ObservedCategories(items) IN
  /\ Counts(items) \subseteq {"success"}
  /\ required \subseteq DOMAIN observed
  /\ \A n \in required : observed[n] = "success"

-----------------------------------------------------------------------------
Init ==
  /\ main = 1 /\ head = 0 /\ reruns = 0
  /\ jobs \in SUBSET Names /\ rollup = <<>>
  /\ op = None /\ passed = None /\ green = {}

(* GitHub, the candidate's author and main's writers. *)
CheckStarts ==
  /\ Len(rollup) < MaxItems
  /\ \E n \in jobs : rollup' = Append(rollup, [name |-> n, state |-> "QUEUED"])
  /\ UNCHANGED <<main, head, jobs, reruns>>

CheckFinishes ==
  /\ \E k \in DOMAIN rollup, s \in Conclusions :
       /\ rollup[k].state = "QUEUED"
       /\ rollup' = [rollup EXCEPT ![k].state = s]
  /\ UNCHANGED <<main, head, jobs, reruns>>

CheckReruns ==
  /\ reruns < MaxReruns /\ reruns' = reruns + 1
  /\ \E k \in DOMAIN rollup :
       /\ rollup[k].state \in Conclusions
       /\ rollup' = [rollup EXCEPT ![k].state = "QUEUED"]
  /\ UNCHANGED <<main, head, jobs>>

(* A new head starts without checks, and may carry a CI workflow of its own. *)
Push ==
  /\ head < MaxPushes /\ head' = head + 1
  /\ jobs' \in SUBSET Names /\ rollup' = <<>>
  /\ UNCHANGED <<main, reruns>>

MainAdvances ==
  /\ main < MaxMain /\ main' = main + 1
  /\ UNCHANGED <<head, jobs, rollup, reruns>>

(* What holds of the live PR now: all that reported succeeded, and so did   *)
(* every check its base requires.                                           *)
LiveGreen ==
  /\ \A k \in DOMAIN rollup : rollup[k].state \in {"SUCCESS", "NEUTRAL"}
  /\ RequiredChecksAt(main) # {}
  /\ RequiredChecksAt(main) \subseteq {rollup[k].name : k \in DOMAIN rollup}
NowGreen == IF LiveGreen THEN {[head |-> head, base |-> main]} ELSE {}

Outside == /\ CheckStarts \/ CheckFinishes \/ CheckReruns \/ Push \/ MainAdvances
           /\ green' = IF op = None THEN green ELSE green \cup NowGreen'
           /\ UNCHANGED <<op, passed>>

-----------------------------------------------------------------------------
(* The operation's snapshot. *)
Acquire ==
  /\ op = None
  /\ op' = [head |-> head, base |-> main, items |-> rollup, required |-> None]
  /\ passed' = None /\ green' = NowGreen
  /\ UNCHANGED <<main, head, jobs, rollup, reruns>>

PolicyOfHead(o) == jobs                      \* mutant: the candidate's workflow
PolicySource(o) == RequiredChecksAt(o.base)

(* The base commit's workflow; the operation stops when it has none. *)
BindRequiredChecks ==
  /\ op # None /\ op.required = None
  /\ op' = IF PolicySource(op) = {} THEN None
            ELSE [op EXCEPT !.required = PolicySource(op)]
  /\ UNCHANGED <<main, head, jobs, rollup, passed, green, reruns>>

Evaluate ==
  /\ op # None /\ op.required # None
  /\ passed' = IF EvaluatePrChecks(op.items, op.required)
               THEN [head |-> op.head, base |-> op.base] ELSE None
  /\ op' = None
  /\ UNCHANGED <<main, head, jobs, rollup, green, reruns>>

Next == Outside \/ Acquire \/ BindRequiredChecks \/ Evaluate

Spec == Init /\ [][Next]_vars

-----------------------------------------------------------------------------
(* Whatever reports, reruns or moves meanwhile, the gate passes a head and  *)
(* base only if, at one moment since the operation began, every check that  *)
(* had reported on them had succeeded and all those that the base's own CI  *)
(* requires were among them: a candidate cannot weaken the checks that      *)
(* authorise its own transition, and no failure is lost in a bounded list.  *)
PassedWhileGreen == passed # None => passed \in green
=============================================================================
