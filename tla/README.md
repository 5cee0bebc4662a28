# TraceQuant in TLA+

TraceQuant is a quantitative-trading research repository with two halves.

Its **product code** (`src/src/tracequant`) is a chain of batch jobs: market
data is downloaded, verified and written to a catalog; features are computed
from it; a model is trained; two strategies are backtested on an event-driven
engine; and a formal rebuild does all of this once more and publishes an
acceptance record.

The **Local Control Kernel**, LCK (`src/tools/lck`), decides what may enter
`main`: a set of commands, run by people and agents, that drive one Task from
an issue to a merged pull request. LCK keeps its state in small files, works
against GitHub and a developer's clone that change under it, pushes to a branch
others can push to, and can die at any step.

Five specifications model them: `LckTask` the life of a Task, `RequiredChecks` the
gate on a pull request's CI checks, `DecisionReplay` one backtest of the Stage 3
strategy and the replay of its decisions, `Evidence` the research jobs around the
files they share, and `DataPipeline` the data of one instrument from its
archives to a published backtest. They share no state in the code and are
checked apart.

## The system

### LCK: parts, state, operations

| part | state it keeps | operations |
|---|---|---|
| Task lock (`operation_lock.py`, `cli.py`) | an flock per Task | acquired by every command but `status`, freed by the process's death |
| Live state, eligibility (`state.py`, `eligibility.py`, `shared_facts.py`) | none: a snapshot per operation | acquire; per-phase reasons to stop |
| Delivery (`delivery.py`, `effects.py`, `github_prs.py`) | Task branch, PR, Project status | Prepare, Complete |
| Independent Review (`review.py`) | marker, guard, clone, record, latest verdict | Prepare, Complete |
| Merge Preflight (`review.py`) | none | announces `READY_FOR_HUMAN_MERGE` |
| Check gate (`validation_gates.py`, `state.py`) | none: frozen rollup and policy of one operation | bind the base's policy, judge the rollup |
| Remediation (`remediation.py`) | session, no-change receipt, fresh-Review boundary | Prepare, Complete, No Change |
| Candidate Refresh (`refresh.py`) | boundary, local and remote branch | rebase, lease push, compensation, rollback |
| Closeout (`closeout.py`) | local main, issue and Project metadata, branches | synchronise, converge, clean up |
| Invocation store (`review_workspace.py`) | the files above | read, write, clear |
| Policies, profiles, audits, receipts | none that is read back | text contracts, output |

The parts do not call each other across operations. They meet in three places:
the files of the invocation store, the Task branch and the PR. An operation
freezes a snapshot, works for minutes (validation), and then acts on GitHub and
on the files, comparing the live facts with its snapshot again before each
effect. A human merges; LCK never does.

What is hard: everything outside LCK moves between two steps of an operation
(another PR is merged, the issue is edited, the branch is pushed to, the
worktree is edited); a push may land and its answer be lost; the process may die
between two files; Remediation and Refresh produce heads that no Review has
seen, and the marker that says so has to survive all of that.

What makes the parts correct:

- *Delivery*: only validated content is committed, pushed or owned by a session;
  the branch moves by fast-forward.
- *Remediation and Refresh*: a head they publish needs a fresh Review, and this
  is to stay recorded whatever step they die at (a repair without a session does not
  keep to it, see `FreshReviewBoundary` below); a session always has a way to end.
- *Review*: a verdict counts only for the exact head, base and contract it is about.
- *Refresh*: the lease and the compensation never lose another writer's work.
- *Closeout*: Done means merged exactly as reviewed and validated; only a proven
  branch is deleted.
- *Check gate*: it passes only what was green under the base's own CI at one moment.
- *All of it*: the maintainer is told to merge only what passed last.

### Product code: parts, state, operations

| part | state it keeps | operations |
|---|---|---|
| Stage 3 strategies (`strategies/stage3_momentum.py`, `stage3_model.py`) | per instrument: the pending decision, the reversal in progress, missed decisions; the engine's orders and position | trade tick, bar close, fill and position events, stop |
| Backtest runner (`nautilus/stage3_momentum.py`) | one run: opening ticks with a capacity, reports | build the engine's data, run, audit the orders, compare features |
| Datasets (`nautilus/stage2_artifact.py`, `stage2_source_artifact.py`, `stage2_btceth.py`) | the catalog, the raw root, release assets | materialize, fetch with a thread pool, rebuild in place, build a release |
| Artifacts (`research/stage3_artifacts.py`) | per fold a partition: claim, pending directory, model, manifest | train, claim, link, write the manifest, release, load |
| Evaluation (`nautilus/stage3_evaluation.py`, `stage3_oos.py`) | run and evidence roots, frozen parameters, run partitions, manifests, the tracked acceptance record | evaluate all folds and scenarios, capture and recheck the revision, publish the record |
| Source data (`source_data/stage2_btceth.py`, `nautilus/stage2_btceth.py`) | the archives, the catalog, the Stage 2 acceptance record | discover, verify, validate series, fill marks, write, read back, cross-check, accept |
| Features (`research/stage3_features.py`, `views.py`) | `IncrementalFeatureState`: bars, settlements, last mark | windowed read, push, prune, coverage proof, labels, purge |
| Stage 1 (`nautilus/stage1_*`), reports, statistics | files written once | a smaller copy of the same steps; output |

The jobs meet only in files. None of them takes a lock that another one asks
for: they look at a directory, work, and look again. Inside a backtest
everything is a callback of one engine, and what is hard is the order in which
callbacks come.

What is hard: a fill and the position it makes are two events that may come in
either order, late or in parts; two jobs find the same directory empty; a job is
killed with half of its files written; the repository is edited while a rebuild
reads it for hours; the catalog is bound by digest and read again twice later;
settlements drift by milliseconds around the bar closes, so that an as-of read,
an age or a window edge can be off by one event.

What makes the parts correct:

- *Strategy*: one order of an instrument at a time; each is a leg toward the last
  decision; a reversal passes through flat and ends; nothing is ordered outside
  the evaluation window or larger than the tick it executes on.
- *Datasets*: a reader of the raw root finds all of the locked archives or none; a
  release lock names the bytes of its archive.
- *Artifacts and evaluation*: one publisher per partition; a manifest comes last;
  the acceptance record names a complete evaluation, the commit that made it and
  the locked data.
- *Source data and features*: what is accepted is whole; a feature row is computed
  from exactly the events its definition names, in the batch and in the engine;
  no label reaches the evaluation; sound data is not refused.

## Modules

| module | models |
|---|---|
| `LckState` | the variables; `Init`; the environment: `MainAdvances`, `ContractEdited`, `ForeignPush`, `HumanMerge`, `DeveloperEdit`, `DeveloperCommit`, `DeveloperSync`, `Crash` |
| `LckDelivery` | Delivery Prepare, and the pipeline that Delivery Complete and Remediation Complete share |
| `LckRemediation` | Remediation Prepare, Complete, No Change |
| `LckReview` | Review Prepare, Review Complete, the PASS gate, Merge Preflight |
| `LckRefresh` | Candidate Refresh |
| `LckCloseout` | Closeout |
| `LckTask` | the composition: `Next`, `Spec`, type invariant, properties, refinement mapping |
| `MergeAuthority` | the abstract specification |
| `MCLckTask` | instance for TLC |
| `RequiredChecks` | the strict check gate of Review Complete and Merge Preflight, and the checks around it |
| `LckSafetyProofs`, `LckBoundaryProofs`, `RequiredChecksProofs` | the proofs about LCK |
| `MomentumStrategy` | the strategy's callbacks, the feed of the backtest, the venue, the audit |
| `DecisionReplay` | the composition of a backtest with the accounting-only replay of its decisions |
| `TargetFollower` | the abstract specification of the strategy's orders |
| `MomentumProofs` | the proofs about the strategy and its replay |
| `EvidenceStore` | the files the research jobs share, and what a job knows |
| `DatasetJobs` | materialize, fetch, catalog rebuild, release |
| `ResearchJobs` | training, backtests, the formal rebuild |
| `Evidence` | the composition: jobs start, step, are killed; edits and commits; properties |
| `PublishedEvidence` | the abstract specification of the published files |
| `EvidenceProofs`, `EvidenceRecordProofs` | the proofs about the research jobs |
| `SourceArchives` | archives, what can be wrong with them, and the checks of rows and series |
| `FeatureState` | accepted and fixed grids, `IncrementalFeatureState`, feature rows |
| `DataPipeline` | the composition: archives, catalog, acceptance, batch, engine, parity; properties |
| `DataPipelineProofs`, `FeatureRowProofs` | the proofs about the data |
| `MCRequiredChecks`, `MCMomentum`, `MCEvidence`, `MCDataPipeline` | instances for TLC |

### State and code: LCK

| variables | code |
|---|---|
| `main`, `body`, `remote`, `pr`, `merged`, `status` | origin/main, the issue body's digest, the Task branch on GitHub, the PR, the target it was merged with, the Project status (`LiveStateResolver._resolve`) |
| `local`, `work` | the local Task branch, and whether the worktree equals it (`clean`), was staged by the running operation (`staged`) or was changed since (`edited`) |
| `made`, `anc`, `onto` | the commits made so far, their ancestors, the main they contain |
| `required` | `fresh-review-required`, the boundary |
| `session`, `receipt` | the prepared Remediation session with its start head, base and recorded candidate; no-change receipts |
| `marker`, `guard`, `clones`, `record`, `latest` | Review Prepare in flight or handed off, the sealed target of an open Review, its clone, the records of verdicts, the pointer to the last |
| `op` | the operation that holds the Task lock: name, next step, frozen snapshot |
| `validated`, `pushed`, `repaired`, `unfenced`, `ready` | history for the properties, read by no operation: what formal validation covered, heads LCK pushed, heads Remediation or Refresh pushed, those of them that a repair without a session pushed and has raised no boundary for, the target announced last |
| `crashes`, `foreign`, `retouched`, `opened` | how much of the bounds is used |

Each file write, each effect on GitHub and each fresh comparison with live facts
is a step of its own; a snapshot is one step, as is a comparison with the command
that follows it directly when nothing can be observed between them (the tree
check and `git commit`). `Stop...` actions stand for every refused check and
failed command: nothing is undone but what the code's failure path undoes. A
validation that fails is such a stop. A push whose answer is lost ends the
operation with the branch moved.

`map` in `PROJECT.json` names for each definition the code it stands for,
including lines whose detail it abstracts: parsing of facts, output, and reasons
to stop that are not told apart.

### Abstractions: LCK

- A commit is a number. `git rebase` makes a commit without Task ancestors.
- The PR's head is the Task branch and its base is the tip of origin/main
  (GitHub's behaviour). There is one PR; after its merge no other is opened. A
  squash merge moves main too, which nothing reads afterwards.
- The boundary's file holds a head, but operations only read that it exists.
- Review id `Foreign` is a Review done in another workspace, whose findings
  come in a file.
- A no-change is always recorded with the same summary text; the replay of a
  finished no-change changes nothing.
- Required checks pass or the operation stops; how they are judged is `RequiredChecks`.
- Validation proves a pair (head, main). `Certify` adds it only if the head is what
  the operation froze and the worktree had not been edited, so `validated` is
  what was really covered, not what the code believes.
- Not modelled: reuse of a pid by another process, a clone that cannot be
  removed, the intermediate value of a status effect that puts the old status
  back, Review Complete called with the id of an older Review whose marker was
  taken over, the research outcome that Closeout writes to the Project.

### State and code: RequiredChecks

`main` is origin/main's version and the PR's base, `head` and `jobs` the pushed
head and the jobs of the CI workflow it carries, `rollup` the PR's
`statusCheckRollup`. `op` is the frozen snapshot of a running operation with the
policy bound to it; `passed` what the last gate passed; `green` is history: the
head and base pairs that were green since the operation began. `Acquire` is
`OperationSnapshotBuilder.acquire` (head, base and rollup come from one query),
`BindRequiredChecks` reads and parses the base commit's workflow, `Evaluate` is
the strict gate. A workflow is a set of jobs; one with a matrix, a dynamic name or
two equal names cannot be read and ends the operation. Conclusions are those the
configuration lists; what each counts as is `Category`. Left out: the
non-blocking observation of the same rollup and malformed facts. A rollup longer
than the bounded list (50 items in the code) can pass only if its required checks
are among those kept: the gate then stops, although every check is green.

### State and code: MomentumStrategy and DecisionReplay

| variables | code |
|---|---|
| `book[i].position`, `.orders` | the engine's position and orders of an instrument, which the strategy asks the cache for |
| `.pending`, `.reversal`, `.missed` | `_pending_decisions`, `_reversals` with the phases `closing`, `flat_confirmed`, `opening`, and `_missed_decisions` |
| `.goal` | history: the target decided last |
| `.inbox` | events the engine has published and not yet delivered: first the fill, then the position |
| `.error` | an exception raised in a callback |
| `clock`, `served` | the instant of the market data, and the instruments whose event of this instant was delivered |
| `capacity` | the size of the synthetic opening ticks, the largest target of the bars closed before |
| `venue` | `prompt`: the engine of the runner, without latency, which settles all orders before more data; `any`: fills late, in parts, or rejects |
| `outcome` | running, stopped, and what the runner's audit says |

A callback is an operator on an instrument's record (`OnTrade`, `OnBar`,
`ObserveReversalConfirmation`, ...), because it runs to its end before anything
else happens. The actions are the events: a trade tick, a bar close, a fill, the
delivery of one event, a rejection, the stop, the audit. Whether the position is
already in the cache when the fill is delivered is chosen by the environment.
`DecisionReplay` adds `replay`: the strategy and the orders of the engine that
replays the decisions. In the code it runs when the backtest is done; here both
consume the data side by side and settle apart, which loses nothing because they
share only the data and the decisions already made. Only a prompt backtest is
replayed: the audit lets no other reach the evaluation.
Left out: the reduce-only flag of a close, equity records, duplicated fill
events, gaps in the data, digests of decision records and the Stage 1 strategy. The model
strategy inherits the state machine and differs in where its signal comes from.

### State and code: Evidence

| variables | code |
|---|---|
| `catalog`, `raw` | the Nautilus catalog (three kinds of file, written in that order) and the raw root; each file is `none`, `torn`, `locked` (the bytes the release lock names) or `other` |
| `parts` | artifact partitions: claim file, pending directory, model, manifest |
| `runs`, `roots` | run partitions with their outputs; run root, evidence root, frozen parameters, evaluation manifest |
| `repo`, `record` | HEAD, working tree and stray files; the tracked acceptance record |
| `released` | the lock and the archive of the release built last |
| `job` | per process: command, next step, tasks left, what it has read and captured |
| `agenda` | what is left of the bound on jobs, kills, edits and commits |

A job is one process running one command; each look, mkdir, exclusive create,
rename and write of a file is a step. A kill, or an exception nothing cleans up
after, leaves on disk what is there. `disturbed` and `edits` in a job are history:
whether a dataset job wrote into the catalog while it was read, and how many
edits fell into a rebuild. The evaluation has two of its four folds and one of
its four sensitivity scenarios: the code treats them in one loop each. Left out:
HTTP and archive formats, the fields of manifests, what the reports say, LightGBM.

### State and code: DataPipeline

| variables | code |
|---|---|
| `raw` | archives of bars, marks, daily marks and settlements, as rows with a time, an end and one of three values |
| `catalog`, `accepted` | the events stored; coverage and digest of the acceptance record |
| `window`, `input` | the window asked for; the events read and not yet consumed |
| `features` | `IncrementalFeatureState` (`bars`, `mark`, `funding`, first and last events) |
| `rows`, `decisions` | ready rows of the batch; tradable rows the engine's strategy computed |
| `stage`, `failed`, `faults` | how far the data got, which operation refused it, how much went wrong outside |

One action per operation: `LoadBars`, `LoadMarksAndFunding`, `WriteCatalog`,
`CrosscheckCatalog`, `Accept`, `Bind`, `BatchRead`, then one step per bar in the
batch and per event in the engine, and `Parity`. The checks are the operators of
`SourceArchives` and `FeatureState`, named after what they ask. An event is its
time, and a feature row is the set of events its values are computed from: two
rows are equal when they are computed from the same events, which is what decides
whether one has seen too little or too much. The grid arithmetic (rounding to a
slot, ceilings, gaps) is the code's. Left out: the values themselves and float
arithmetic, the zero-variance check of the volume, the second instrument
(treated alike), schema fields, SMA parity figures and the commands that prepare
one instrument alone.

## Runs

Deadlock is checked in `CheckGate`, whose gate can always be run again, and in no
other run, because what they model really stops: a Task is Done
or has nothing left within the bounds, a backtest ends, the jobs of an agenda
end, data is published, trained on or refused.

### LCK

These runs use `Spec`, without fairness: the commands are started by people.

| run | bounds (commits, mains, bodies, Reviews, deaths, foreign pushes, developer) | shows |
|---|---|---|
| `BoundaryCrash` | 2,1,1,2,1,0,0 | evidence, promise and boundary (with its one exception) survive a death at any step; two Reviews, so a FAIL, a repair and a second verdict |
| `RefreshWriters` | 3,2,1,1,0,1,1 | Refresh and Delivery against another writer and a developer who edits, commits by hand or resets; without a death, no session behind a standing boundary |
| `RefreshCrash` | 2,2,2,1,1,0,0 | Refresh, Review and repair with a death at any step while main and contract move |
| `LockedSession` | 2,1,1,1,1,0,0 | finding 1 |
| `RoleOverlap` | 2,1,1,1,0,0,0 | finding 2 |
| `NoChangeTwice` | 2,2,1,1,0,0,0 | finding 3 |
| `BranchDeleted` | 2,1,1,1,0,1,0 | finding 4 |

Why these bounds: a hazard of this code involves one reviewed head, one head
that replaces it (two commits; a third for a foreign one), one move of main or
of the contract (two versions), and one death or one foreign push in the middle.
Two Reviews are needed where an old verdict could be taken for a new one.
`PortableFindings` lets Remediation start from findings of another workspace; it is
off in `RefreshWriters` and `RefreshCrash`, whose subjects are the branch and the
target, to keep these runs small. Every operation can be repeated any number of times within them. The theorems below
lift the properties of LCK that hold to every bound.

`CheckGate` runs `RequiredChecks`, also without fairness. Main's CI goes from two jobs (one with a
name of its own) to one and then to a matrix, so that a later policy is weaker
than the base's and a third one unreadable; one push may bring another workflow.
Three items in a list that keeps two let one be cut off and two share a name; one
rerun turns a success back. A check succeeds or is skipped: for the gate every
other conclusion is one of the two, or still pending.

### Product code

| run | shows |
|---|---|
| `MomentumBacktest` | a whole backtest with four decisions, both venues, and its replay: orders, reversals, refinement, liveness |
| `EvidenceJobs` | eleven mixes of up to three jobs, step by step, with kills, edits and commits |
| `DataPipeline` | archives to published backtest or trained model, with up to two faults |
| `EarlySettlement` | finding 5 |

*`MomentumBacktest`.* One instrument: the strategy keeps its state per instrument and
no handler reads another's. Time is in half hours; bars close at 1, 3, 5 and 7,
the evaluation and the data end at 8. Four decisions are what a reversal takes
whose target is replaced while it closes, and one more at the window's end. Prices
2 and 4 for a notional of 4 give targets of one or two units, so that a target
grows, shrinks or turns between two bars, one unit at the low price is under the
minimum notional, and a fill in parts is possible. Signals are up, down, flat or
missing. It runs `FairSpec` of `DecisionReplay`, with `WF_both(ReplayNext)`: `engine.run`
consumes all the data it was given and then stops the strategy, so neither run
halts before its end. Nothing is assumed of which event comes next: the
slow venue may leave an order unsettled to the end.

*`EvidenceJobs`.* An agenda says how often each command is started, and how many kills, edits
and commits there are. The eleven agendas pair every job with the jobs it can
meet in a file: two formal rebuilds; a rebuild with a trainer on the same
evidence root; with a catalog rebuild and a materialize; with four edits and a
commit; two trainers; a trainer with a backtest of its artifact; two backtests; a
release with the jobs that write what it reads; two catalog rebuilds; the three
jobs that fill the raw root. A kill is given where a leftover matters. Two roots
and two sources are interchangeable (symmetry; no liveness is checked here), two
download attempts and two threads let one fail while another is at work.

*`DataPipeline`.* The clock is scaled and keeps the code's order of magnitudes: a bar 8, a mark
4, a settlement every 16, schedule tolerance 2, largest mark age 4, largest
funding age 16, funding window 32, lookback 4 bars, horizon 2 bars. The dataset is
two months of 48 ticks: one approved omission (the mark that opens at 36), one mark
that only the daily archives have (40), daily archives of the day before the
dataset and of one inside it, splits at 48, cross-check window 64 to 96. The
windows are three of a backtest (one starts where its lookback begins before the
data it may read, and is refused), and two of training, one of them up to the
end of the dataset, where labels run out. Settlements drift by 1 or 2 ticks. Two
faults, anywhere, are enough for one to hide another (a row lost in the archive
and an event repeated in the catalog), for a drift on both sides of a window
edge, and for a change of the catalog after each of the two reads.

### Properties of LCK

- `EvidenceBeforeEffect`: LCK pushes, owns as a candidate or fences no head that
  formal validation did not cover.
- `FreshReviewBoundary`: a head that Remediation or Refresh pushed and no
  Review has judged is behind the boundary, or owned by a session that will raise it.
  One head is excepted: `unfenced` holds the one a Remediation Complete without a session
  pushed (the compatible path, `remediation.py:691-699`), from its push until it raises
  its boundary. No candidate is recorded for it (737-739), so if the operation stops in
  between, nothing protects the head; a retry that reaches its end raises the boundary, and
  the head counts from there on. This is the code's doing, not the model's: with `unfenced` left
  out of the property, TLC finds it violated within the bounds of each of the three runs
  that check it, in `RefreshWriters` without a death (the answer of the push is lost). See the
  end of the list of disagreements below.
- `NoForeignWorkLost`: a push of LCK fast-forwards, or is Refresh exchanging its own two heads.
- `DoneIsReviewed`: Done implies merged with a head and base that passed and were validated.
- `ImplementsMergeAuthority`: the refinement below.
- `NoLockedSession`: no session behind a standing boundary; holds without deaths, fails with one.
- `TypeOK`.
- `PassedWhileGreen` (of `RequiredChecks`): what the gate passes was green, by the policy of
  its own base, at a moment since the operation began; later reruns and pushes, main's newer CI, the
  candidate's own workflow and the cut of long lists change nothing about that.

`MergeAuthority` is what a maintainer relies on, in four actions: `Validate`,
`Accept` a verdict about validated evidence, `Announce` or `Close` only with the
target accepted last and passed. The mapping reads `accepted` from the latest
pointer *and* the record it names, so the order in which the two files are
written matters: the record must come first.

### Properties of the product code

Of `MomentumStrategy` and `DecisionReplay`:

- `OneOrderAtATime`, `ExecutedOnce`, `PendingXorReversal`: with a slow venue decisions pile up behind an
  order; none is traded twice, none waits beside a reversal.
- `OrdersInWindow`: also when the close fills late, the opening leg is sent after its
  decision and before the window ends.
- `OrderFitsTick`, `PromptRunAccepted`: with the runner's engine no order exceeds its tick and the
  audit never fails: a run that is not accepted is one whose strategy raised.
- `TracksTarget`: with that engine the position is at the last target when the next bar closes,
  unless the leg is below the order floor at some price.
- `NeverThroughZero`: no step crosses from one side to the other.
- `FollowsTarget`: the strategy implements `TargetFollower`: one working order, always the next
  leg toward the last target.
- `ReplayTradesAlike`: the replay ends each event with the orders, position and
  errors of the backtest although its engine may report in another order, so an
  accounting scenario differs in fees and funding alone.
- `ReversalEnds`: a reversal is finished whatever order its events come in; a venue
  that leaves it half done makes the run fail.

Of `Evidence`:

- `OnePublisher`: one trainer per partition is past its confirmation, whoever was killed with a claim.
- `OwnsItsRun`: a run partition stays with the job that made it.
- `ManifestLast`, `RecordIsBacked`: a manifest means that what it lists is there, and the evaluation
  the record names stays on disk as it was used.
- `RecordMatchesCommit`: the record's commit, contract and code are one. The tree is
  checked apart from the reads that use it, so the property holds for fewer than
  four edits during a rebuild; with four (edit and put back, twice) it can be wrong.
- `RecordReadsLocked`, `ReleaseNamesItsFiles`: the data behind a record, and the bytes
  behind a release lock, are the locked ones unless a catalog rebuild wrote
  in between. That exception is real: nothing keeps a rebuild away from a reader.
- `KeepsItsPromise`: the jobs implement `PublishedEvidence`: the raw root goes from nothing to whole
  in one step and stays so, a completed evaluation does not change, the record names
  completed ones only.

Of `DataPipeline`:

- `AcceptedIsWhole`: what acceptance lets through has every row of the archives, no gap but
  the approved one, a mark for each settlement, and agrees with the exchange's answer.
- `NoSilentGap`, `PublishedRowsAreReference`: a feature row is what its definition says of the
  accepted events, in the batch and in the engine, also when the catalog changes
  in between. Both allow one exception the code has: of the last tolerance before
  a decision a settlement need not be there, since it may legally come later, so
  one that came early and was lost from the catalog is not missed.
- `EngineAgrees`: the engine and the comparison only refuse a catalog that changed.
- `SettledDataIsUsable`: data accepted with settlements on time or late is not refused later.
- `NoLabelCrossesBoundary`: training keeps exactly the rows whose label ends before the evaluation.
- `RetainedBounded`: pruning keeps the state finite. Only a bar prunes, and the settlements after the
  newest bar wait for the next one: the bound counts those up to the newest bar. A bound on the
  whole list held in the windows of the run and fails in a longer one in which two bars are lost
  between two prunings; the stated one was also checked with windows of 80 and 96 ticks (1.1 million states).

Seen while modelling, and allowed by the code's own comments: funding is not
read back when it is written, a lost settlement is found only by the row count of
the splits; the producer accepts one settlement too many, or a mark that fills
the approved gap, and the consumer refuses both.

### What the documentation says and the code does not do

1. `NoLockedSession` (`remediation.py:775`): Remediation Complete writes the
   boundary and then clears the session. A death in between leaves both;
   Remediation stops on the boundary, Review Prepare and Refresh on the session,
   and the documentation forbids deleting either by hand.
2. `RolesDoNotOverlap` (`remediation.py:204`): Review Prepare refuses to start
   under a session, but Remediation Prepare does not look whether a Review is open.
3. `NoChangeTerminal` (`review_workspace.py:885`): a no-change receipt cannot be
   replaced by a different one, and it holds the base; after main moved, a
   second session on the same Review has no no-change left.
4. `DeletesOnlyProvenHead` (`closeout.py:380`): the remote branch is deleted
   without a lease on the tip that was verified.
5. `ConsumerAcceptsProducer` (`stage3_features.py:680`): the producer accepts a settlement two
   milliseconds early; the age check, which has no tolerance, then refuses the bar
   that closes before the next settlement. The comment on the tolerance says the
   consumer must not be stricter than the producer.

One more disagreement has no run of its own, since `FreshReviewBoundary` states it as its exception.
`review-and-remediation.md:340-342` says that after any repair commit made a new head only
a newly accepted Review verdict lifts the boundary, so that an old FAIL cannot drive a
second Remediation. Without a session, Remediation Complete works from the latest FAIL and records no
candidate (`remediation.py:691-699, 737-739`); it raises the boundary only at its end (775). Stopped
after its push, by a lost answer, a refused check or a death, it leaves a repaired head with neither
boundary nor session, and run again with the same review id it pushes a second repair
on top of it (TLC shows that too, with three commits and one Review). With a session the recorder
refuses the second candidate.

## Proofs

Checked by TLAPS, for every value of the constants, from the assumptions the modules
declare and TLC evaluates in the runs:

- `BoundsAssumption`: bounds are natural numbers, those of commits, mains, contracts and
  Reviews positive; `PortableFindings` is a Boolean.
- `ChecksAssumption`: the same of the check gate's bounds, the form of a workflow's jobs,
  and that a conclusion is not `QUEUED`.
- `MomentumAssumption`: prices and the least quantity are positive, notionals, threshold and
  instants natural numbers, `None` no integer; `WindowAssumption`: the window ends on an
  open, as every bound of a fold is a whole hour; `NoneAssumption` of `MomentumStrategy`:
  `None` is neither a decision nor a reversal.
- Of the research jobs: `NJobsAssumption`, the number of processes is a natural number;
  `NoneAssumption` of `Evidence`, `None` is no process, kind of job, manifest or record;
  `SourcesAssumption`, there is a source, and the instrument snapshot is no archive.
- Of the data: `ClockAssumption`, intervals are positive and divide each other as the exchange's do, the
  dataset is whole months, months are whole bars, the omissions are finitely many and each is one mark; `DatasetAssumption`, the splits are in order
  and do not overlap (`stage2_split_bounds`), the second fetch reaches the end of the
  dataset (`STAGE2_CROSSCHECK_END_ISO` is `STAGE2_WINDOW_END_ISO`), a window asked for is a
  mode and three instants, and it starts and ends on a bar: the bounds are those of
  `EXPANDING_FOLD_SPECS`, which are midnights, or a lookback of whole hours before one; `FeatureAssumption`, lookback, horizon and ages are natural numbers, what the
  funding window has beyond whole intervals leaves room for a settlement early and one
  late (in the code 24 hours are three intervals of 8 hours, and the tolerance is 60 seconds), the
  tolerance is less than a bar and than half an interval, and nothing a bar looks back on, the funding window
  with a tolerance at both ends, a mark's or a settlement's age, reaches behind the lookback and one bar more (24 hours and two
  minutes, 15 minutes, 8 hours, all less than 169 hours).

### LCK

- `TypeCorrect` (`LckSafetyProofs`): `Spec => []TypeOK`. `TypeOK` is not inductive:
  Review Complete writes `guard[op.rid]` into a record, which is a target only if
  the guard of a Review under way is there. `Typed` adds `Knows(op, guard)`: what
  a running operation knows of its snapshot, by name and step.
- `EvidenceFirst`: from `EvidenceInv`, which adds `Backed`: from the commit (or
  the pre-push check) on, the head an operation carries is validated, and so is
  the boundary that a rollback of Refresh would put back.
- `ReviewChain`, `DoneOnlyAsReviewed`: from `ReviewInv`, the chain guard - record -
  latest - Closeout - Done, each link made by an operation that holds the one
  before. `MergeChain` also says why a Done Task keeps its verdict: a merged PR
  is in the way of every operation that could write a new one, once none is under way.
- `ForeignWorkKept`: `Spec => NoForeignWorkLost`, an action property from the guards of
  the three pushes and `Typed`.
- `PromiseKept` (`LckSafetyProofs`): `Spec => ImplementsMergeAuthority`, from
  `ReviewInv`: `WriteRecord` and `WriteLatest` are `Accept` or stutter,
  `MergePreflight` is `Announce`, `ConvergeMetadata` is `Close`.
- `BoundaryHolds` (`LckBoundaryProofs`): `Spec => []FreshReviewBoundary`, with the exception the
  property states. That a head on the branch is
  fenced or owned is not inductive: a push could bring back a repaired head whose
  boundary was taken down for another one, and a session could start at such a head.
  `HeadsInv` excludes both. Once a head is repaired the branch never goes behind it
  (`NoReturn`): it stays there, or moves to a commit that is no ancestor of it, and from
  there a fast-forward cannot reach it. And no session starts at an unreviewed
  repaired head. `Owes(op)` says what a running operation has frozen for this: a repair
  under a session works from the session's start head (so the head it takes out of
  `unfenced`, when it raises the boundary, is not the one a session starts at), at its push
  it is the session's candidate, one that releases the session has raised the boundary, a Review about to clear the boundary has judged the head that is on the branch
  unless another writer has replaced it, a Refresh that will restore the old boundary does
  so only with the branch back at the old head. Three invariants carry it: `GraphInv`
  (commits are numbered in the order they are made and descend transitively; the heads
  in use exist), `PrInv` (before there is a PR nothing was repaired; which operation relies
  on which state of the PR), `RecordsKeepTarget` (a verdict, once recorded, stays about its
  target, so that a judged head stays judged: `JudgedStays`).
- `LockedOnlyByACrash`: `Spec => [](crashes = 0 => NoLockedSession)`. Finding 1 needs a death of the
  process: without one, boundary and session stand together only between
  `RaiseBoundary` and `ReleaseSession` of one repair (`NotLocked`).
- `DeletesOnlyProvenHeadAlone`: finding 4 needs another writer of the branch. Until one has pushed,
  the tip that Closeout verified is the one it deletes (`DeleteInv`), and no other
  step takes a branch away (`OnlyCloseoutDeletes`).

- `GateIsSound` (`RequiredChecksProofs`): `Spec => []PassedWhileGreen`, from `GateInv`: a frozen
  rollup that is green by its base's policy is in the history, and the policy bound
  is that base's. `GatePassesGreen` reduces the gate's counts and its bounded list
  to this: a list that is cut can hide a check, but not supply one.

### The strategy and its replay

- `MomentumProofs`: `MomentumTypeCorrect`, `OneOrderAtWork`, `PendingOrReversal`,
  `NoDecisionTwice`, `OrdersInsideWindow`, `OrdersFitTheirTick` and the action property
  `FlatInBetween` rest on one inductive invariant, `SoundInv`: `TypeOK` and, per
  instrument, `Sound`. It says what each pending decision, reversal, order and event still
  to be delivered knows of the others: what the position will be once the inbox is empty
  (`Booked`) and that it stays on the side of the order at work, that a reversal of phase
  `close` has a closing order that takes the position to zero, that a decision is younger than
  every order, and that after the last open of the window a reversal's target has no open left.
  `Sound` has the instant and whether the instrument's event of that instant was
  delivered as parameters: each callback is then one lemma about the state of one instrument
  (`TradeIsSound`, `DecisionIsSound`, `FillIsSound`, `DeliverIsSound`, ...), and
  a step of the system changes one instrument and leaves the others as they were.
- `TargetFollowed` (`MomentumProofs`): `Spec => FollowsTarget`, the refinement of
  `TargetFollower`, from `SoundInv`: `Decided` is a new goal, an order is sent or refused
  towards the goal, a fill books what was sent; the other callbacks stutter.
- `AuditOfPromptRun` and `TargetReached`: from `PromptInv`. On the engine the runner uses,
  events are settled before the market speaks again, so an order is of this instant
  or filled in full at its expected open, and between instants an instrument is `Quiet`.
- `ReplayIsTheBacktest`: `FairSpec => []ReplayTradesAlike`. The replay may be told of fills
  and positions in another order than the backtest was, so the two states differ
  in between; `ReplayInv` says that both come to the same state if everything still
  outstanding is settled (`Completed`), and that `Completed` does not depend on the order.
  `ReplayOnlyWatches` (`FairSpec => Spec`) carries the theorems of the backtest to the composition.

### The research jobs

- `EvidencePublished` (`EvidenceProofs`): `PublishInv` is inductive. `EvidenceTyped`, `ClaimExcludesOthers`,
  `RunsBelongToOneJob`, `ManifestsAreLast` and `RecordStaysBacked` follow from it. It says where a job can be and with what
  it is there (`Fits`), that a claim and a run partition have at most one holder
  (`HoldsClaim`, `HoldsRun`, `RunsApart`), what a rebuild has left behind it at each step
  (`Progress`) and what it has found on disk is still there (`Verified`). A step of one job
  leaves the others alone because files only become more complete (`Grows`):
  what one job has verified no other job, kill or edit takes away.
- `RecordsReadLockedData`, `ReleasesNameTheirFiles` (`EvidenceRecordProofs`): from `ReadInv`: what a release
  has hashed is what its archive will hold (`Hashed`), a rebuild of the evidence read the
  locked catalog since it bound it (`ReadsLocked`), both unless a dataset job wrote the catalog in
  between, and the raw root has all of its archives or none (`SourcesWhole`, `SourcesNone`).
- `RecordsMatchTheirCommit`: from `RevisionInv`, which counts the edits a rebuild must have seen
  (`AtRevision`): a tree that was clean at one look, differs in a read and is clean again at the
  next takes one edit and one to put it back, and contract and code are read apart.
- `PromiseIsKept`: `Spec => KeepsItsPromise`, the refinement of `PublishedEvidence`. The sources of the
  raw root go from nothing to whole in one rename (`ReplaceTarget`), of the materialization or of the
  fetch, and the rebuild writes there only the snapshot it takes away again; a step touches the files of one pair of
  roots, so it completes at most one evaluation; a record is published of a complete one.

### The data

- `TypeOKHolds` (`DataPipelineProofs`): `TypeOK` says that the instants of feature rows and decisions are accepted
  bars, and is not inductive. `Typed` adds where a row can come from: what is still to be read holds
  events of the catalog or of the record, and the bars among them are accepted ones (`Drawn`); what each stage
  says of `failed`, `faults` and the window (`Controlled`); the shape of the archives (`RawTyped`).
- `AcceptedIsWholeHolds`: from `Sound`, which keeps, from the stage on that checked it, what each loader
  found (`BarsGood`, `MarksGood`, `BarsAnswer`). The catalog is `SourceEvents` except that one settlement can be
  lost or written twice (`CatalogWritten`: bars and marks are read back, funding is not). `HomologyFindsTheChange`
  closes that hole: the splits do not overlap, so rows that are strictly increasing in each and as many
  as the coverage says are all of them, each once. Then each conjunct is a lemma about a series that
  passes the loaders' checks: one that starts at 0, ends one interval before the end and has no
  gap is the whole grid (`BarsWhole`), one with approved gaps misses only the omitted marks
  (`MarksWhole`), and `FundingSteps`, `FundingMarked` and `BarsAnswered` for the rest.
- `RetainedBoundedHolds`: from `RetainInv`. How many settlements the state keeps is no invariant by
  itself, since what pruning leaves depends on when the settlements came. The settlements have strictly
  increasing slots of the fixed grid (`InSlots`), those up to the newest bar are in its window except perhaps
  the oldest one (`InWindow`), and what is still to be read is later than the newest bar (`Coming`),
  which needs that the engine's read is put in the order of time (`InTimeOrderIs`). Slots in a window
  with a tolerance at both ends are then counted (`RetainsFew`).
- `NoLabelCrossesBoundaryHolds`: from `LabelInv`, which adds to `RetainInv` that the accepted bars are the whole
  grid and the record says so (`AcceptedBars`), that the bars of the batch are all of the window's and
  in order, and what the batch has decided on so far (`Decided`). `GridOfBars` shows that rows, first and
  last event of the coverage give the grid back, cadence and all; so a read with the first and the last
  eligible slot and one interval from each bar to the next is every bar of the window
  (`BarsOfWindow`), although the catalog may have changed since. `DecidedFirst` and `DecidedNext` are the steps of
  the batch: the state has its full history exactly from the bar that is `Lookback` bars after the first;
  `LabelledInside` says that a label exists exactly if it is inside the dataset.
- `NoSilentGapHolds` (`FeatureRowProofs`): `Spec => [](InTolerance => NoSilentGap)`, from `RowInv`, which adds to `RetainInv` that every row
  of the batch and the engine is the one its definition asks for (`Exact`), and what the state it was read from knows (`Traced`):
  it holds only accepted events, and of the settlements the whole stretch between the
  first that counts and the newest, since `WindowCovered` lets no slot of the grid pass empty. Counting slots of the
  consumer's grid says nothing of the exchange's settlements unless the two grids are the same
  one, which is what `InTolerance` is for. Without it the claim is not true of every dataset: the producer accepts one settlement
  too many (a step is bounded from above only), and in a dataset so long that the rounded cadence
  does not show it, one that shares its slot with another is not missed when the catalog loses it. The
  dataset of the run is too short for that, so `NoSilentGap` holds there without a condition. Of the
  marks `InTolerance` says that none fills an approved gap.
- `PublishedRowsAreReferenceHolds`: `Spec => [](InTolerance => PublishedRowsAreReference)`, from `PublishedInv`. Rows
  being exact, what is left is that there is one for each bar: the batch has, once each and in order, every bar with a
  full history (`BatchKept`); the engine's decisions are in the order of its bars and none is ahead of
  them (`DecidedOn`); the comparison then says that as many as the batch has from the
  decision start on were made (`ParityIsComplete`). Two ascending lists of the same instants are the same list (`AscendingUnique`).
- `EngineAgreesHolds`: `Spec => []EngineAgrees`, without a condition: whatever settlements were accepted, the engine does
  not refuse what the batch let through. From `EngineInv`. `Consumed(s, M, F)` says what a
  state is that has read the marks `M` and the settlements `F`, without its history: it knows the oldest and the newest
  of each and has kept the settlements since the last pruning, and neighbours were neighbours on their grid
  (`Linked`). `RowIs` gives the row of a bar from `M` and `F` alone, and whether there is one (`Enough`). Events only leave the
  catalog, so if it is now what was accepted it was so when the batch read it (`Whole`); then the
  batch's rows are what the accepted events since the start of its *context* say. The engine
  starts a funding interval later, at the window's start. `ShorterContext` shows that this makes no difference to a row
  that has a full lookback behind it: nothing it looks at is that old (`FeatureAssumption`). So both agree with the events of the window
  (`Agreed`), and the engine's invariant `InHand` carries this over the steps of its
  loop, where an event of each kind may be the next: what is to come and what was taken are
  the window's events, the newest bar is not ahead of the rest, and the decisions so far are those on the bars so far.
  `MarkWhole`, `FundingWhole` and `BarWhole` are the three steps of the loop, `ParityWhole` the comparison.
- What the operators on sequences return (`Kept`, `Insert`, `Completed`, `PushAll`, `InTimeOrder`, `FlattenSeq`) is proved in
  lemmas of `DataPipelineProofs`, each by the least place at which its recursion would
  be wrong (`Induction`).

`Typed`, `EvidenceInv`, `ReviewInv`, `SoundInv`, the parts of `PromptInv`, `PublishInv`, `ReadInv`, `RevisionInv`,
`RetainInv`, `LabelInv`, `BatchWhole`, `EngineWhole` and the invariant of `BoundaryHolds` were checked with TLC, on the configurations of the runs, before
they were proved.

### Not proved

Only model-checked: `SettledDataIsUsable` of `DataPipeline`, and the five counterexamples. `SettledDataIsUsable` is not
true of every value of the constants: with a very long dataset the cadence that is read off the coverage
(`Cadence`) rounds an extra settlement away, so that `OnSchedule` holds of data the consumer then
refuses; and it needs that the batch reads all that was bound, step by step, where the theorems above need only
that what it read is in order. Out of the prover's reach and left
to TLC: liveness under fairness (`ReversalEnds`) and `ENABLED`. The project has no recursive operators.

## Not modelled

- *Issue profiles and policies*, *structured review models and audits*: parsing and field
  checks of texts, without state between steps; they only add reasons to stop.
- *Receipts, progress, agent view*, reports, statistics, accounting figures: output that no
  operation reads back as authority.
- *The plan of formal validation* and its WSL2 runner (`validation_runner.py`): which commands
  run is data; that validation passes or stops is modelled.
- *Stage 1 data and backtest*: a smaller copy of the Stage 2 steps.
- *The status effect of LCK under another writer of the Project field*, *commits of the developer lost by a
  rollback of Refresh*, *an owned candidate that main overtakes*, and *a catalog rewritten in place
  between two reads of another job* (which `RecordReadsLocked` and `ReleaseNamesItsFiles` except by name): hazards
  without a property, each with its reason in `PROJECT.json`.

## Plan

1. *Done*: the life of one Task under LCK, its abstract specification, the proofs above.
2. *Done*: `RequiredChecks`; `MomentumStrategy`, `DecisionReplay` and `TargetFollower`; `Evidence` and `PublishedEvidence`; `DataPipeline`.
3. Proofs: *done* for `LckTask`, `RequiredChecks`, `MomentumStrategy`, `DecisionReplay`, `Evidence`, and of
   `DataPipeline` acceptance, retained state, training rows, the values of the rows and the agreement of batch and
   engine; left: that settled data is usable, with a bound on the dataset's length against the cadence.
4. The rollback of Refresh split into its three git commands, with the developer's local commits.
5. Liveness of LCK: a session can always be ended under a developer who resets; a Task
   whose PR is merged is eventually Done if Closeout is retried.
