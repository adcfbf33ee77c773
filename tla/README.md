# Verification of gity

Gity is a self-hosted Git platform in Rust: repositories over HTTP and SSH,
issues and merge requests, CI, packages, search.  This directory holds TLA+
models of the parts of it whose correctness depends on the order of events, the
TLC configurations that check them and machine-checked proofs about them.

Everything runs in this directory: `tlc -config X.cfg M` for a run of
`PROJECT.json`, `tlapm X.tla` for the proofs in `GitClusterProofs`,
`GitContentProofs`, `GitReplicaProofs`, `MergeJournalProofs`, `MergeContentProofs`,
`MergeDecisionProofs`, `CiPipelineProofs` and `SearchJobsProofs`.  `PROJECT.json`
names, for every definition that models code, the lines it stands for.

Four parts are modelled: the cluster of Git storage nodes (section 2), the merge
journal (3), CI jobs and pipelines (4) and the search projection (5).

## 1. Inventory of the system

The program is a set of Rust crates that are linked into a standalone server or
into separate processes (API, Git server, worker, Git storage nodes, registry,
gateway, runner).  The processes share a relational database; the storage nodes
own the repositories on their disks.

| Component | State | Operations | Who it talks to | What is hard | What makes it correct |
|---|---|---|---|---|---|
| Git placement and replication, `gity-git-cluster` | one `git_placements` row per repository: primary, epoch, generation, pending writes, replicas, transition, version | begin and finish a write, claim, copy and record a replica, promote, route a read | database (compare and set on `version`), storage nodes (RPC) | rows kept across remote calls; promoters and workers that crash, overlap and answer late; lost answers | one primary; confirmed writes survive; readable replicas are current; replicas catch up |
| Git storage node, `gity-git-node` | an ownership file (role, epoch) and the references of every repository, one mutex per repository, running workers | initialize, write, snapshot, bundle, fence, activate, synchronize, shut down | libgit2, another node (bundle), the caller | jobs that outlive their callers, network calls under the lock, crash between the references and the file | stale requests are refused; epochs never decrease; nothing overwrites a primary |
| Remote callers, `gity-git`, `gity-git-wire` | a pending marker held per write | execute, stream | cluster router, node | unknown outcomes, cancelled callers | a marker is removed only for a known outcome |
| Merge execution and its journal | `merge_operations` row (pending, applied, rejected; events delivered), prepared and outcome references in the repository, merge request row (state, active operation) | claim, guard, apply, finish, recover, abort | database and Git without a common transaction | crash between Git and the database, retry of a merge that happened, competing recovery | a merge happens at most once, with the recorded commit; recovery never moves a branch |
| CI pipelines and jobs, `gity-ci`, `gity-platform/ci` | pipeline rows (status), job rows (status, readiness, attempts, runner, end of the lease), runner rows, trace chunks, artifacts | create, claim, heartbeat, finish, append to the trace, upload, retry, cancel, expire, refresh the pipeline | runners over HTTP, database | expired runners that report late, ticks with old copies of rows, a refresh that reads jobs without locking them, cancel and retry against all of these | a result belongs to the last execution and stands; nothing runs before what it needs; the pipeline status agrees with its jobs; everything ends |
| CI runner, `apps/gity-runner` | the job it executes and its output buffer | claim, execute, heartbeat, post trace, artifacts and result | CI API | lost lease while the command runs, lost replies, death at any time | it stops a job it has lost; it reports success only when the artifacts are stored |
| Search projection, `gity-persistence` `search_jobs`, `global_search` | one row per project (requested and completed generation, lease, published namespace), namespaces in the search engine | request, claim, build, complete, retry, clean up, query | database, Tantivy or OpenSearch | changes during a build, workers that stop or time out between database and engine, leases that are taken over | queries see a whole index that never goes back; what counts as done is found; in the end everything is indexed |
| Counters and audit, `gity-persistence` | one counter per project and kind | next number | database | concurrent increments | numbers are unique |
| Snowflake identifiers, `gity-ids` | last timestamp and sequence in one atomic word | next | wall clock | clock that steps back, sequence overflow | identifiers are unique and grow |
| Packages and artifacts, `gity-artifacts`, `gity-package-registry` | versions, files, blobs, deletion outbox | record upload, delete, resume deletion | database, object store | crash between rows and objects, upload against deletion | no row names a deleted object; every deletion ends |
| LFS objects and locks | object rows, lock rows | upload, verify, lock, unlock | object store, database | two users lock one path | one lock per path |
| Identity, sessions, OAuth | users, sessions, codes, refresh tokens | sign in, authorize, exchange, refresh, revoke | database | code exchanged twice, refresh raced | a code and a refresh token are used once |
| Issues, merge requests, discussions, wiki, releases, `gity-collaboration` | their rows | create, update, comment, approve | database | row transactions | the merge journal above |
| Projects, members, protection rules, `gity-projects` | their rows, the initial repository | create, initialize, delete | database, Git | creation spans database and Git | no project without an outcome |
| Code index, `gity-scip`, `gity-code-intel` | snapshots per commit | refresh, ingest, query | Git, search engine | refresh raced by a push | the snapshot is the commit's |
| OCI registry, standalone supervisor | child process | start, probe, restart, stop | external registry | restart loops | one child |
| Gateway, authority, Git HTTP and SSH, GraphQL, MCP, OpenAPI, client | none of their own | forward and authorize requests | the above | | |
| Core, entities, migrations, observability, localization, CLI, web, xtask | configuration and schema | | | | |

`PROJECT.json` lists each of these with its sources, its status and, when it is
not modelled, the reason; and, under `hazards`, every place in the code where an
order of events that no test exercises could go wrong, with the properties that
would show it.

## 2. The Git cluster: modules GitCluster and GitRepository

`GitCluster` is one repository of the cluster.  Repositories have a row, an
ownership file and a mutex each, and interact in one place only: they compete for
the attention of the replication workers, of which more under Fairness.

### State

| Variable | In the code |
|---|---|
| `row` | the placement row (`domain.rs` `Placement`, `Replica`); `latest` stands for `version`, see below |
| `role`, `epoch` | `RepositoryState` in the ownership file of each node (`state.rs`); role `absent` when there is none |
| `refs` | the references of each node, as the set of writes whose effect they contain; equal sets stand for equal fingerprints |
| `up` | whether the process of the node accepts work: FALSE from `stop_workers` to the next start |
| `call` | the local variables of a caller: its program counter (`phase`), the nodes, the epoch, the generation and the snapshot it remembers |
| `job` | the remote call of a caller as the node sees it: queued, holding the repository lock (`running`, `fetched`, `applied`), ended, or `orphan` for a write whose future was dropped while its blocking Git call goes on |
| `reader` | the handle that `node_for` returned to a reader, and what had been confirmed at that time |

Every catalog update in the code reads the row and then replaces it under a
compare and set on `version`.  Where nothing happens between the two, a
successful update is one step of the model, and a failed one is a step that has
not happened.  Only `promote` keeps a row across remote calls; versions never
repeat and are compared for equality only, so the row records in `latest` the
promotions whose copy is still current, and every update empties it.  The loops
that try sixteen times give up with an error that the callers of the model can
meet at any time.

A caller that returns early leaves its job behind, and a node may execute it
long after: this is what a lost answer, a timeout and a crashed caller have in
common, and it is the source of most of the interesting behaviours.

### Actions

| Group | Actions | Code |
|---|---|---|
| Writers | `BeginWrite`, `StartWrite`, `StartInit`, `RunWrite`, `FinishWrite`, `GiveUp` | `router.rs` `begin_write`, `write_finished`; `service.rs` `execute`; `control.rs` `initialize_primary`; `remote.rs`, `remote_stream.rs` |
| Replication | `ClaimSync`, `SnapshotSource`, `FinishSync`, `AbortSync`, `LoseSync`, `NextTick` | `replication.rs` of the cluster, `module.rs` worker loop |
| Destination of a copy | `StartSync`, `FetchBundle`, `ApplyBundle`, `SaveReplica`, `FailSync` | `replication.rs` of the node, `replication_apply.rs` |
| Promotion | `StartPromote`, `ExecFence`, `Frozen`, `CheckTarget`, `TargetSynced`, `ExecActivate`, `CompletePromote`, `FailPromote` | `promotion.rs`, `control.rs` |
| Readers | `RouteRead` | `router.rs` `node_for`, `domain.rs` `readable_nodes` |
| Nodes | `Crash`, `Stop`, `LandOrphan`, `RejectStopping`, `Restart` | `service.rs` `stop_workers` and the select of `execute` |

A write is atomic on the references (one libgit2 transaction, or one receive
pack); it may also fail, before or after its effect, which the caller cannot
tell apart.  Pushes are writes.

### The abstract specification

`GitRepository` is what a writer relies on: one copy, on which an issued write
takes effect at most once and is confirmed only afterwards, and from which
nothing disappears.  `OneCopy` in `GitCluster` is the refinement: the writes
that left `idle` are issued, the references of the node the row names are the
content, the acknowledged writes are confirmed.  Run `gc_life` checks that every
behaviour of the cluster, from the creation of the repository on, implements it.

### Properties

* `OnePrimary` - two nodes never both hold the role of primary.
* `HandoverCanResume` - a handover abandoned at any step can be carried through by
  another call for the same target: the primary will accept the fence, and the
  target the final copy, or it is activated and equal already.  The row takes
  neither writes nor another target before that.  Excepted are a repository that
  was never written and a handover to the primary itself past its activation.
* `RetryIsAccepted` - the same without the second exception, for the finding below.
* `PromotionKeepsContent` - the row changes its primary only to a node with
  equal references, and its epoch by one.
* `AckedWritesSurvive` - a confirmed write is on the primary of the row.
* `NoDivergence` - a node is behind its primary or equal, never aside.
* `PendingCoversWriters` - every write of the current epoch that is queued or
  running at the primary is counted by the pending marker.  Not counted is a write
  that a stopping node has answered and whose Git operation goes on: the finding
  of `gc_stop`.
* `ReadableReplicasCurrent` - a replica the router may choose and that would
  serve is equal to the primary.
* `RoutedReadsSeeAcked` - a handle that the node still accepts sees what was
  confirmed before it was issued.
* `NodeEpochsGrow` - the epoch a node stores never decreases.
* `ReplicasCatchUp` - once faults end, a replica that is behind a settled
  placement is brought up to date, in a catalog no larger than what a tick reads.
* `ImplementsOneCopy` - the refinement above.

### Runs and bounds

All runs take sets of two or three interchangeable nodes and a handful of
callers, each of which calls once (a replication worker calls again when
`Retick` is TRUE).  Callers are the bound of the state space: what goes wrong in
such a protocol needs two callers that overlap and a third that arrives late,
and two nodes that exchange their roles; each run has the actors its question
needs.  Deadlock is not checked because callers that have returned are the
normal end of a behaviour.

| Run | Nodes, writers, workers, promotions, readers | Question |
|---|---|---|
| `gc_promote` | 3, 2, 0, 2, 0 | overlapping promotions to two targets, against two writers; abandoned ones that another call takes up |
| `gc_life` | 2, 2 (one creates), 1, 1, 1 | refinement of the one-copy repository from creation on; handles that outlive the row; confirmed writes; readable replicas; late copies |
| `gc_catchup` | 2, 1, 1, 0, 0, ticking, fair | liveness with a writer |
| `gc_stop` | 2, 1, 0, 0, 0 | violation: a rejection with a writer left running |
| `gc_retry` | 2, 1, 0, 1, 0 | violation: a handover that no retry can complete |

Symmetry is used in the safety runs only.  `ReplicaCount` is 2: with two nodes a
replica exists, with three there is a node outside the placement.  One worker
takes over the claim of an attempt of its own that was lost; a second worker next
to a promotion, a creation and a reader does not fit into a run.  That another
worker takes over a claim after its hour while the first attempt still runs at the
replica and is recorded late is therefore covered by the theorem
`ReadableAreCurrent`, which is about any number of workers, and by no run.

### Fairness

`FairSpec` assumes that the replication worker ticks for ever (`module.rs` loops
until shutdown) and claims a replica of every row that its tick reads, provided
that the catalog holds no more rows than that: `Scanned`.  `replicate_tick` takes
the 100 rows that were replaced longest ago; rows that are settled or have a
pending write are skipped without being replaced and so keep their places.  With
more than 100 repositories a row that was written a moment ago may never be
reached, and nothing is promised: with `Placements = 101` the property of
`gc_catchup` is violated, as it should be.  Within a row a tick attempts the first
replica that is not current, so a replica that fails for ever keeps those after it
waiting; the property speaks of behaviours in which faults end.  It is further
assumed that a job waiting for the repository mutex gets it (tokio's
mutex is first in, first out; strong fairness, because the mutex is taken and
released), that a running Git operation ends and that a stopped node is started
again.  Nothing is assumed of writers, operators and readers.  Faults may happen
any finite number of times.

### Findings

`gc_stop`: when a node stops, `execute` drops the future of a running write, and
the repository lock with it, and answers `FailedPrecondition`, but the blocking
Git call underneath cannot be cancelled.  `definitive_rejection` takes this
answer for proof that no writer is left and the pending marker is removed.  The
other properties hold nevertheless, because the node accepts no work until it
has been started again: the orphaned write cannot overlap with another one, and
reads of that node are refused.

`gc_retry`: promoting a repository to its own primary is the repair after an
uncertain write (`distributed_repository.rs` does it).  Fence and activation then
write the same state file.  If the call fails after the activation - its answer is
lost, the process stops, or a worker records a synchronization, which raises the
version that the last replacement compares - the node is `Primary` at the next
epoch while the row is "moving" at the old one.  The answer of the API is to retry
the same target, but the fence of every retry is refused as stale: `fence_repository`
only repeats itself for a node that is still `Fenced`.  Theorem `DeadHandoverStays`
shows that nothing leads out of this state, and `HandoversResume` that it is, next
to a repository that was never written, the only one of its kind.

## 3. Merging: modules MergeJournal and MergeDecision

`MergeJournal` is one repository with one source and one target branch, the
merge requests between them, the application instances that serve merge and
abort requests, and the maintenance loops that recover.

| Variable | In the code |
|---|---|
| `head`, `past` | the two branch references; a commit is a name, a head its tip with everything it reaches; `past` is what clients may still have and push back by force |
| `prepared`, `marker` | `refs/gity/merge-prepared/<key>` and `refs/gity/merge-operations/<key>`: the candidate, and the receipt with the outcome |
| `mr` | the merge request row: state, active operation, merge commit |
| `op` | the `merge_operations` row: pinned tips, status, result, whether its events were delivered |
| `pipelines` | commits of the target with a push pipeline (unique per branch and commit) |
| `act` | the request an instance handles; its `pc` also says whether it holds the row lock (`Locking`) |
| `job` | its Git call; its `pc` says which reference locks it holds |
| `count` | how many of the bounded events have happened |

The row lock and the reference locks are not variables of their own: each is
held from one program point to another, and `RowFree`, `MarkerFree` and
`BranchesFree` read it off the program counters.  A reference lock that is taken
makes the attempt fail at once, as in libgit2; a row lock is waited for.

| Action | Code |
|---|---|
| `StartMerge`, `PinTarget` | `merge_execution.rs` up to the claim: the row, the pending operation, then source and target tips, read one after the other |
| `Claim`, `ReuseClaim`, `RefuseClaim` | the claim transaction |
| `StartAbort` | the abort handler |
| `RecoverNext`, `RecoverAgain` | the scan of the maintenance loop, in the order of ids |
| `LockToReconcile`, `LockToExecute`, `FindSettled` | `lock_merge_operation` and the status read under the lock |
| `ReadMarker`, `ReadProof` | `observed`, called without reference locks |
| `JobStart`, `JobDecide`, `JobLand`, `JobRecord` | `run_merge_operation`: outcome reference locked and read; branches locked, outcome decided and candidate prepared; branch moved; receipt written |
| `Reply`, `Settle` | the answer of Git, `finish` |
| `Deliver`, `MarkDelivered` | the pipeline and the mark, outside the transaction |
| `Fail`, `JobFail`, `Vanish` | an error of a call; an error or a crash in the middle of the job; a caller that goes away (client disconnects, process dies, node connection breaks): its transaction is rolled back, its job goes on |
| `Push`, `Rewind`, `UpdateState` | other clients |

Delivery need not make a pipeline, and need not succeed.  `create_push_pipeline`
answers without one for a commit that has no `.gity-ci.yml` (the constant
`NoConfig`), and `Deliver` goes on to the mark.  It fails, at every tick again and
without any fault, for a commit that no branch reaches any more (`Reachable`; a
forced push may do that between the merge and its delivery) and for a file that
makes no pipeline (`BadConfig`); the operation then stays undelivered.  Reachability
counts the two branches of the model; in the code every branch and tag counts.

A merge conflict, and whether a retry passes its approval and protection checks,
is a free choice.  The project lock is a mutex of one process; the instances of
the model are different processes, so it is left out.  In a cluster a second
merge or abort is also held up by the pending write of the first (section 2);
the model is the standalone server, which has more interleavings.

`MergeDecision` is the abstract specification: an operation is bound, decided
once and recorded once, and a merge request is merged by at most one operation.

### Properties

* `RowsAgree` - a merge request is bound exactly to its pending operation, and
  merged exactly by its applied one.
* `MergedIsLanded` - an applied operation names its candidate, and the target
  branch really had it.
* `RejectedIsAbsent` - a rejected operation has not moved the target.
* `DatabaseAgreesWithReceipt` - row and receipt never record different outcomes.
* `DeliveredHasPipeline` - a delivered merge has its pipeline, unless its commit
  has no `.gity-ci.yml`.
* `ReceiptsImmutable`, `AbortFences`, `LandingKeepsCommits`, `CompleteIsFinal` -
  what a step may never do: replace a receipt or a candidate, land what has an
  outcome, lose commits of the target, touch Git for a completed row.
* `ProofIsRecorded`, `AppliedIsDelivered` - recovery records what Git did and
  delivers it in the end; the latter if the commit stays reachable and its file, if
  it has one, is valid.
* `DecidesOnce` - the refinement of `MergeDecision`.

### Runs

| Run | Instance | Shows |
|---|---|---|
| `mj_core` | 2 requests, 2 operations, 2 instances, 1 push, 1 rewind, 1 failure | the journal implements `MergeDecision` (`DecidesOnce`); the two rows agree with each other, with the receipt and with the branch; concurrent merges lose no commit; Git is left alone once the row is complete; no delivered merge without its pipeline.  The commit of the first operation has no `.gity-ci.yml` |
| `mj_vanish` | 1 operation, 2 instances, maintenance, a vanishing caller, 1 rewind, 1 failure | with orphaned jobs: an abort fences them and receipts are immutable; what Git did is recorded, applied merges are delivered unless they are forced off their branch |
| `mj_orphan` | as `mj_vanish` | violation, see below |

The bounds let each hard case happen: two operations are two
merge requests at once, or a rejection followed by a new claim; two instances
share the row lock in every pair of handlers, and the reconciliation of a retry
is the one of the maintenance loop, one failure falls at every step, one rewind takes a proof
away or makes the pins match again.  A second failure or rewind repeats these.
`BadConfig` is empty in the runs: to the journal a commit with an invalid file is
one that no branch reaches, for ever, and the theorems are about any `BadConfig`.

Fairness (`mj_vanish`): a request and a job that can go on do (they are tasks and
threads the runtime schedules), and the maintenance loop ticks for ever.  Nobody
has to issue a request.  Failures and vanishing callers end.  The property about
proof asks for proof that stays: a candidate that is rewound away before it is
recorded leaves the operation pending, as the documentation says.

### Finding

`mj_orphan`: the row lock belongs to the caller, the Git job does not.  When the
caller of an abort vanishes, the lock is released and the job goes on.  A merge
has landed without its receipt; recovery takes the lock, sees the merge in the
target and records it; the target is rewound; the abort job finds no proof and
writes a rejection for an operation that is applied.  `docs/en/merge-recovery.md`
and the comment in `merge_execution.rs` say that the lock keeps recovery and
abort from interleaving, and `merge_guard_tests.rs` tests this very rewind with
a caller that stays.  `AbortFences` holds nevertheless (`mj_vanish`).  It takes both
the vanished caller and the forced push: with either alone the database and the
receipt agree, which is proved (`OneOutcome`, section 6).

## 4. CI: module CiPipeline

`CiPipeline` is one pipeline with its jobs and the manual jobs of the project
(which belong to no pipeline), the runners with their rows on the server and
their processes elsewhere, and any number of application instances.  Instances
need no state of their own: what an instance keeps between two steps is in the
variables `refresh`, `expired`, `late`, `posts`.

| Variable | In the code |
|---|---|
| `job` | the `project_jobs` row: status, whether `available_at` has come (`ready`; a job of the pipeline with unmet needs has a date far in the future), attempts used and granted, the runner and whether its lease has not expired (`live`) |
| `pipeline` | the status of the pipeline row |
| `refresh` | the transaction that refreshes the pipeline: it holds the pipeline row and the job rows as it has read them |
| `expired` | rows with an expired lease as scheduler ticks have read them |
| `late` | a cancellation that has found the pipeline at its end and is about to cancel jobs |
| `registered`, `runner` | runner rows, runner processes |
| `posts` | requests of runners that have passed the handler's check and not yet taken effect |
| `log` | the chunks of output that are stored, each with the attempt it is listed under and the executions whose output it contains, and for each job what `trace_pending` in its payload holds back |
| `artifacts` | whose artifacts are stored |
| `runs`, `verdict` | ghosts: how often a job was claimed, which of these executions the shown result is of |

A job row is changed by single conditional updates (`UPDATE ... WHERE status,
attempts, runner, lease`); each is one step.  The operations on a pipeline lock
its row, but not the rows of the jobs: a refresh reads the jobs, decides, and
commits later (`RefreshRead`, `RefreshCommit`), with claims, results, expiries
and cancellations of single jobs in between.

| Action | Code |
|---|---|
| `RefreshRead`, `RefreshCommit`, `RefreshAbort` | `refresh_pipeline` and its helpers; the status of the pipeline is computed by `PipelineStatus` |
| `CancelJob`, `RetryJob`, `RetryPipeline`, `CancelPipeline`, `CancelSettled`, `CancelLate` | the user operations |
| `Due`, `CompleteNoop`, `TickRead`, `TickExpire`, `LeaseExpires` | the scheduler tick, which every claim runs as well, and time |
| `ReadReady`, `ClaimJob`, `LoseClaim` | a claim: list of ready jobs, conditional update |
| `Start`, `SendTrace`, `Succeed`, `UploadAnswered`, `Fail`, `Vanish` | the runner process |
| `FinishJob`, `AppendTrace`, `AddArtifact` | the second halves of the handlers |
| `RemoveRunner` | an administrator |

A lease is a flag: heartbeats keep it, and time may take it at any moment, which
is every order of the two.  Heartbeats change nothing else, so they appear only
as the fairness condition `Renewed`: a heartbeat names no job and renews all
leases of its runner, also the one of a job whose claim was never answered.  A
post passes the handler's check (`Owned`) when it is sent and takes effect any
time later, or never; the update that gives it effect compares the lease again
(`HoldsLease`), except for artifacts.  That every operation which settles a job
refreshes the pipeline afterwards is not part of these actions: the refresh is a
transaction of its own, and the tick runs the same one at any time.

### Properties

* `EndedPipelineIsOver` - a pipeline at its end has no waiting or running job
  (`EndedPipelineRests`), and shows success only if all its jobs have succeeded
  (`SuccessIsComplete`).  The refresh
  that ends a pipeline has not locked the jobs it has read; it works because its
  sweep looks at the status again, and because what has been settled when it
  looked stays settled (a retry needs the pipeline row).
* `NeedsComeFirst` - a job runs only after what it needs, although runners claim
  from old lists.
* `WaitingIsClaimable` - no job waits without an attempt left: a tick with an old
  copy of the row decides between another attempt and failure.
* `PipelineGetsOn` - a pipeline that has not ended is never stuck: one of its jobs
  runs or can be claimed, or a refresh of the rows as they are would end the
  pipeline or release a job.  A retry sets jobs back to blocked, those without
  needs too, and only a refresh releases them, so that this says of every order of
  claims, expiries, cancellations and retries that somebody is left to wake those
  that wait.  It needs no fairness, and holds for every pipeline by proof, which
  `EverythingEnds` does not.
* `ResultIsOfLastRun`, `LogIsOfItsRun`, `SuccessHasArtifact` - late posts: the
  result is of the last execution, a success has the artifact of its own execution,
  and the log of an attempt is written by one execution (`OneWriter`).  Output of
  another one gets into it only as the tail of an earlier execution that died before
  its last chunk (`OnlyTails`, see below), and a job that has succeeded has the last
  chunk of its own execution stored and holds nothing back (`SuccessHasLog`).
* `ResultStands` - only a retry changes the row of a job at its end.
* `EverythingEnds` - liveness.

### Runs, bounds, fairness

| Run | Instance | Shows |
|---|---|---|
| `ci_pipeline` | a build, and a test that needs it, with a log and an artifact; 2 runners, 1 attempt for every start, 1 post under way, 1 retry, 1 cancellation | all safety properties of rows, logs and artifacts but one |
| `ci_ends` | the build and the test, a manual job without a script, a runner that is removed, 2 attempts; no user requests; the last place that the limits of tick and claim allow | no job waits without an attempt left; under fairness every job and the pipeline come to their end |

Two jobs with one need have every relation that matters to the refresh: a job
that waits for another, that is released by it, swept because of it, started
over with it.  Two runners are two owners of successive attempts.  With two
attempts (`ci_ends`) the last one differs from the others, on which
`WaitingIsClaimable` depends: ticks of two instances that have read the same row
meet it in both.  With one attempt for every start (`ci_pipeline`) a lease that
runs out ends the job, and the next attempt is that of a retry, by the same or by
the other runner.  Logs and artifacts under two attempts are left to the proofs,
which are for any number.  One post under way is the late
one; the other of two late posts would find the row as the first one left it.
A retry resets what a cancellation or a failure has ended.  The bounds on
retries, cancellations and posts are guards of their actions.

Fairness (`ci_ends`): the tick of every instance runs for ever and commits a
refresh again and again; a runner that cannot be removed claims again and again;
a lease that nobody renews expires; what a runner executes ends, by its timeout
at the latest.  The first two hold within limits.  A tick refreshes the 200 oldest
pipelines that have not ended and stops at the first that fails, so `Scheduled` asks
for fewer than 200 older pipelines that never end, and `RefreshCommit` for no error
that every tick meets; a claim reads 100 ready jobs before it compares tags, so
`Listed` asks for so few jobs ahead, which no runner takes, that those of the
pipeline are among them.  Pipelines that wait for a runner which does not exist keep
their places for ever: beyond the limits (`Older = 200`, or one more job `Ahead`)
`EverythingEnds` is violated.  `PipelineGetsOn`, which says that a refresh or a claim
would help, does not depend on them.  Nothing is assumed of posts, which may all be lost, and runners
may die any number of times.  A claim is tried again until one goes through, so
`ClaimJob` and `RefreshCommit` have strong fairness.  The jobs of this run post
neither logs nor artifacts: with these, a runner whose answer never comes fails
(`Fail`), which is an `Execute` step like the others.

### Disagreement with the documentation

`docs/en/runner-container-runtime.md` says that artifact writes of stale
executors are rejected.  The upload handler checks the lease, then stores the
content and inserts the row without another look, so an upload that is accepted
just before the lease changes hands adds an artifact of the old execution.
`AddArtifact` models this; `SuccessHasArtifact`, which names the execution, holds.

The same page says so of log writes, and these are rejected.  But the end of a chunk
that was accepted is held back, as it may be the beginning of a secret, in the
payload of the job, which a claim and a retry take over as it is: if a runner dies
before its last chunk, the log of the next attempt begins with the tail that the
dead execution left.  `AppendTrace` models this.  `OnlyTails` says how far it goes -
an earlier execution, one that has not ended its log - and that nothing else of
another execution is ever seen.  A chunk of the model counts what it holds back
again among its executions, so that it contains at least those of the code.

## 5. Search: modules SearchJobs and SearchIndex

`SearchJobs` is the projection of one project into the search engine.

| Variable | In the code |
|---|---|
| `data` | the issues and the code of the project, as a version number each |
| `row` | the `search_index_jobs` row: requested and completed generation, published namespace, lease |
| `events` | pushes whose request for a rebuild has not been made yet |
| `space` | the namespaces of the engine with the versions they were written from |
| `worker` | what a worker remembers: its token (the lease, and the name of the namespace it writes), generation, documents, the namespace to delete |
| `asked` | ghost: the project as it was when a generation was requested |

| Action | Code |
|---|---|
| `WriteIssue`, `PushCode`, `MarkEvent`, `LoseEvent`, `Reconcile` | changes and `request` |
| `FindWork`, `Claim`, `LoseClaim`, `ExpireLease` | `claim` |
| `ReadIssues`, `ReadCode`, `RefuseBuild`, `CheckCurrent`, `WriteSpace`, `Complete`, `DeletePrior`, `Discard` | the build and `complete` |
| `TimeOut`, `CleanUp`, `ScheduleRetry`, `Stop`, `LateTimeOut` | `run_pending` after an error or the 120 seconds; the end of the process |

`SearchIndex` is what a query relies on: it sees some version of each part that
was there, and later queries see no older ones.  `ImplementsIndex` is the
refinement, with the content of the published namespace as what is visible.

`Spec` excludes one step, `LateTimeOut`: an error or the timeout after the row
has been changed, while the reply is under way or the old namespace is deleted.
With it (`LateSpec`) the properties fail, which is the finding below; without it
they hold and are proved.

* `PublishedIsStored` - the namespace that queries use is never deleted.
* `NotPendingIsFresh` - `has_pending` tells the truth: what queries see is at
  least as new as the project was when the completed generation was requested.
* `ImplementsIndex` - queries never go back.
* `EventuallyIndexed` - when changes end, they can all be found, unless what the
  project has come to is refused by every build.

A build can fail for good without any fault: `projection.rs` resolves the default
branch as soon as there is any branch, and limits the number and size of issues,
files and directories.  The constant `Refused` holds the contents of which that is
so, `RefuseBuild` is the error, and it may come as often as the build is tried.  In
`sj_projection` the first push brings a branch that is not the default one and the
second the default branch.

A version of `"issues"` is that of one issue, read once: the code reads issues in
pages of 200 without a transaction, so that the issues of one build taken together
need not be a state that was ever there.  What the properties say of the part they
say of every issue of it.

| Run | Instance | Shows |
|---|---|---|
| `sj_projection` | 2 workers, 5 names, 3 generations, 2 pushes, the first refused, 2 faults, none after a publication | all of the above |
| `sj_timeout` | 1 worker, 3 names, 2 generations, 1 fault | violation, see below |

A lease that is taken over needs two workers; a third generation is a change
during a rebuild that was itself asked for during a build.  Two faults are a
lease that ends early together with a worker that stops, or two that do.  Names
are used again once nobody refers to them; five are enough for the published
one, that of each worker and the one each is about to delete.

Fairness: a build that was started goes on, rebuilds are requested again and again
(`Reconcile`), and a lease of nobody expires.  That a worker gets to the row at all
(`FindWork`) is assumed only where the code provides for it, which is `Reached`: a
claim takes the row that was changed longest ago, at most four in the two seconds
of a tick and none after a build that failed, and every reconciliation (each 300
seconds by default, of every instance) changes all rows in the order of the
projects.  If the workers get through fewer builds than there are projects before
the next reconciliation, the order begins anew and the projects with the latest
ids are never taken; `Projects` and `Builds` stand for the two numbers, and with
`Builds` smaller than `Projects` `EventuallyIndexed` is violated.

### Finding

`sj_timeout`: the timeout of a build also covers its completion and the deletion
of the old namespace.  If it strikes there, the worker takes the build for
failed and deletes the namespace it has just published; nothing asks for another
rebuild until the next reconciliation.  A comment in `worker.rs` says that
incomplete namespaces are never published and cleaned, and the documentation
that failed rebuilds retain the previous version.

## 6. Proofs

### Module GitClusterProofs

`GitClusterProofs` proves, for every number of nodes, writers, workers,
promotions and readers that satisfies `ClusterAssumption`:

* `TypeCorrect` - `Spec => []TypeOK`; the part that is not obvious is that the
  pending counter stays a natural number and that epochs are positive.
* `SinglePrimary` - `Spec => []OnePrimary`.
* `Ownership` - `Spec => []OwnershipInv`, the inductive invariant.

`OnePrimary` is not inductive: nothing in it excludes a queued activation of a
node at an epoch that another node owns.  `OwnershipInv` adds what rules it out:

* `Routed` - a caller that waits, and a job that exists, know their nodes;
* `LockExclusive` - one job holds the lock of a node, and only the kinds of job
  that take several steps;
* `CheckedStateHolds` - what a synchronization or an initialization checked when
  it took the lock still holds: nobody else changes role or epoch under it;
* `NoneAhead` - no request carries an epoch later than the row's, except the
  next epoch of the transition under way; a request of an earlier epoch finds a
  node that has stored a later one, so it is refused;
* `Transition` - the requests of the transition under way agree with the row
  about both nodes, and none of them gets past the fence before the old primary
  has answered it;
* `OwnersKnown` - a primary is the node of the row at the epoch of the row, or
  the target of the transition at the next epoch, once the old one is fenced.

The proof has one lemma per action that changes a role, an epoch or the row, and
a lemma (`QuietStep`) for all the others: they leave ownership alone, only
advance calls and jobs, and preserve the invariant for one common reason.

### Module GitContentProofs

What `GitClusterProofs` says of ownership is here continued to the content, again
for every value of the constants:

* `EpochsGrow` - `Spec => NodeEpochsGrow`;
* `CopiesBehind`, `ConfirmedSurvive` - `Spec => []NoDivergence` and
  `Spec => []AckedWritesSurvive`;
* `HandoversResume` - `Spec => []HandoverCanResume`: from `PrimaryKnown` the primary
  accepts the fence, from `EpochsBounded` and `OwnersKnown` only an activated target
  refuses the copy, and from `SuccessorsEqual` that one needs none;
* `DeadHandoverStays` - `Spec => [](DeadHandover => []DeadHandover)`, where
  `DeadHandover` is a handover to the primary itself that was activated and that no
  call past its fence may still confirm.  No step of another caller touches the row's
  owner or that node (`DeadNode`), and no call passes the fence (`DeadPromotion`);
* `PromotionSafe` - `Spec => PromotionKeepsContent`;
* `OneCopyImplemented` - `Spec => ImplementsOneCopy`, the refinement of
  `GitRepository`;
* `Content` - `Spec => []ContentInv`, the inductive invariant.

`ContentInv` adds to `OwnershipInv` what each caller relies on and what is known of
the nodes:

* `WriterHolds` - a Git operation runs, or its orphan may still land, only at a node
  with the role and the epoch it was admitted with, and an orphan only while that
  node is down; it follows that nobody writes at a fenced node (`WriterOnPrimary`);
* `CopyGrows`, `SyncRouted` - a synchronization mirrors the primary of its epoch to
  another node, and what it has fetched is no less than what the destination has;
* `AnswerKept` - a write that was answered is on the primary;
* `Succeeds` and `SuccessorsEqual` - what carries the next epoch, a synchronization or a
  node, has exactly what the fenced primary has, so that the comparison of one
  operator serves another one's activation;
* `PrimaryKnown`, `EpochsBounded`, `TargetKnown`, `PrimaryNoReplica` - the state of
  the node of the row, and that no node is ahead by more than the transition under way.

The proof describes in `Env` what every step but the completion of a promotion leaves
true, shows once that a caller that does nothing keeps its part (`Bystander`), and
has one lemma per remaining step (`OneCaller`, `OneNode`, `PrimaryWritten`).

### Module GitReplicaProofs

What readers rely on, for every value of the constants:

* `PendingCounts` - `Spec => []PendingCoversWriters`;
* `ReadableAreCurrent` - `Spec => []ReadableReplicasCurrent`;
* `ReadsSeeConfirmed` - `Spec => []RoutedReadsSeeAcked`;
* `Replicas` - `Spec => []ReplicaInv`, the inductive invariant, next to `ContentInv`.

The parts of `ReplicaInv`:

* `PendingCovers` counts the writes that may still change the primary or are not
  settled (`Unsettled`), a larger set than the one the property counts: without the
  writers that only wait for their answer, the step that settles one could take the
  counter below the number of the others;
* `MarksKnown` - no replica and no synchronization has a mark ahead of the generation
  of the row, so that a new generation (`NewGeneration`) makes every mark an old one;
* `CurrentCopies` and `ComparedCopies` - what is marked current, or may still be
  recorded as current, has every confirmed write, and all the primary has while
  nothing is pending;
* `OverlookedHidden` and `RefusedEnded` - a write whose marker was removed while it
  runs on as an orphan of a stopped node (the finding of `gc_stop`) may land where no
  marker announces it; the node is down until it does, so nothing is current or
  compared in the meantime, and the three theorems hold in spite of it;
* `HandlesKept` - the node of a handle keeps what the read was promised.

Most steps change none of this: `Dull` describes them, a step after which nothing is
more current or less settled than before, and `DullStep` shows once that such a step
keeps the invariant.  Of the cluster's properties only the liveness of
`ReplicasCatchUp` is left to the runs.

### Module MergeJournalProofs

For every number of merge requests, instances, operations, pushes, forced
pushes, failures and vanishing callers that satisfies `MergeAssumption`:

* `JournalTypeCorrect` - `Spec => []TypeOK`.  `Typed` strengthens the types with
  what later steps rely on: a request past its claim names an operation, one that
  completes a row brings an outcome, an applied row names a commit.
* `Fencing` - `Spec => AbortFences`, and `Receipts` - `Spec => ReceiptsImmutable`,
  both from `Typed /\ Fence`.  `Fence` says that one job at a time holds the lock
  of an outcome reference (`OneHolder`) and only while there is no outcome
  (`HolderUndecided`); that the job of a waiting caller is the one it started,
  although orphans of vanished callers run beside it (`CallMatches`); and that a
  rejection, wherever it is on its way from the job through the reply to the row,
  is in the outcome reference already (`RejectionBacked`).
* `RowsInStep` - `Spec => []RowsAgree`, from `RowsBound`.  `RowsAgree` says
  nothing about requests under way; `RowsBound` adds that each of them works on a
  claimed row of a merge request, so that the guard of a settlement - the merge
  request is still bound to it - implies that the row is pending.
* `NeverAhead` - `Spec => []MergedIsLanded`, from `Typed /\ Fence /\ Evident`.
  `Evident` follows a commit from the branch to the row: every carrier of an
  applied outcome - the job, its reply, the request that settles, the receipt -
  has the candidate of its operation, and a past head of the target reaches it.
  That evidence lasts (`EvidenceLasts`) is what makes the invariant survive
  forced pushes and orphaned jobs; it needs `ReceiptsImmutable` for the candidate.

The proofs first describe what the steps do (`RequestMoves`, `RowMoves`,
`SettleMoves`, `ClaimMoves`, `Ended`), then use these descriptions once for each
invariant.  All four invariants hold with orphaned jobs.

### Module MergeContentProofs

Under the same assumptions, and with orphaned jobs and vanishing callers:

* `NothingLost` - `Spec => LandingKeepsCommits`, from `Locked`: one job at a time
  has the branches (`OneSettler`), and what it has prepared reaches the target it
  is going to replace (`Ahead`), because nobody moves a branch under its locks.
* `RejectionMeansAbsence` - `Spec => []RejectedIsAbsent`, from `Absent`, which
  speaks of executions without a forced push so far: the merge commit of an operation
  comes into a branch only when its own job lands it in the target, from where
  pushes carry it on (`FromTarget`, `CandidateKnown`, `PreparedFrom`), so a job that
  has found it absent under the branch locks still does when it rejects.
* `MergedStaysLanded` - until the first forced push, the target contains the commit
  of every operation the database calls applied, and not only a past head of it:
  without forced pushes the target still reaches every head it ever had (`Grown`).
  The theorem is stronger than `MergedIsLanded` in such executions; no run states it.
* `PipelineBeforeMark` - `Spec => []DeliveredHasPipeline`, from `Delivering`: an
  applied row keeps its commit and pipelines are kept, so a request that is
  overtaken between pipeline and mark marks nothing wrong.  It holds for any commits
  without a file, with an invalid one, and forced off their branch: those never get
  the mark.

### Module MergeDecisionProofs

Two properties fail in `mj_orphan`, where a caller vanishes and a branch is forced
back.  The theorems say exactly how far they hold; `NotBoth` is
`count.cancels = 0 \/ count.rewinds = 0`, not both have happened yet:

* `OneOutcome` - `Spec => [](NotBoth => DatabaseAgreesWithReceipt)`,
* `JournalImplements` - `Spec /\ []NotBoth => DecidesOnce`, the refinement of
  `MergeDecision`,
* `CompletedLeftAlone` - `Spec /\ [](count.cancels = 0) => CompleteIsFinal`: a job
  that was left behind may land its candidate after recovery has completed the row,
  so this one needs callers that stay.

So an abandoned Git call is harmless in a repository whose branches are protected
against forced pushes, and forced pushes are harmless as long as every Git call is
waited for, any number of times.  The two cases have different reasons, and the
proof has one for each:

* While nobody has vanished, the row lock decides (`Attending`): a job that runs has
  its caller waiting (`Waited`), and a request that has read the receipt and found none
  still finds none when it completes (`ReadStands`).
* While nobody has forced a branch back, the branches decide: whoever carries a commit
  as an outcome has evidence for it (`Evident`), the target still reaches it (`Grown`),
  and a receipt that rejects speaks of a candidate that is absent (`Absent`).

Both give `OutcomesAgree`, nobody completes a merge past a receipt that rejects it
(`BothAgree`), from which the properties follow.  `Locker` needs neither: one request at
a time holds the row of an operation and finds it pending, and a job works for a claimed
operation, also when callers vanish.  For the refinement, `RowsFresh` adds that a row
without a claim belongs to nobody.  The proof maps each action to a bind, a decision or
a record of `MergeDecision`, or shows that it leaves all that `MergeDecision` sees
alone (`Unseen`); the receipt that a left-behind job writes for an operation which
recovery has recorded already names the same commit, and is a stutter.

For the merge journal, only liveness is left to the runs.

### Module CiPipelineProofs

For every finite set of jobs, at least one of them in the pipeline, with any needs
that form no circle (`Acyclic`: the parser of the pipeline file refuses the rest),
any runners, any number of attempts and any bounds on retries, cancellations and
posts (`CiAssumption`): `TypeCorrect`, `EndIsOver`, `NeedsFirst`,
`WaitingHasAttempts`, `NeverStuck`, `LastRunDecides`, `LogsAreApart`,
`SuccessIsStored` and `ResultsStand` - every safety property of the two runs.

`IInv` adds to the properties what the server's old copies of rows still tell:

* `RefreshKnows` - a status that a refresh has seen as settled is still the
  status of the row, because only a retry unsettles it and a retry of a member
  waits for the pipeline row; from this follow the two properties of the pipeline;
* `ExpiredKnows` - a tick's old copy is right about whether the attempt is the
  last one, as long as that attempt runs;
* `RunnerKnows`, `PostsKnow`, `LogKnows` - a runner, a post or a line of the log
  of the attempt that runs is of the last execution: attempt numbers never go back,
  and a claim starts a new one;
* `HeldKnows` - what is held back is of executions that have not ended their log,
  and nothing is once the last one has; it rests on the order of the chunks of an
  execution: while its last chunk is stored or under way the owner sends no other
  (`WriterKnows`), nor is another under way (`TracesKnow`);
* `NeedsAreMet` - not only a running job, also a job that may be claimed has all
  it needs; `PostsAreComplete` - a posted success has its artifact and its log
  stored (`RunnersFlush`).

The proof says first what a step may do to the row of one job: nine moves
(`JobMove`), and one lemma per action that it makes only these (`JobsMove`).
`PipelineMoves`, `RunnersMove`, `PostsMove`, `LogMove` and `ReadsMove` do the same
for the other variables, and every invariant is proved from the moves.

`NeverStuck` needs no further invariant.  While no job runs and no refresh would end
the pipeline, every job waits or has succeeded, and one waits (`SomeWait`); of
those that wait, one needs none of the others, and as its needs have succeeded it
can be claimed or would be released (`OneGetsOn`).  `WaitingIsClaimable` is what
makes a ready job claimable.  Only model-checked: `EverythingEnds`.

### Module SearchJobsProofs

For any finite set of workers and names and any bounds: `TypeCorrect`,
`PublishedIsThere`, `DoneIsFresh`, and `Implements`, the refinement of
`SearchIndex`.  They are about `Spec`, without late timeouts.  `IInv` has four parts:
`Below` (nothing is newer than the project), `Owners` (every name belongs to one
worker or to the row, and a namespace that a worker is about to delete is not
published), `Fresh` (a worker's documents cover what was asked for when its
generation was requested) and `Ahead` (a worker that may still publish would
publish nothing older than what is visible).  Only model-checked:
`EventuallyIndexed`.

## 7. What the models leave out

* The order of the replica list, and which replicas survive when there are more
  candidates than places, is a choice in the model (`Assignments`).
* Health checks are abstracted to `up`; read-only nodes are not modelled.
* libgit2 updates references one file after the other; a crash in the middle of
  a transaction is not modelled.
* An operator who edits rows or files by hand.
* Promotion of a repository that has never been written leaves the row "moving"
  for good, because its primary cannot be fenced: this is in the model, and
  `HandoverCanResume` excepts it, because no document says otherwise.
* A crash of a storage node ends the Git operations it runs.  A native
  `receive-pack` is a process group of its own (`protocol.rs`) and survives a kill of
  the node process alone; that the kill reaches it too, as that of a container
  does, is assumed.
* Merging: the deletion of the project between a merge and its delivery.
* CI: what is redacted in the log; only the tail that is held back for it is
  modelled.  Tags of jobs and runners, the pipeline file but for the needs it names,
  package credentials.  A manual job has no needs: those that the payload of a user
  might name are not modelled.
* Retrying one job while another has failed leads nowhere: the refresh that
  follows ends the pipeline again.  The model does this; no property forbids it.
* Search: what one query sees while a worker deletes the namespace it has just
  looked up; namespaces that a stopped worker has left behind, which nothing
  deletes.  The model forgets the latter with their names.

## 8. Not modelled, and the plan

Modules, in the order of what the program loses when they are wrong:

1. `GitCluster`, `GitRepository`, `GitClusterProofs`, `GitContentProofs`,
   `GitReplicaProofs` (done).
2. `MergeJournal`, `MergeDecision`, `MergeJournalProofs`, `MergeContentProofs`,
   `MergeDecisionProofs` (done).
3. `CiPipeline`, `CiPipelineProofs` (done); `CiTrace`: chunks, offsets and
   redaction.
4. `SearchJobs`, `SearchIndex`, `SearchJobsProofs` (done).
5. `PackageDeletion` (rows and objects), `OAuthGrant` (codes and refresh tokens
   that are used once), `LfsLocks`, `Snowflake` and counters (uniqueness), project
   creation across database and Git, the refresh of the code index.

The rest of the code - row updates in one transaction, parsing and formatting,
protocol framing, API surfaces, configuration - has no order of events to check;
`PROJECT.json` says so for each component.
