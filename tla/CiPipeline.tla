----------------------------- MODULE CiPipeline -----------------------------
(***************************************************************************)
(* CI jobs, the pipeline they belong to and the runners that execute them. *)
(* The server (gity-ci, gity-platform/ci) keeps job and pipeline rows;     *)
(* runners (apps/gity-runner) claim a job for one attempt under a lease,   *)
(* execute it and post logs, artifacts and the result over HTTP, where a   *)
(* post may arrive late or never and a runner may die at any moment.       *)
(*                                                                         *)
(* The job rows are changed by single conditional updates; the operations  *)
(* on the whole pipeline lock the pipeline row first.  Every operation     *)
(* that settles a job goes on to refresh the pipeline, in a transaction of *)
(* its own that a crash may omit and anything may precede; the scheduler   *)
(* and an endpoint run the same transaction at any time, so that a refresh *)
(* needs no cause here.                                                    *)
(*                                                                         *)
(* A lease is a flag, live or not: heartbeats keep it, time takes it away. *)
(***************************************************************************)
EXTENDS Integers, FiniteSets

CONSTANTS
  Jobs,        \* all jobs of a project
  Manual,      \* the jobs that belong to no pipeline
  Noop,        \* the manual jobs without a script
  Needs,       \* Needs[j]: jobs of the pipeline that j waits for
  Uploads,     \* the jobs that declare an artifact
  Chatty,      \* the jobs whose output is observed
  Runners,     \* runner rows, each with one runner process
  Removable,   \* the runners an administrator may remove
  Tries,       \* attempts a job is granted, 3 in the code
  MaxRetries,  \* bound on retry requests
  MaxCancels,  \* bound on cancel requests
  MaxPosts,    \* bound on posts on their way at once
  Older,       \* older pipelines, of any project, that never end
  Ahead        \* jobs of the project that stay ready before all of these

Members == Jobs \ Manual

\* The configuration file names a job at least, and no circle of needs: of
\* whatever jobs there is one that needs none of them.
Acyclic ==
  \A S \in SUBSET Members : S # {} => \E j \in S : Needs[j] \cap S = {}

ASSUME CiAssumption ==
  /\ IsFiniteSet(Jobs) /\ Manual \subseteq Jobs /\ Noop \subseteq Manual
  /\ Members # {}
  /\ Needs \in [Jobs -> SUBSET Members] /\ Acyclic
  /\ \A j \in Manual : Needs[j] = {}
  /\ Uploads \subseteq Jobs /\ Chatty \subseteq Jobs
  /\ Removable \subseteq Runners
  /\ Tries \in Nat \ {0} /\ MaxRetries \in Nat /\ MaxCancels \in Nat
  /\ MaxPosts \in Nat /\ Older \in Nat /\ Ahead \in Nat

NoRunner == "no runner"
ASSUME RunnerAssumption == NoRunner \notin Runners

VARIABLES
  job,        \* job[j]: the project_jobs row
  pipeline,   \* status of the pipeline row
  refresh,    \* the refresh transaction that holds the pipeline row
  expired,    \* rows with an expired lease as scheduler ticks have read them
  late,       \* a cancellation has passed a pipeline row it found terminal
  registered, \* runners whose row exists
  runner,     \* runner[r]: what a runner process does
  posts,      \* requests of runners that are being served
  log,        \* the chunks of output that are stored, and what is held back
  artifacts,  \* artifacts stored, by job and execution
  runs,       \* runs[j]: how often j has been claimed
  verdict,    \* verdict[j]: the execution whose result the row shows
  count       \* retry and cancel requests so far

rows == <<job, pipeline, runs, verdict>>
server == <<refresh, expired, late, registered>>
vars == <<rows, server, runner, posts, log, artifacts, count>>

Live == {"pending", "running"}
Settled == {"succeeded", "failed", "canceled"}
NoRun == 0

NoRefresh == [held |-> FALSE, seen |-> [j \in Members |-> "none"],
              blocked |-> {}]
IdleRunner == [pc |-> "idle", job |-> "none", attempt |-> 0, run |-> NoRun]
\* A manual job may be scheduled for now or later.
NewJob(j) ==
  [status |-> "pending", ready |-> j \in Members /\ Needs[j] = {},
   attempts |-> 0, max |-> Tries, owner |-> NoRunner, live |-> FALSE]

Init ==
  /\ job = [j \in Jobs |-> NewJob(j)]
  /\ pipeline = "pending"
  /\ refresh = NoRefresh
  /\ expired = {} /\ late = FALSE
  /\ registered = Runners
  /\ runner = [r \in Runners |-> IdleRunner]
  /\ posts = {} /\ artifacts = {}
  /\ log = [stored |-> {}, held |-> [j \in Jobs |-> {}]]
  /\ runs = [j \in Jobs |-> 0]
  /\ verdict = [j \in Jobs |-> NoRun]
  /\ count = [retries |-> 0, cancels |-> 0]

-----------------------------------------------------------------------------
\* Job rows.

\* Fault: the lock columns are left as they are.
Unowned(row) == [row EXCEPT !.live = FALSE]
Free(row) == [row EXCEPT !.owner = NoRunner, !.live = FALSE]
Canceled(row) == [Free(row) EXCEPT !.status = "canceled"]

\* A job is started over: its attempts count on and new ones are granted.
Reset(row, ready) ==
  [Free(row) EXCEPT !.status = "pending", !.ready = ready,
                    !.max = row.attempts + Tries]

\* Fault: the attempt, or the runner, is not compared.
HoldsSomeAttempt(j, attempt, r) ==
  job[j].status = "running" /\ job[j].owner = r /\ job[j].live
HeldBySomebody(j, attempt, r) ==
  job[j].status = "running" /\ job[j].attempts = attempt /\ job[j].live

\* The lease that a request must hold, in the filter of the update itself.
HoldsLease(j, attempt, r) ==
  /\ job[j].status = "running"
  /\ job[j].attempts = attempt
  /\ job[j].owner = r
  /\ job[j].live

\* What a handler checks in the row it has read before it goes on.
Owned(j, attempt, r) == r \in registered /\ HoldsLease(j, attempt, r)

Ready(j) ==
  /\ job[j].status = "pending" /\ job[j].ready
  /\ job[j].attempts < job[j].max

-----------------------------------------------------------------------------
\* The refresh of the pipeline.

PipelineLocked == refresh.held

PipelineStatus(seen) ==
  LET states == {seen[j] : j \in Members}
  IN  IF "failed" \in states THEN "failed"
      ELSE IF "canceled" \in states THEN "canceled"
      ELSE IF states = {"succeeded"} THEN "succeeded"
      ELSE IF states \cap {"running", "succeeded"} # {} THEN "running"
      ELSE "pending"

\* What a refresh reads, and which jobs it would release.
View == [held |-> TRUE, seen |-> [j \in Members |-> job[j].status],
         blocked |-> {j \in Members : ~job[j].ready}]

\* Fault: a job without needs is left out, for it was ready from the start.
NeedyReleases(view, j) ==
  /\ view.seen[j] = "pending" /\ j \in view.blocked
  /\ Needs[j] # {} /\ \A n \in Needs[j] : view.seen[n] = "succeeded"
Releases(view, j) ==
  /\ view.seen[j] = "pending" /\ j \in view.blocked
  /\ \A n \in Needs[j] : view.seen[n] = "succeeded"

RefreshRead ==
  /\ ~PipelineLocked /\ pipeline \notin Settled
  /\ refresh' = View
  /\ UNCHANGED <<rows, expired, late, registered, runner, posts, log,
                 artifacts, count>>

\* Fault: the update compares the status with the one that was read.
SweptAsSeen(j) == refresh.seen[j] \in Live /\ job[j].status = refresh.seen[j]
Swept(j) == refresh.seen[j] \in Live /\ job[j].status \in Live
Released(j) ==
  Releases(refresh, j) /\ job[j].status = "pending" /\ ~job[j].ready

RefreshCommit ==
  /\ PipelineLocked
  /\ LET status == PipelineStatus(refresh.seen)
         ends == status \in {"failed", "canceled"}
     IN  /\ job' = [j \in Jobs |->
              CASE j \in Members /\ ends /\ Swept(j) -> Canceled(job[j])
                [] j \in Members /\ status \notin Settled /\ Released(j) ->
                     [job[j] EXCEPT !.ready = TRUE]
                [] OTHER -> job[j]]
         /\ pipeline' = status
  /\ refresh' = NoRefresh
  /\ UNCHANGED <<runs, verdict, expired, late, registered, runner, posts, log,
                 artifacts, count>>

\* The transaction is rolled back: an error, or the process dies.
RefreshAbort ==
  /\ PipelineLocked /\ refresh' = NoRefresh
  /\ UNCHANGED <<rows, expired, late, registered, runner, posts, log,
                 artifacts, count>>

-----------------------------------------------------------------------------
\* Requests of users.

Retries == /\ count.retries < MaxRetries
           /\ count' = [count EXCEPT !.retries = @ + 1]
Cancels == /\ count.cancels < MaxCancels
           /\ count' = [count EXCEPT !.cancels = @ + 1]

CancelJob(j) ==
  /\ Cancels
  /\ job[j].status \in Live
  /\ job' = [job EXCEPT ![j] = Canceled(@)]
  /\ UNCHANGED <<pipeline, runs, verdict, server, runner, posts, log, artifacts>>

\* The other canceled jobs of the pipeline are started over as well; those
\* that have failed keep the pipeline from getting anywhere.
RetryJob(j) ==
  /\ Retries
  /\ j \in Members => ~PipelineLocked
  /\ job[j].status \in {"failed", "canceled"}
  /\ LET again == {j} \cup
           (IF j \in Members
            THEN {i \in Members : job[i].status = "canceled"} ELSE {})
     IN  /\ job' = [i \in Jobs |->
              IF i \in again THEN Reset(job[i], i = j /\ Needs[j] = {})
              ELSE job[i]]
         /\ verdict' = [i \in Jobs |-> IF i \in again THEN NoRun ELSE verdict[i]]
  /\ pipeline' =
       IF j \in Members /\ pipeline \in Settled THEN "pending" ELSE pipeline
  /\ UNCHANGED <<runs, server, runner, posts, log, artifacts>>

RetryPipeline ==
  /\ Retries
  /\ ~PipelineLocked /\ pipeline \in Settled
  /\ pipeline' = "pending"
  /\ job' = [j \in Jobs |-> IF j \in Members THEN Reset(job[j], FALSE) ELSE job[j]]
  /\ verdict' = [j \in Jobs |-> IF j \in Members THEN NoRun ELSE verdict[j]]
  /\ UNCHANGED <<runs, server, runner, posts, log, artifacts>>

CancelMembers ==
  job' = [j \in Jobs |-> IF j \in Members /\ job[j].status \in Live
                         THEN Canceled(job[j]) ELSE job[j]]

CancelPipeline ==
  /\ Cancels
  /\ ~PipelineLocked /\ pipeline \notin Settled
  /\ pipeline' = "canceled"
  /\ CancelMembers
  /\ UNCHANGED <<runs, verdict, server, runner, posts, log, artifacts>>

\* A cancellation that finds the pipeline at its end locks nothing, and goes
\* on to cancel the jobs all the same.
CancelSettled ==
  /\ Cancels
  /\ pipeline \in Settled /\ ~late
  /\ late' = TRUE
  /\ UNCHANGED <<rows, refresh, expired, registered, runner, posts, log, artifacts>>

CancelLate ==
  /\ late /\ late' = FALSE
  /\ CancelMembers
  /\ UNCHANGED <<pipeline, runs, verdict, refresh, expired, registered, runner,
                 posts, log, artifacts, count>>

\* The time a manual job has been scheduled for has come.
Due(j) ==
  /\ j \in Manual /\ ~job[j].ready
  /\ job' = [job EXCEPT ![j].ready = TRUE]
  /\ UNCHANGED <<pipeline, runs, verdict, server, runner, posts, log, artifacts, count>>

RemoveRunner(r) ==
  /\ r \in registered \cap Removable
  /\ registered' = registered \ {r}
  /\ UNCHANGED <<rows, refresh, expired, late, runner, posts, log, artifacts, count>>

-----------------------------------------------------------------------------
\* The scheduler tick, run by every application instance and by every claim.

CompleteNoop(j) ==
  /\ j \in Noop /\ job[j].status = "pending" /\ job[j].ready
  /\ job' = [job EXCEPT ![j].status = "succeeded", ![j].attempts = @ + 1]
  /\ UNCHANGED <<pipeline, runs, verdict, server, runner, posts, log, artifacts, count>>

LeaseExpires(j) ==
  /\ job[j].status = "running" /\ job[j].live
  /\ job' = [job EXCEPT ![j].live = FALSE]
  /\ UNCHANGED <<pipeline, runs, verdict, server, runner, posts, log, artifacts, count>>

Read(j) == [job |-> j, attempts |-> job[j].attempts,
            spent |-> job[j].attempts >= job[j].max]

\* Fault: the attempt, or the status, is not compared.
SomeLeaseExpired(e) == job[e.job].status = "running" /\ ~job[e.job].live
SameAttempt(e) == job[e.job].attempts = e.attempts /\ ~job[e.job].live

StillExpired(e) ==
  /\ job[e.job].status = "running"
  /\ job[e.job].attempts = e.attempts
  /\ ~job[e.job].live

\* Fault: only the jobs of runners that exist are looked at.
ExpiredOfRunner(j) ==
  job[j].status = "running" /\ ~job[j].live /\ job[j].owner \in registered
Expired(j) == job[j].status = "running" /\ ~job[j].live

TickRead(j) ==
  /\ Expired(j)
  /\ Read(j) \notin expired
  /\ expired' = expired \cup {Read(j)}
  /\ UNCHANGED <<rows, refresh, late, registered, runner, posts, log, artifacts, count>>

\* Another instance may have read the row as well, and do the same later.
TickExpire(e) ==
  /\ expired' \in {expired, expired \ {e}}
  /\ job' = IF StillExpired(e)
            THEN [job EXCEPT ![e.job] =
                   [Free(@) EXCEPT !.ready = TRUE,
                      !.status = IF e.spent THEN "failed" ELSE "pending"]]
            ELSE job
  /\ UNCHANGED <<pipeline, runs, verdict, refresh, late, registered, runner,
                 posts, log, artifacts, count>>

-----------------------------------------------------------------------------
\* A runner process: one job at a time, from the claim to its last post.

\* A heartbeat renews every lease of the runner, of the job it executes or of
\* one it has never heard of; it runs until the script has ended.
Renewed(j) ==
  \E r \in registered : job[j].owner = r /\ runner[r].pc = "executing"

Post(r, kind) ==
  [kind |-> kind, job |-> runner[r].job, attempt |-> runner[r].attempt,
   runner |-> r, run |-> runner[r].run]

\* A post is checked against the row as its handler has read it, and takes
\* effect later.  A lease that is lost is never held again, so that of all
\* the moments a post may spend on its way the first lets most of them pass:
\* the check comes with the post.  A post may be lost, and is when too many
\* are being served.
Arrives(r, kind) ==
  /\ Cardinality(posts) < MaxPosts
  /\ Owned(runner[r].job, runner[r].attempt, r)
  /\ posts' = posts \cup {Post(r, kind)}
Sends(r, kind) == posts' = posts \/ Arrives(r, kind)
Rests(r) == runner' = [runner EXCEPT ![r] = IdleRunner]
Reports(r, kind) == Sends(r, kind) /\ Rests(r)

\* A claim reads the ready jobs, tries one of them after the other, and reads
\* the row again for the reply.
ReadReady(r, j) ==
  /\ runner[r].pc = "idle" /\ r \in registered
  /\ j \notin Noop /\ Ready(j)
  /\ runner' = [runner EXCEPT ![r] = [pc |-> "claiming", job |-> j,
                                     attempt |-> job[j].attempts, run |-> NoRun]]
  /\ UNCHANGED <<rows, server, posts, log, artifacts, count>>

\* Fault: the time the job may start is not compared.
ClaimableEarly(j, attempt) ==
  job[j].status = "pending" /\ job[j].attempts = attempt
Claimable(j, attempt) == Ready(j) /\ job[j].attempts = attempt

ClaimJob(r) ==
  LET j == runner[r].job
  IN  /\ runner[r].pc = "claiming"
      /\ Claimable(j, runner[r].attempt)
      /\ job' = [job EXCEPT ![j] =
                   [@ EXCEPT !.status = "running", !.owner = r, !.live = TRUE,
                             !.attempts = runner[r].attempt + 1]]
      /\ runs' = [runs EXCEPT ![j] = @ + 1]
      /\ runner' = [runner EXCEPT ![r].pc = "claimed", ![r].run = runs[j] + 1]
      /\ UNCHANGED <<pipeline, verdict, server, posts, log, artifacts, count>>

LoseClaim(r) ==
  /\ runner[r].pc = "claiming"
  /\ ~Claimable(runner[r].job, runner[r].attempt)
  /\ Rests(r)
  /\ UNCHANGED <<rows, server, posts, log, artifacts, count>>

Start(r) ==
  /\ runner[r].pc = "claimed"
  /\ runner' = [runner EXCEPT ![r].pc = "executing",
                             ![r].attempt = job[runner[r].job].attempts]
  /\ UNCHANGED <<rows, server, posts, log, artifacts, count>>

\* The process dies, or does not get the reply to its claim.
Vanish(r) ==
  /\ runner[r].pc # "idle" /\ Rests(r)
  /\ UNCHANGED <<rows, server, posts, log, artifacts, count>>

\* Chunks of output are posted one after the other while the script runs,
\* and a last one when it has ended.  A runner whose chunk is lost or refused
\* sends no other and fails.
SendTrace(r) ==
  /\ runner[r].pc = "executing" /\ runner[r].job \in Chatty
  /\ Post(r, "trace") \notin posts
  /\ \/ Arrives(r, "trace") /\ UNCHANGED runner
     \/ /\ Arrives(r, "final")
        /\ runner' = [runner EXCEPT ![r].pc = "flushing"]
  /\ UNCHANGED <<rows, server, log, artifacts, count>>

LogEnds(j, run) == \E x \in log.stored : x.job = j /\ x.run = run /\ x.final
Flushed(r) ==
  IF runner[r].job \in Chatty
  THEN runner[r].pc = "flushing" /\ LogEnds(runner[r].job, runner[r].run)
  ELSE runner[r].pc = "executing"

Succeed(r) ==
  /\ runner[r].pc # "idle" /\ Flushed(r)
  /\ IF runner[r].job \in Uploads
     THEN /\ Sends(r, "upload")
          /\ runner' = [runner EXCEPT ![r].pc = "uploading"]
     ELSE Reports(r, "complete")
  /\ UNCHANGED <<rows, server, log, artifacts, count>>

\* Fault: the result is posted without the answer to the upload.
Unawaited(r) == runner[r].pc = "uploading"
Stored(r) == <<runner[r].job, runner[r].run>> \in artifacts

UploadAnswered(r) ==
  /\ runner[r].pc = "uploading" /\ Stored(r)
  /\ Reports(r, "complete")
  /\ UNCHANGED <<rows, server, log, artifacts, count>>

\* The script fails, takes too long, or is stopped because a heartbeat does
\* not list its attempt; or a log or artifact could not be stored.
Fail(r) ==
  /\ runner[r].pc \in {"executing", "flushing", "uploading"}
  /\ Reports(r, "fail")
  /\ UNCHANGED <<rows, server, log, artifacts, count>>

-----------------------------------------------------------------------------
\* The posts that have passed the check.

Takes(p, kinds) == p.kind \in kinds /\ posts' = posts \ {p}

FinishJob(p) ==
  /\ Takes(p, {"complete", "fail"})
  /\ IF HoldsLease(p.job, p.attempt, p.runner)
     THEN /\ job' = [job EXCEPT ![p.job] =
                      [Free(@) EXCEPT !.status =
                         IF p.kind = "complete" THEN "succeeded" ELSE "failed"]]
          /\ verdict' = [verdict EXCEPT ![p.job] = p.run]
     ELSE UNCHANGED <<job, verdict>>
  /\ UNCHANGED <<pipeline, runs, server, runner, log, artifacts, count>>

\* The end of the output that may be the beginning of a masked value is held
\* back in the payload of the job, until the next chunk shows what becomes of
\* it; the last chunk leaves nothing behind.  No claim and no retry clears what
\* a dead execution has left there, and the next one has it before its own.
Chunk(p, text) ==
  [job |-> p.job, attempt |-> p.attempt, run |-> p.run, of |-> text,
   final |-> p.kind = "final"]

Tail(p, tail) == IF p.kind = "final" THEN {} ELSE tail

AppendTrace(p) ==
  LET text == log.held[p.job] \cup {p.run} IN
  /\ Takes(p, {"trace", "final"})
  /\ \/ /\ HoldsLease(p.job, p.attempt, p.runner)
        /\ \E tail \in SUBSET text :
             /\ \A e \in text \ tail, f \in tail : e < f
             /\ log' = [stored |-> log.stored \cup {Chunk(p, text)},
                        held |-> [log.held EXCEPT ![p.job] = Tail(p, tail)]]
     \/ /\ ~HoldsLease(p.job, p.attempt, p.runner)
        /\ UNCHANGED log
  /\ UNCHANGED <<rows, server, runner, artifacts, count>>

\* The content is put in storage and the row inserted, with no further look
\* at the job.
AddArtifact(p) ==
  /\ Takes(p, {"upload"})
  /\ artifacts' = artifacts \cup {<<p.job, p.run>>}
  /\ UNCHANGED <<rows, server, runner, log, count>>

-----------------------------------------------------------------------------
UserNext ==
  \/ \E j \in Jobs : CancelJob(j) \/ RetryJob(j) \/ Due(j)
  \/ RetryPipeline \/ CancelPipeline \/ CancelSettled \/ CancelLate
  \/ \E r \in Runners : RemoveRunner(r)
TickNext ==
  \/ RefreshRead \/ RefreshCommit \/ RefreshAbort
  \/ \E j \in Jobs : CompleteNoop(j) \/ LeaseExpires(j) \/ TickRead(j)
  \/ \E e \in expired : TickExpire(e)
Claim(r) == (\E j \in Jobs : ReadReady(r, j)) \/ ClaimJob(r) \/ LoseClaim(r)
Execute(r) == Succeed(r) \/ UploadAnswered(r) \/ Fail(r)
RunnerNext ==
  \E r \in Runners : Claim(r) \/ Start(r) \/ Vanish(r) \/ SendTrace(r) \/ Execute(r)
PostNext ==
  \E p \in posts : FinishJob(p) \/ AppendTrace(p) \/ AddArtifact(p)

Next == UserNext \/ TickNext \/ RunnerNext \/ PostNext
Spec == Init /\ [][Next]_vars

\* A tick refreshes the pipelines that have not ended in the order of their
\* creation, up to a limit and to the first that fails; a claim looks at the
\* jobs of the project that are ready, up to a limit, and takes the first its
\* runner has the tags for.  What stays there for ever, because no runner has
\* its tags or its refresh always fails, takes a place for ever.
RefreshLimit == 200
ClaimLimit == 100
Scheduled == Older < RefreshLimit
Listed == Ahead + Cardinality(Jobs) <= ClaimLimit

\* The tick runs for ever, and of the refreshes it tries again and again one
\* is committed, as of the claims of a runner that cannot be removed one goes
\* through, as long as pipeline and jobs are within the limits and nothing
\* before the pipeline makes every tick fail.  A lease that nobody renews
\* expires, which has no limit, and whatever a runner executes ends, by its
\* timeout at the latest.  Nothing is assumed of posts, which may all be
\* lost, nor of users.
Fairness ==
  /\ Scheduled => WF_vars(RefreshRead) /\ SF_vars(RefreshCommit)
  /\ \A j \in Jobs :
       /\ WF_vars(~Renewed(j) /\ LeaseExpires(j))
       /\ WF_vars(TickRead(j)) /\ WF_vars(CompleteNoop(j)) /\ WF_vars(Due(j))
  /\ WF_vars(\E e \in expired : TickExpire(e) /\ e \notin expired')
  /\ \A r \in Runners : WF_vars(Start(r)) /\ WF_vars(Execute(r))
  /\ Listed =>
       \A r \in Runners \ Removable : WF_vars(Claim(r)) /\ SF_vars(ClaimJob(r))
FairSpec == Spec /\ Fairness

-----------------------------------------------------------------------------
JobRows ==
  [status : Live \cup Settled, ready : BOOLEAN, attempts : Nat, max : Nat,
   owner : Runners \cup {NoRunner}, live : BOOLEAN]
RunnerStates ==
  [pc : {"idle", "claiming", "claimed", "executing", "flushing", "uploading"},
   job : Jobs \cup {"none"}, attempt : Nat, run : Nat]
Posts ==
  [kind : {"complete", "fail", "trace", "final", "upload"}, job : Jobs,
   attempt : Nat, runner : Runners, run : Nat]
Chunks ==
  [job : Jobs, attempt : Nat, run : Nat, of : SUBSET Nat, final : BOOLEAN]
Reads == [job : Jobs, attempts : Nat, spent : BOOLEAN]
Refreshes ==
  [held : BOOLEAN, seen : [Members -> Live \cup Settled \cup {"none"}],
   blocked : SUBSET Members]

\* Every variable has its type; no job is granted fewer attempts than it has
\* used, and a job is owned exactly while it runs.
TypeOK ==
  /\ job \in [Jobs -> JobRows]
  /\ \A j \in Jobs : /\ job[j].attempts <= job[j].max
                     /\ job[j].status = "running" <=> job[j].owner # NoRunner
  /\ pipeline \in Live \cup Settled
  /\ refresh \in Refreshes
  /\ expired \subseteq Reads
  /\ late \in BOOLEAN
  /\ registered \subseteq Runners
  /\ runner \in [Runners -> RunnerStates]
  /\ posts \subseteq Posts
  /\ log \in [stored : SUBSET Chunks, held : [Jobs -> SUBSET Nat]]
  /\ artifacts \subseteq Jobs \X Nat
  /\ runs \in [Jobs -> Nat]
  /\ verdict \in [Jobs -> Nat]
  /\ count \in [retries : 0 .. MaxRetries, cancels : 0 .. MaxCancels]

\* A pipeline at its end has no job that waits or runs, and one that shows
\* success only jobs that have succeeded: the refresh that ends it, or the
\* cancellation, reaches also the jobs that are claimed, renewed or expired
\* after it has read them.  RetryPipeline resets every job without a look at
\* its status, and would take a running job from its runner otherwise.
EndedPipelineRests ==
  pipeline \in Settled => \A j \in Members : job[j].status \notin Live
SuccessIsComplete ==
  pipeline = "succeeded" => \A j \in Members : job[j].status = "succeeded"
EndedPipelineIsOver == EndedPipelineRests /\ SuccessIsComplete

\* Only a job whose needs have all succeeded runs or has run to its end, even
\* if a runner has read it as ready before a cancellation and a retry.
NeedsComeFirst ==
  \A j \in Jobs : job[j].status \in {"running", "succeeded"} =>
    \A n \in Needs[j] : job[n].status = "succeeded"

\* A waiting job can be claimed: it has an attempt left, whatever ticks with
\* an old copy of its row and retries have done to it.  No runner would ever
\* take it otherwise, and the pipeline would wait for it for ever.
WaitingIsClaimable ==
  \A j \in Jobs : job[j].status = "pending" => job[j].attempts < job[j].max

\* A pipeline that has not ended gets on: a job of it runs, or can be claimed, or
\* the next refresh ends the pipeline or releases a job.  Jobs are blocked and
\* reset by retries, expired and canceled in any order, and those that wait for
\* one another, with nothing that would wake them, would wait for ever.
PipelineGetsOn ==
  pipeline \notin Settled =>
    \/ PipelineStatus(View.seen) \in Settled
    \/ \E j \in Members : job[j].status = "running" \/ Ready(j) \/ Releases(View, j)

\* The result that a job shows was posted by the execution of its last claim,
\* and by none before it, however late an old post arrives.
ResultIsOfLastRun ==
  \A j \in Jobs : verdict[j] # NoRun =>
    verdict[j] = runs[j] /\ job[j].status \in {"succeeded", "failed"}

\* An attempt number names one execution: the log of an attempt is written by
\* one only, however late another one posts.  Output of another execution gets
\* into it only as the tail of an earlier one that has died before its last
\* chunk; and a job that a runner has executed with success has the last chunk
\* of its output stored, and holds nothing back that a retry would show.
OneWriter ==
  \A x, y \in log.stored : x.job = y.job /\ x.attempt = y.attempt => x.run = y.run
OnlyTails ==
  \A x \in log.stored : \A e \in x.of \ {x.run} : e < x.run /\ ~LogEnds(x.job, e)
SuccessHasLog ==
  \A j \in Chatty \ Noop : job[j].status = "succeeded" =>
    LogEnds(j, verdict[j]) /\ log.held[j] = {}
LogIsOfItsRun == OneWriter /\ OnlyTails /\ SuccessHasLog

\* The artifact of a job that a runner has executed with success is there, from
\* the execution that succeeded.
SuccessHasArtifact ==
  \A j \in Uploads \ Noop : job[j].status = "succeeded" => <<j, verdict[j]>> \in artifacts

\* A result stands until somebody asks for a retry: no tick, late post or
\* cancellation changes the row of a job that has come to its end.
ResultStands ==
  [][\A j \in Jobs : job[j].status \in Settled /\ job'[j].status # job[j].status =>
       count'.retries = count.retries + 1 /\ job'[j].status = "pending"]_vars

\* Every job comes to its end, and with it the pipeline, although runners die
\* and posts are lost, and jobs wait for one another; within the limits of the
\* tick and of the claim, see Fairness.
EverythingEnds ==
  <>[](pipeline \in Settled /\ \A j \in Jobs : job[j].status \in Settled)
=============================================================================
