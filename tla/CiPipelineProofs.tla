-------------------------- MODULE CiPipelineProofs --------------------------
(***************************************************************************)
(* Theorems about CiPipeline for any set of jobs with any needs, any       *)
(* runners and any number of attempts, retries, cancellations and posts.   *)
(***************************************************************************)
EXTENDS CiPipeline, TLAPS

-----------------------------------------------------------------------------
\* The inductive invariant.

Busy == \A r \in Runners : runner[r].pc # "idle" => runner[r].job \in Jobs

\* The refresh that holds the pipeline has seen what is settled as it still is.
RefreshKnows ==
  refresh.held => /\ pipeline \notin Settled
                  /\ \A j \in Members :
                       /\ refresh.seen[j] \in Live \cup Settled
                       /\ refresh.seen[j] \in Settled =>
                            job[j].status = refresh.seen[j]

\* A job that may be claimed, too, has all it needs.
NeedsAreMet ==
  \A j \in Jobs :
    \/ job[j].status \in {"running", "succeeded"}
    \/ job[j].status = "pending" /\ job[j].ready
    => \A n \in Needs[j] : job[n].status = "succeeded"

\* A tick with an old copy of a row knows whether the attempt was the last
\* one, as long as that attempt runs.
ExpiredKnows ==
  \A e \in expired :
    /\ e.attempts <= job[e.job].attempts
    /\ job[e.job].status = "running" /\ job[e.job].attempts = e.attempts =>
         (e.spent <=> job[e.job].attempts >= job[e.job].max)

\* Who owns a running job knows its execution: a runner that is at it, a post
\* and a log of the attempt.
RunnerKnows ==
  \A r \in Runners : LET j == runner[r].job IN
    /\ runner[r].pc \in {"claimed", "executing", "flushing", "uploading"}
    /\ job[j].status = "running" /\ job[j].owner = r
    => runner[r].run = runs[j]
PostsKnow ==
  \A p \in posts :
    /\ p.attempt <= job[p.job].attempts
    /\ job[p.job].status = "running" /\ job[p.job].attempts = p.attempt
         /\ job[p.job].owner = p.runner => p.run = runs[p.job]
LogKnows ==
  \A x \in log.stored :
    /\ x.attempt <= job[x.job].attempts /\ x.run <= runs[x.job]
    /\ job[x.job].status = "running" /\ job[x.job].attempts = x.attempt =>
         x.run = runs[x.job]

\* What is held back is of executions that have not ended their log, and
\* nothing once the last of them has.
HeldKnows ==
  \A j \in Jobs :
    /\ \A e \in log.held[j] : e <= runs[j] /\ ~LogEnds(j, e)
    /\ LogEnds(j, runs[j]) => log.held[j] = {}

\* While the owner of a job has output to send, its last chunk is neither
\* stored nor on its way, and it never overtakes a chunk of its execution.
Owns(p) ==
  /\ job[p.job].status = "running" /\ job[p.job].attempts = p.attempt
  /\ job[p.job].owner = p.runner
NoFinal(j) == \A q \in posts : q.kind = "final" /\ q.job = j => ~Owns(q)
WriterKnows ==
  \A r \in Runners : LET j == runner[r].job IN
    /\ runner[r].pc \in {"claimed", "executing"}
    /\ job[j].status = "running" /\ job[j].owner = r
    => ~LogEnds(j, runs[j]) /\ NoFinal(j)
TracesKnow ==
  \A p \in posts : p.kind = "trace" /\ Owns(p) =>
    ~LogEnds(p.job, runs[p.job]) /\ NoFinal(p.job)

\* A runner reports success with the artifact stored, and with its log.
PostsAreComplete ==
  \A p \in posts : p.kind = "complete" =>
    /\ p.job \in Uploads => <<p.job, p.run>> \in artifacts
    /\ p.job \in Chatty => LogEnds(p.job, p.run)
RunnersFlush ==
  \A r \in Runners : runner[r].pc = "uploading" /\ runner[r].job \in Chatty =>
    LogEnds(runner[r].job, runner[r].run)

IInv ==
  /\ TypeOK /\ Busy
  /\ RefreshKnows /\ EndedPipelineRests /\ SuccessIsComplete /\ NeedsAreMet
  /\ ExpiredKnows /\ WaitingIsClaimable
  /\ RunnerKnows /\ PostsKnow /\ LogKnows /\ ResultIsOfLastRun /\ LogIsOfItsRun
  /\ HeldKnows /\ WriterKnows /\ TracesKnow /\ RunnersFlush
  /\ PostsAreComplete /\ SuccessHasArtifact
-----------------------------------------------------------------------------
\* What a step does to the row of a job.

\* The row of a job after the step; the lease is left open.
Becomes(j, status, ready, attempts, max, owner) ==
  /\ job'[j].status = status /\ job'[j].ready = ready
  /\ job'[j].attempts = attempts /\ job'[j].max = max /\ job'[j].owner = owner
SameRun(j) == runs'[j] = runs[j] /\ verdict'[j] = verdict[j]

Stays(j) == job'[j] = job[j] /\ SameRun(j)
Ends(j) ==
  /\ job[j].status \in Live /\ SameRun(j)
  /\ Becomes(j, "canceled", job[j].ready, job[j].attempts, job[j].max, NoRunner)
GetsReady(j) ==
  /\ \A n \in Needs[j] : job[n].status = "succeeded"
  /\ Becomes(j, job[j].status, TRUE, job[j].attempts, job[j].max, job[j].owner)
  /\ SameRun(j)
Restarts(j) ==
  /\ job'[j].ready => Needs[j] = {}
  /\ Becomes(j, "pending", job'[j].ready, job[j].attempts, job[j].attempts + Tries,
             NoRunner)
  /\ runs'[j] = runs[j] /\ verdict'[j] = NoRun
  /\ count'.retries = count.retries + 1
Skips(j) ==
  /\ j \in Noop /\ job[j].status = "pending" /\ job[j].ready
  /\ Becomes(j, "succeeded", job[j].ready, job[j].attempts + 1, job[j].max,
             job[j].owner)
  /\ SameRun(j)
LosesLease(j) ==
  /\ job[j].status = "running" /\ SameRun(j)
  /\ Becomes(j, "running", job[j].ready, job[j].attempts, job[j].max, job[j].owner)
Expires(j) ==
  \E e \in expired :
    /\ e.job = j /\ job[j].status = "running" /\ job[j].attempts = e.attempts
    /\ Becomes(j, IF e.spent THEN "failed" ELSE "pending", TRUE, job[j].attempts,
               job[j].max, NoRunner)
    /\ SameRun(j)
Starts(j) ==
  \E r \in Runners :
    /\ runner[r].pc = "claiming" /\ runner[r].job = j /\ Ready(j)
    /\ Becomes(j, "running", job[j].ready, job[j].attempts + 1, job[j].max, r)
    /\ runs'[j] = runs[j] + 1 /\ verdict'[j] = verdict[j]
Finishes(j) ==
  \E p \in posts :
    /\ p.job = j /\ p.kind \in {"complete", "fail"}
    /\ HoldsLease(j, p.attempt, p.runner)
    /\ Becomes(j, IF p.kind = "complete" THEN "succeeded" ELSE "failed",
               job[j].ready, job[j].attempts, job[j].max, NoRunner)
    /\ runs'[j] = runs[j] /\ verdict'[j] = p.run

JobMove(j) ==
  \/ Stays(j) \/ Ends(j) \/ GetsReady(j) \/ Restarts(j) \/ Skips(j) \/ LosesLease(j)
  \/ Expires(j) \/ Starts(j) \/ Finishes(j)

\* All rows keep their types, and each makes one of these moves.
RowTypes ==
  job' \in [Jobs -> JobRows] /\ runs' \in [Jobs -> Nat] /\ verdict' \in [Jobs -> Nat]
JobMoves == RowTypes /\ \A j \in Jobs : JobMove(j)

LEMMA Statuses ==
  /\ "pending" \in Live \cup Settled /\ "running" \in Live \cup Settled
  /\ "succeeded" \in Live \cup Settled /\ "failed" \in Live \cup Settled
  /\ "canceled" \in Live \cup Settled
BY DEF Live, Settled

LEMMA FreeRow ==
  ASSUME NEW s \in JobRows
  PROVE  /\ Free(s) \in JobRows /\ Free(s).status = s.status /\ Free(s).ready = s.ready
         /\ Free(s).attempts = s.attempts /\ Free(s).max = s.max
         /\ Free(s).owner = NoRunner
BY DEF Free, JobRows

LEMMA StatusRow ==
  ASSUME NEW s \in JobRows, NEW status \in Live \cup Settled
  PROVE  LET t == [s EXCEPT !.status = status] IN
         /\ t \in JobRows /\ t.status = status /\ t.ready = s.ready
         /\ t.attempts = s.attempts /\ t.max = s.max /\ t.owner = s.owner
BY DEF JobRows

LEMMA CanceledRow ==
  ASSUME NEW s \in JobRows
  PROVE  /\ Canceled(s) \in JobRows /\ Canceled(s).status = "canceled"
         /\ Canceled(s).ready = s.ready /\ Canceled(s).attempts = s.attempts
         /\ Canceled(s).max = s.max /\ Canceled(s).owner = NoRunner
BY FreeRow, StatusRow, Statuses DEF Canceled

LEMMA ResetRow ==
  ASSUME NEW s \in JobRows, NEW ready \in BOOLEAN
  PROVE  /\ Reset(s, ready) \in JobRows /\ Reset(s, ready).status = "pending"
         /\ Reset(s, ready).ready = ready /\ Reset(s, ready).attempts = s.attempts
         /\ Reset(s, ready).max = s.attempts + Tries
         /\ Reset(s, ready).owner = NoRunner
<1>1. s.attempts + Tries \in Nat
  BY CiAssumption DEF JobRows
<1>2. \A t \in JobRows : LET u == [t EXCEPT !.status = "pending", !.ready = ready,
                                            !.max = s.attempts + Tries] IN
        /\ u \in JobRows /\ u.status = "pending" /\ u.ready = ready
        /\ u.attempts = t.attempts /\ u.max = s.attempts + Tries /\ u.owner = t.owner
  BY <1>1, Statuses DEF JobRows
<1>3. QED
  BY <1>2, FreeRow DEF Reset

LEMMA ReadyRow ==
  ASSUME NEW s \in JobRows
  PROVE  LET t == [s EXCEPT !.ready = TRUE] IN
         /\ t \in JobRows /\ t.status = s.status /\ t.ready = TRUE
         /\ t.attempts = s.attempts /\ t.max = s.max /\ t.owner = s.owner
BY DEF JobRows

LEMMA LeaseRow ==
  ASSUME NEW s \in JobRows
  PROVE  LET t == [s EXCEPT !.live = FALSE] IN
         /\ t \in JobRows /\ t.status = s.status /\ t.ready = s.ready
         /\ t.attempts = s.attempts /\ t.max = s.max /\ t.owner = s.owner
BY DEF JobRows

LEMMA SkippedRow ==
  ASSUME NEW s \in JobRows, NEW n \in Nat
  PROVE  LET t == [s EXCEPT !.status = "succeeded", !.attempts = n] IN
         /\ t \in JobRows /\ t.status = "succeeded" /\ t.ready = s.ready
         /\ t.attempts = n /\ t.max = s.max /\ t.owner = s.owner
BY Statuses DEF JobRows

LEMMA ExpiredRow ==
  ASSUME NEW s \in JobRows, NEW status \in {"failed", "pending"}
  PROVE  LET t == [Free(s) EXCEPT !.ready = TRUE, !.status = status] IN
         /\ t \in JobRows /\ t.status = status /\ t.ready = TRUE
         /\ t.attempts = s.attempts /\ t.max = s.max /\ t.owner = NoRunner
<1>1. \A u \in JobRows : LET t == [u EXCEPT !.ready = TRUE, !.status = status] IN
         /\ t \in JobRows /\ t.status = status /\ t.ready = TRUE
         /\ t.attempts = u.attempts /\ t.max = u.max /\ t.owner = u.owner
  BY Statuses DEF JobRows
<1>2. QED
  BY <1>1, FreeRow

LEMMA JobFields ==
  ASSUME TypeOK, NEW j \in Jobs
  PROVE  /\ job[j] \in JobRows
         /\ job[j].status \in Live \cup Settled /\ job[j].ready \in BOOLEAN
         /\ job[j].attempts \in Nat /\ job[j].max \in Nat
         /\ job[j].owner \in Runners \cup {NoRunner} /\ job[j].live \in BOOLEAN
         /\ runs[j] \in Nat /\ verdict[j] \in Nat
BY DEF TypeOK, JobRows

\* One row changes.
LEMMA OneRow ==
  ASSUME TypeOK, NEW j \in Jobs, NEW s \in JobRows, job' = [job EXCEPT ![j] = s]
  PROVE  /\ job' \in [Jobs -> JobRows] /\ job'[j] = s
         /\ \A i \in Jobs \ {j} : job'[i] = job[i]
BY DEF TypeOK

\* No row changes.
Rowless == UNCHANGED <<job, runs, verdict>>

LEMMA RowlessMoves ==
  ASSUME TypeOK, Rowless
  PROVE  JobMoves
BY DEF TypeOK, Rowless, JobMoves, RowTypes, JobMove, Stays, SameRun

-----------------------------------------------------------------------------
\* The moves of the actions that change rows.

LEMMA MovesOne ==
  ASSUME TypeOK, NEW j \in Jobs, NEW s \in JobRows,
         job' = [job EXCEPT ![j] = s], UNCHANGED <<runs, verdict>>, JobMove(j)
  PROVE  JobMoves
<1>1. \A i \in Jobs \ {j} : Stays(i)
  BY OneRow DEF Stays, SameRun
<1>2. \A i \in Jobs : JobMove(i)
  BY <1>1 DEF JobMove
<1>3. RowTypes
  BY OneRow DEF RowTypes, TypeOK
<1>4. QED
  BY <1>2, <1>3 DEF JobMoves

LEMMA CancelJobMoves ==
  ASSUME TypeOK, NEW j \in Jobs, CancelJob(j)
  PROVE  JobMoves
<1>1. /\ job' = [job EXCEPT ![j] = Canceled(job[j])] /\ job[j].status \in Live
      /\ UNCHANGED <<runs, verdict>>
  BY DEF CancelJob
<1>2. Canceled(job[j]) \in JobRows
  BY JobFields, CanceledRow
<1>3. Ends(j)
  BY <1>1, <1>2, JobFields, OneRow, CanceledRow DEF Ends, Becomes, SameRun
<1>4. QED
  BY <1>1, <1>2, <1>3, MovesOne DEF JobMove

LEMMA DueMoves ==
  ASSUME TypeOK, NEW j \in Jobs, Due(j)
  PROVE  JobMoves
<1> DEFINE s == [job[j] EXCEPT !.ready = TRUE]
<1>1. job' = [job EXCEPT ![j] = s] /\ j \in Manual /\ UNCHANGED <<runs, verdict>>
  BY DEF Due
<1>2. s \in JobRows
  BY JobFields, ReadyRow
<1>3. Needs[j] = {}
  BY <1>1, CiAssumption
<1>4. Becomes(j, job[j].status, TRUE, job[j].attempts, job[j].max, job[j].owner)
  <2>1. job'[j] = s
    BY <1>1, <1>2, OneRow
  <2>2. QED
    BY <2>1, JobFields, ReadyRow DEF Becomes
<1>5. GetsReady(j)
  BY <1>1, <1>3, <1>4 DEF GetsReady, SameRun
<1>6. QED
  BY <1>1, <1>2, <1>5, MovesOne DEF JobMove

LEMMA NoopMoves ==
  ASSUME TypeOK, NEW j \in Jobs, CompleteNoop(j)
  PROVE  JobMoves
<1> DEFINE s == [job[j] EXCEPT !.status = "succeeded", !.attempts = job[j].attempts + 1]
<1>1. /\ job' = [job EXCEPT ![j] = s] /\ UNCHANGED <<runs, verdict>>
      /\ j \in Noop /\ job[j].status = "pending" /\ job[j].ready
  BY DEF CompleteNoop
<1>2. /\ s \in JobRows /\ s.status = "succeeded" /\ s.ready = job[j].ready
      /\ s.attempts = job[j].attempts + 1 /\ s.max = job[j].max
      /\ s.owner = job[j].owner
  <2>1. job[j] \in JobRows /\ job[j].attempts + 1 \in Nat
    BY JobFields
  <2>2. QED
    BY <2>1, SkippedRow
<1> HIDE DEF s
<1>3. Becomes(j, "succeeded", job[j].ready, job[j].attempts + 1, job[j].max,
              job[j].owner)
  BY <1>1, <1>2, OneRow DEF Becomes
<1>4. Skips(j)
  BY <1>1, <1>3 DEF Skips, SameRun
<1>5. QED
  BY <1>1, <1>2, <1>4, MovesOne DEF JobMove

LEMMA LeaseMoves ==
  ASSUME TypeOK, NEW j \in Jobs, LeaseExpires(j)
  PROVE  JobMoves
<1> DEFINE s == [job[j] EXCEPT !.live = FALSE]
<1>1. /\ job' = [job EXCEPT ![j] = s] /\ UNCHANGED <<runs, verdict>>
      /\ job[j].status = "running"
  BY DEF LeaseExpires
<1>2. s \in JobRows
  BY JobFields, LeaseRow
<1>3. Becomes(j, "running", job[j].ready, job[j].attempts, job[j].max, job[j].owner)
  <2>1. job'[j] = s
    BY <1>1, <1>2, OneRow
  <2>2. QED
    BY <1>1, <2>1, JobFields, LeaseRow DEF Becomes
<1>4. LosesLease(j)
  BY <1>1, <1>3 DEF LosesLease, SameRun
<1>5. QED
  BY <1>1, <1>2, <1>4, MovesOne DEF JobMove

LEMMA TickMoves ==
  ASSUME TypeOK, NEW e \in expired, TickExpire(e)
  PROVE  JobMoves
<1>1. CASE ~StillExpired(e)
  BY <1>1, RowlessMoves DEF TickExpire, Rowless
<1>2. CASE StillExpired(e)
  <2> DEFINE j == e.job
             status == IF e.spent THEN "failed" ELSE "pending"
             s == [Free(job[j]) EXCEPT !.ready = TRUE, !.status = status]
  <2>1. j \in Jobs /\ status \in {"failed", "pending"}
    BY DEF TypeOK, Reads
  <2>2. job' = [job EXCEPT ![j] = s] /\ UNCHANGED <<runs, verdict>>
    BY <1>2 DEF TickExpire
  <2>3. job[j].status = "running" /\ job[j].attempts = e.attempts
    BY <1>2 DEF StillExpired
  <2>4. job[j] \in JobRows
    BY <2>1, JobFields
  <2>5. /\ s \in JobRows /\ s.status = status /\ s.ready = TRUE
        /\ s.attempts = job[j].attempts /\ s.max = job[j].max /\ s.owner = NoRunner
    <3> HIDE DEF status
    <3>1. QED
      BY <2>1, <2>4, ExpiredRow
  <2> HIDE DEF s
  <2>6. job'[j] = s
    BY <2>1, <2>2, <2>5, OneRow
  <2>7. Becomes(j, status, TRUE, job[j].attempts, job[j].max, NoRunner)
    BY <2>5, <2>6 DEF Becomes
  <2>8. Expires(j)
    BY <2>2, <2>3, <2>7 DEF Expires, SameRun
  <2>9. QED
    BY <2>1, <2>2, <2>5, <2>8, MovesOne DEF JobMove
<1>3. QED
  BY <1>1, <1>2

\* The claim that goes through.
LEMMA ClaimJobMoves ==
  ASSUME TypeOK, Busy, NEW r \in Runners, ClaimJob(r)
  PROVE  /\ JobMoves /\ runner[r].job \in Jobs /\ runner[r].pc = "claiming"
         /\ runs'[runner[r].job] = runs[runner[r].job] + 1
<1> DEFINE j == runner[r].job
           n == runner[r].attempt + 1
           s == [job[j] EXCEPT !.status = "running", !.owner = r, !.live = TRUE,
                               !.attempts = n]
<1>1. /\ runner[r].pc = "claiming" /\ Claimable(j, runner[r].attempt)
      /\ job' = [job EXCEPT ![j] = s] /\ runs' = [runs EXCEPT ![j] = @ + 1]
      /\ UNCHANGED verdict
  BY DEF ClaimJob
<1>2. j \in Jobs /\ runner[r].attempt \in Nat
  BY <1>1 DEF Busy, TypeOK, RunnerStates
<1>3. Ready(j) /\ n = job[j].attempts + 1 /\ n \in Nat
  BY <1>1, <1>2 DEF Claimable
<1>4. job[j] \in JobRows /\ runs[j] \in Nat
  BY <1>2, JobFields
<1>5. /\ s \in JobRows /\ s.status = "running" /\ s.ready = job[j].ready
      /\ s.attempts = n /\ s.max = job[j].max /\ s.owner = r
  <2> HIDE DEF n, j
  <2>1. QED
    BY <1>3, <1>4, Statuses DEF JobRows
<1> HIDE DEF s
<1>6. job' \in [Jobs -> JobRows] /\ job'[j] = s /\ \A i \in Jobs \ {j} : job'[i] = job[i]
  BY <1>1, <1>2, <1>5, OneRow
<1>7. /\ runs' \in [Jobs -> Nat] /\ runs'[j] = runs[j] + 1
      /\ \A i \in Jobs \ {j} : runs'[i] = runs[i]
  BY <1>1, <1>2, <1>4 DEF TypeOK
<1>8. Becomes(j, "running", job[j].ready, job[j].attempts + 1, job[j].max, r)
  BY <1>3, <1>5, <1>6 DEF Becomes
<1>9. Starts(j)
  BY <1>1, <1>3, <1>7, <1>8 DEF Starts
<1>10. \A i \in Jobs \ {j} : Stays(i)
  BY <1>1, <1>6, <1>7 DEF Stays, SameRun
<1>11. RowTypes
  BY <1>1, <1>6, <1>7 DEF RowTypes, TypeOK
<1>12. QED
  BY <1>1, <1>2, <1>7, <1>9, <1>10, <1>11 DEF JobMoves, JobMove

LEMMA FinishMoves ==
  ASSUME TypeOK, NEW p \in posts, FinishJob(p)
  PROVE  JobMoves
<1>1. CASE ~HoldsLease(p.job, p.attempt, p.runner)
  BY <1>1, RowlessMoves DEF FinishJob, Rowless
<1>2. CASE HoldsLease(p.job, p.attempt, p.runner)
  <2> DEFINE j == p.job
             status == IF p.kind = "complete" THEN "succeeded" ELSE "failed"
             s == [Free(job[j]) EXCEPT !.status = status]
  <2>1. j \in Jobs /\ p.run \in Nat /\ status \in Live \cup Settled
    BY Statuses DEF TypeOK, Posts
  <2>2. /\ job' = [job EXCEPT ![j] = s] /\ verdict' = [verdict EXCEPT ![j] = p.run]
        /\ UNCHANGED runs /\ p.kind \in {"complete", "fail"}
    BY <1>2 DEF FinishJob, Takes
  <2>3. Free(job[j]) \in JobRows /\ job[j] \in JobRows
    BY <2>1, JobFields, FreeRow
  <2>4. s \in JobRows
    BY <2>1, <2>3, StatusRow
  <2>5. job' \in [Jobs -> JobRows] /\ job'[j] = s /\ \A i \in Jobs \ {j} : job'[i] = job[i]
    BY <2>1, <2>2, <2>4, OneRow
  <2>6. /\ verdict' \in [Jobs -> Nat] /\ verdict'[j] = p.run
        /\ \A i \in Jobs \ {j} : verdict'[i] = verdict[i]
    BY <2>1, <2>2 DEF TypeOK
  <2>7. Becomes(j, status, job[j].ready, job[j].attempts, job[j].max, NoRunner)
    BY <2>1, <2>3, <2>5, FreeRow, StatusRow DEF Becomes
  <2>8. Finishes(j)
    BY <1>2, <2>2, <2>6, <2>7 DEF Finishes
  <2>9. \A i \in Jobs \ {j} : Stays(i)
    BY <2>2, <2>5, <2>6 DEF Stays, SameRun
  <2>10. RowTypes
    BY <2>2, <2>5, <2>6 DEF RowTypes, TypeOK
  <2>11. QED
    BY <2>8, <2>9, <2>10 DEF JobMoves, JobMove
<1>3. QED
  BY <1>1, <1>2

-----------------------------------------------------------------------------
\* The moves of the actions on the whole pipeline.

LEMMA CancelMembersMoves ==
  ASSUME TypeOK, CancelMembers, UNCHANGED <<runs, verdict>>
  PROVE  JobMoves /\ \A j \in Members : job'[j].status \in Settled
<1>1. ASSUME NEW j \in Jobs
      PROVE  /\ job'[j] \in JobRows /\ (Stays(j) \/ Ends(j))
             /\ j \in Members => job'[j].status \in Settled
  <2>1. CASE j \in Members /\ job[j].status \in Live
    <3>1. job'[j] = Canceled(job[j])
      BY <2>1 DEF CancelMembers
    <3>2. QED
      BY <2>1, <3>1, JobFields, CanceledRow DEF Ends, Becomes, SameRun, Settled
  <2>2. CASE ~(j \in Members /\ job[j].status \in Live)
    <3>1. job'[j] = job[j]
      BY <2>2 DEF CancelMembers
    <3>2. QED
      BY <2>2, <3>1, JobFields DEF Stays, SameRun
  <2>3. QED
    BY <2>1, <2>2
<1>2. job' \in [Jobs -> JobRows]
  <2>1. job' = [j \in Jobs |-> job'[j]]
    BY DEF CancelMembers
  <2>2. QED
    BY <1>1, <2>1
<1>3. QED
  BY <1>1, <1>2 DEF JobMoves, RowTypes, JobMove, TypeOK, Members

LEMMA CancelPipelineMoves ==
  ASSUME TypeOK, CancelPipeline \/ CancelLate
  PROVE  JobMoves /\ \A j \in Members : job'[j].status \in Settled
BY CancelMembersMoves DEF CancelPipeline, CancelLate

LEMMA RetriesCount ==
  ASSUME TypeOK, Retries
  PROVE  /\ count'.retries = count.retries + 1
         /\ count' \in [retries : 0 .. MaxRetries, cancels : 0 .. MaxCancels]
BY CiAssumption DEF TypeOK, Retries

LEMMA CancelsCount ==
  ASSUME TypeOK, Cancels
  PROVE  /\ count'.retries = count.retries
         /\ count' \in [retries : 0 .. MaxRetries, cancels : 0 .. MaxCancels]
BY CiAssumption DEF TypeOK, Cancels

LEMMA OneRestarts ==
  ASSUME TypeOK, Retries, NEW j \in Jobs, NEW ready \in BOOLEAN,
         ready => Needs[j] = {}, job'[j] = Reset(job[j], ready),
         runs'[j] = runs[j], verdict'[j] = NoRun
  PROVE  job'[j] \in JobRows /\ Restarts(j)
<1>1. job[j] \in JobRows
  BY JobFields
<1>2. QED
  BY <1>1, ResetRow, RetriesCount DEF Restarts, Becomes

LEMMA NoRunIsNat == NoRun \in Nat
BY DEF NoRun

LEMMA RetryPipelineMoves ==
  ASSUME TypeOK, RetryPipeline
  PROVE  JobMoves
<1>1. ASSUME NEW j \in Jobs
      PROVE  job'[j] \in JobRows /\ verdict'[j] \in Nat /\ JobMove(j)
  <2>0. Retries /\ runs'[j] = runs[j]
    BY DEF RetryPipeline
  <2>1. CASE j \in Members
    <3>1. job'[j] = Reset(job[j], FALSE) /\ verdict'[j] = NoRun
      BY <2>1 DEF RetryPipeline
    <3>2. QED
      BY <2>0, <3>1, OneRestarts, NoRunIsNat DEF JobMove
  <2>2. CASE j \notin Members
    <3>1. job'[j] = job[j] /\ verdict'[j] = verdict[j]
      BY <2>2 DEF RetryPipeline
    <3>2. QED
      BY <2>0, <3>1, JobFields DEF JobMove, Stays, SameRun
  <2>3. QED
    BY <2>1, <2>2
<1>2. /\ job' = [j \in Jobs |-> job'[j]] /\ verdict' = [j \in Jobs |-> verdict'[j]]
      /\ runs' = runs
  BY DEF RetryPipeline
<1>3. QED
  BY <1>1, <1>2 DEF JobMoves, RowTypes, TypeOK

\* The members that a retry of one job starts over as well.
Again(j) ==
  {j} \cup (IF j \in Members THEN {i \in Members : job[i].status = "canceled"} ELSE {})

LEMMA RetryJobMoves ==
  ASSUME TypeOK, NEW k \in Jobs, RetryJob(k)
  PROVE  JobMoves /\ \A j \in Jobs \ Again(k) : job'[j] = job[j]
<1>0. /\ Retries /\ UNCHANGED runs
      /\ job' = [i \in Jobs |->
             IF i \in Again(k) THEN Reset(job[i], i = k /\ Needs[k] = {}) ELSE job[i]]
      /\ verdict' = [i \in Jobs |-> IF i \in Again(k) THEN NoRun ELSE verdict[i]]
  BY DEF RetryJob, Again
<1>1. ASSUME NEW j \in Jobs
      PROVE  job'[j] \in JobRows /\ verdict'[j] \in Nat /\ JobMove(j)
  <2>1. CASE j \in Again(k)
    <3>1. /\ job'[j] = Reset(job[j], j = k /\ Needs[k] = {}) /\ verdict'[j] = NoRun
          /\ runs'[j] = runs[j]
      BY <1>0, <2>1
    <3>2. (j = k /\ Needs[k] = {}) \in BOOLEAN
      OBVIOUS
    <3>3. job'[j] \in JobRows /\ Restarts(j)
      <4> DEFINE ready == j = k /\ Needs[k] = {}
      <4>1. ready => Needs[j] = {}
        OBVIOUS
      <4>2. ready \in BOOLEAN /\ job'[j] = Reset(job[j], ready)
        BY <3>1
      <4> HIDE DEF ready
      <4>3. QED
        BY <1>0, <3>1, <4>1, <4>2, OneRestarts
    <3>4. QED
      BY <3>1, <3>3, NoRunIsNat DEF JobMove
  <2>2. CASE j \notin Again(k)
    <3>1. job'[j] = job[j] /\ verdict'[j] = verdict[j] /\ runs'[j] = runs[j]
      BY <1>0, <2>2
    <3>2. QED
      BY <3>1, JobFields DEF JobMove, Stays, SameRun
  <2>3. QED
    BY <2>1, <2>2
<1>2. /\ job' = [j \in Jobs |-> job'[j]] /\ verdict' = [j \in Jobs |-> verdict'[j]]
  BY <1>0
<1>3. \A j \in Jobs \ Again(k) : job'[j] = job[j]
  BY <1>0
<1>4. QED
  BY <1>0, <1>1, <1>2, <1>3 DEF JobMoves, RowTypes, TypeOK

LEMMA CommitMoves ==
  ASSUME TypeOK, RefreshKnows, RefreshCommit
  PROVE  /\ JobMoves
         /\ pipeline' \in Settled => \A j \in Members : job'[j].status \in Settled
         /\ pipeline' = "succeeded" => \A j \in Members : job'[j].status = "succeeded"
<1> DEFINE status == PipelineStatus(refresh.seen)
           ends == status \in {"failed", "canceled"}
           sweeps(j) == j \in Members /\ ends /\ Swept(j)
           releases(j) == j \in Members /\ status \notin Settled /\ Released(j)
<1>1. /\ job' = [j \in Jobs |->
              CASE j \in Members /\ ends /\ Swept(j) -> Canceled(job[j])
                [] j \in Members /\ status \notin Settled /\ Released(j) ->
                     [job[j] EXCEPT !.ready = TRUE]
                [] OTHER -> job[j]]
      /\ pipeline' = status /\ UNCHANGED <<runs, verdict>> /\ refresh.held
  BY DEF RefreshCommit, PipelineLocked
<1>2. \A j \in Members : /\ refresh.seen[j] \in Live \cup Settled
                         /\ refresh.seen[j] \in Settled => job[j].status = refresh.seen[j]
  BY <1>1 DEF RefreshKnows
<1>3. /\ status = "succeeded" => \A j \in Members : refresh.seen[j] = "succeeded"
      /\ status \in {"failed", "canceled", "succeeded", "running", "pending"}
  BY DEF PipelineStatus
<1>4. ends => status # "succeeded" /\ status \in Settled
  BY DEF Settled
<1> HIDE DEF status
<1>5. ASSUME NEW j \in Jobs
      PROVE  /\ job'[j] \in JobRows /\ (Stays(j) \/ Ends(j) \/ GetsReady(j))
             /\ j \in Members /\ pipeline' \in Settled => job'[j].status \in Settled
             /\ j \in Members /\ pipeline' = "succeeded" => job'[j].status = "succeeded"
  <2>0. job[j] \in JobRows /\ job[j].status \in Live \cup Settled
    BY JobFields
  <2>1. CASE sweeps(j)
    <3>1. job'[j] = Canceled(job[j])
      BY <1>1, <1>4, <2>1
    <3>2. QED
      BY <1>1, <1>4, <2>0, <2>1, <3>1, CanceledRow
      DEF Ends, Becomes, SameRun, Settled, Swept
  <2>2. CASE ~sweeps(j) /\ releases(j)
    <3>1. job'[j] = [job[j] EXCEPT !.ready = TRUE]
      BY <1>1, <2>2
    <3>2. Becomes(j, job[j].status, TRUE, job[j].attempts, job[j].max, job[j].owner)
          /\ job'[j] \in JobRows
      BY <2>0, <3>1 DEF JobRows, Becomes
    <3>3. \A n \in Needs[j] : job[n].status = "succeeded"
      BY <1>2, <2>2, CiAssumption DEF Released, Releases, Settled
    <3>4. QED
      BY <1>1, <2>2, <3>2, <3>3 DEF GetsReady, SameRun, Settled
  <2>3. CASE ~sweeps(j) /\ ~releases(j)
    <3>1. job'[j] = job[j]
      BY <1>1, <2>3
    <3>2. Stays(j)
      BY <1>1, <3>1 DEF Stays, SameRun
    <3>3. ASSUME j \in Members, pipeline' \in Settled
          PROVE  job[j].status \in Settled /\ (status = "succeeded" => job[j].status = "succeeded")
      <4>1. CASE status = "succeeded"
        BY <1>2, <1>3, <3>3, <4>1 DEF Settled
      <4>2. CASE status # "succeeded"
        <5>1. ends
          BY <1>1, <3>3, <4>2 DEF Settled
        <5>2. ~Swept(j)
          BY <2>3, <3>3, <5>1
        <5>3. QED
          BY <1>2, <2>0, <3>3, <4>2, <5>2 DEF Swept, Live, Settled
      <4>3. QED
        BY <4>1, <4>2
    <3>4. QED
      BY <1>1, <2>0, <3>1, <3>2, <3>3 DEF Settled
  <2>4. QED
    BY <2>1, <2>2, <2>3
<1>6. job' = [j \in Jobs |-> job'[j]]
  BY <1>1
<1>7. QED
  BY <1>1, <1>5, <1>6 DEF JobMoves, RowTypes, JobMove, TypeOK, Members

-----------------------------------------------------------------------------
\* The steps that leave the rows of jobs and pipeline alone.

QuietRunner(r) ==
  \/ (\E j \in Jobs : ReadReady(r, j)) \/ LoseClaim(r) \/ Start(r) \/ Vanish(r)
  \/ SendTrace(r) \/ Succeed(r) \/ UploadAnswered(r) \/ Fail(r)
QuietStep ==
  \/ RefreshRead \/ RefreshAbort \/ CancelSettled
  \/ \E r \in Runners : RemoveRunner(r) \/ QuietRunner(r)
  \/ \E j \in Jobs : TickRead(j)
  \/ \E p \in posts : AppendTrace(p) \/ AddArtifact(p)
  \/ UNCHANGED vars

LEMMA QuietIsRowless ==
  ASSUME QuietStep
  PROVE  Rowless /\ pipeline' = pipeline /\ count'.retries = count.retries
<1>1. CASE RefreshRead \/ RefreshAbort
  BY <1>1 DEF RefreshRead, RefreshAbort, Rowless, rows
<1>2. CASE CancelSettled
  <2>1. count'.retries = count.retries
    BY <1>2 DEF CancelSettled, Cancels
  <2>2. QED
    BY <1>2, <2>1 DEF CancelSettled, Rowless, rows
<1>3. ASSUME NEW r \in Runners, RemoveRunner(r)
      PROVE  Rowless /\ pipeline' = pipeline /\ count' = count
  BY <1>3 DEF RemoveRunner, Rowless, rows
<1>4. ASSUME NEW r \in Runners, QuietRunner(r)
      PROVE  Rowless /\ pipeline' = pipeline /\ count' = count
  BY <1>4 DEF QuietRunner, ReadReady, LoseClaim, Start, Vanish, SendTrace, Succeed,
              UploadAnswered, Fail, Rowless, rows
<1>5. ASSUME NEW j \in Jobs, TickRead(j)
      PROVE  Rowless /\ pipeline' = pipeline /\ count' = count
  BY <1>5 DEF TickRead, Rowless, rows
<1>6. ASSUME NEW p \in posts, AppendTrace(p) \/ AddArtifact(p)
      PROVE  Rowless /\ pipeline' = pipeline /\ count' = count
  BY <1>6 DEF AppendTrace, AddArtifact, Rowless, rows
<1>7. CASE UNCHANGED vars
  BY <1>7 DEF vars, Rowless, rows
<1>8. QED
  BY <1>1, <1>2, <1>3, <1>4, <1>5, <1>6, <1>7 DEF QuietStep

\* The steps that change one row, and nothing of the pipeline.
JobOnly ==
  \/ \E j \in Jobs : CancelJob(j) \/ Due(j) \/ CompleteNoop(j) \/ LeaseExpires(j)
  \/ \E e \in expired : TickExpire(e)
  \/ \E r \in Runners : ClaimJob(r)
  \/ \E p \in posts : FinishJob(p)

LEMMA NextCases ==
  ASSUME [Next]_vars
  PROVE  \/ QuietStep \/ JobOnly \/ RefreshCommit \/ CancelPipeline \/ CancelLate
         \/ RetryPipeline \/ \E j \in Jobs : RetryJob(j)
<1>1. CASE UserNext
  BY <1>1 DEF UserNext, QuietStep, JobOnly
<1>2. CASE TickNext
  BY <1>2 DEF TickNext, QuietStep, JobOnly
<1>3. CASE RunnerNext
  BY <1>3 DEF RunnerNext, Claim, Execute, QuietStep, QuietRunner, JobOnly
<1>4. CASE PostNext
  BY <1>4 DEF PostNext, QuietStep, JobOnly
<1>5. CASE UNCHANGED vars
  BY <1>5 DEF QuietStep
<1>6. QED
  BY <1>1, <1>2, <1>3, <1>4, <1>5 DEF Next

LEMMA JobOnlyMoves ==
  ASSUME TypeOK, Busy, JobOnly
  PROVE  /\ JobMoves /\ pipeline' = pipeline /\ refresh' = refresh
         /\ count'.retries = count.retries
<1>1. JobMoves
  BY CancelJobMoves, DueMoves, NoopMoves, LeaseMoves, TickMoves, ClaimJobMoves,
     FinishMoves DEF JobOnly
<1>2. pipeline' = pipeline /\ refresh' = refresh
  BY DEF JobOnly, CancelJob, Due, CompleteNoop, LeaseExpires, TickExpire, ClaimJob,
         FinishJob, server
<1>3. ASSUME NEW j \in Jobs, CancelJob(j)
      PROVE  count'.retries = count.retries
  BY <1>3, CancelsCount DEF CancelJob
<1>4. ASSUME NEW j \in Jobs, Due(j) \/ CompleteNoop(j) \/ LeaseExpires(j)
      PROVE  count' = count
  BY <1>4 DEF Due, CompleteNoop, LeaseExpires
<1>5. ASSUME NEW e \in expired, TickExpire(e)
      PROVE  count' = count
  BY <1>5 DEF TickExpire
<1>6. ASSUME NEW r \in Runners, ClaimJob(r)
      PROVE  count' = count
  BY <1>6 DEF ClaimJob
<1>7. ASSUME NEW p \in posts, FinishJob(p)
      PROVE  count' = count
  BY <1>7 DEF FinishJob
<1>8. QED
  BY <1>1, <1>2, <1>3, <1>4, <1>5, <1>6, <1>7 DEF JobOnly

LEMMA JobsMove ==
  ASSUME TypeOK, Busy, RefreshKnows, [Next]_vars
  PROVE  JobMoves
BY NextCases, QuietIsRowless, RowlessMoves, JobOnlyMoves, CommitMoves,
   CancelPipelineMoves, RetryPipelineMoves, RetryJobMoves

-----------------------------------------------------------------------------
\* What a step does to the pipeline and to its refresh.

\* No member that has come to its end is started over.
Undisturbed ==
  \A j \in Members : job[j].status \in Settled => job'[j].status = job[j].status
LooksAtJobs ==
  /\ refresh'.held /\ pipeline \notin Settled
  /\ \A j \in Members : refresh'.seen[j] = job[j].status /\ job'[j] = job[j]
Goes == pipeline' = pipeline /\ Undisturbed
        /\ (refresh' = refresh \/ refresh' = NoRefresh \/ LooksAtJobs)
Concludes ==
  /\ refresh' = NoRefresh
  /\ pipeline' \in Settled => \A j \in Members : job'[j].status \in Settled
  /\ pipeline' = "succeeded" => \A j \in Members : job'[j].status = "succeeded"
IsCanceled ==
  /\ refresh' = refresh /\ ~refresh.held /\ pipeline' = "canceled"
  /\ \A j \in Members : job'[j].status \in Settled
Reopens == refresh' = refresh /\ ~refresh.held /\ pipeline' \notin Settled
PipelineMove == Goes \/ Concludes \/ IsCanceled \/ Reopens

LEMMA SettledMoves ==
  ASSUME TypeOK, NEW j \in Jobs, JobMove(j), job[j].status \in Settled
  PROVE  Stays(j) \/ GetsReady(j) \/ Restarts(j)
BY DEF JobMove, Ends, Skips, LosesLease, Expires, Starts, Finishes, Ready, HoldsLease,
       Live, Settled

LEMMA CountIsNumber ==
  ASSUME TypeOK
  PROVE  count.retries \in Nat
BY CiAssumption DEF TypeOK

LEMMA NoRetryNoRestart ==
  ASSUME TypeOK, JobMoves, count'.retries = count.retries
  PROVE  Undisturbed
<1>1. ASSUME NEW j \in Jobs, job[j].status \in Settled
      PROVE  job'[j].status = job[j].status
  <2>1. ~Restarts(j)
    BY CountIsNumber DEF Restarts
  <2>2. JobMove(j)
    BY DEF JobMoves
  <2>3. Stays(j) \/ GetsReady(j)
    BY <1>1, <2>1, <2>2, SettledMoves
  <2>4. QED
    BY <2>3 DEF Stays, GetsReady, Becomes
<1>2. QED
  BY <1>1 DEF Undisturbed, Members

LEMMA QuietRefresh ==
  ASSUME TypeOK, QuietStep
  PROVE  refresh' = refresh \/ refresh' = NoRefresh \/ LooksAtJobs
<1>1. CASE RefreshRead
  BY <1>1 DEF RefreshRead, View, LooksAtJobs, rows
<1>2. CASE RefreshAbort
  BY <1>2 DEF RefreshAbort
<1>3. CASE CancelSettled
  BY <1>3 DEF CancelSettled
<1>4. ASSUME NEW r \in Runners, RemoveRunner(r)
      PROVE  refresh' = refresh
  BY <1>4 DEF RemoveRunner
<1>5. ASSUME NEW r \in Runners, QuietRunner(r)
      PROVE  refresh' = refresh
  BY <1>5 DEF QuietRunner, ReadReady, LoseClaim, Start, Vanish, SendTrace, Succeed,
              UploadAnswered, Fail, server
<1>6. ASSUME NEW j \in Jobs, TickRead(j)
      PROVE  refresh' = refresh
  BY <1>6 DEF TickRead
<1>7. ASSUME NEW p \in posts, AppendTrace(p) \/ AddArtifact(p)
      PROVE  refresh' = refresh
  BY <1>7 DEF AppendTrace, AddArtifact, server
<1>8. CASE UNCHANGED vars
  BY <1>8 DEF vars, server
<1>9. QED
  BY <1>1, <1>2, <1>3, <1>4, <1>5, <1>6, <1>7, <1>8 DEF QuietStep

LEMMA PipelineMoves ==
  ASSUME TypeOK, Busy, RefreshKnows, [Next]_vars
  PROVE  PipelineMove
<1>1. CASE QuietStep
  <2>1. Goes
    BY <1>1, QuietIsRowless, QuietRefresh, RowlessMoves, NoRetryNoRestart DEF Goes
  <2>2. QED
    BY <2>1 DEF PipelineMove
<1>2. CASE JobOnly
  <2>1. Goes
    BY <1>2, JobOnlyMoves, NoRetryNoRestart DEF Goes
  <2>2. QED
    BY <2>1 DEF PipelineMove
<1>3. CASE RefreshCommit
  BY <1>3, CommitMoves DEF PipelineMove, Concludes, RefreshCommit
<1>4. CASE CancelPipeline
  BY <1>4, CancelPipelineMoves
  DEF PipelineMove, IsCanceled, CancelPipeline, PipelineLocked, server
<1>5. CASE CancelLate
  <2>1. JobMoves /\ count' = count /\ pipeline' = pipeline /\ refresh' = refresh
    BY <1>5, CancelPipelineMoves DEF CancelLate
  <2>2. QED
    BY <2>1, NoRetryNoRestart DEF PipelineMove, Goes
<1>6. CASE RetryPipeline
  BY <1>6 DEF RetryPipeline, PipelineMove, Reopens, PipelineLocked, server, Settled
<1>7. ASSUME NEW k \in Jobs, RetryJob(k)
      PROVE  PipelineMove
  <2>1. CASE k \in Members
    BY <1>7, <2>1 DEF RetryJob, PipelineMove, Reopens, PipelineLocked, server, Settled
  <2>2. CASE k \notin Members
    <3>1. pipeline' = pipeline /\ refresh' = refresh
      BY <1>7, <2>2 DEF RetryJob, server
    <3>2. \A j \in Members : job'[j] = job[j]
      BY <1>7, <2>2, RetryJobMoves DEF Again, Members
    <3>3. QED
      BY <3>1, <3>2 DEF PipelineMove, Goes, Undisturbed
  <2>3. QED
    BY <2>1, <2>2
<1>8. QED
  BY <1>1, <1>2, <1>3, <1>4, <1>5, <1>6, <1>7, NextCases

-----------------------------------------------------------------------------
\* What a step does to runners, posts, logs, artifacts and old reads.

Working == {"claimed", "executing", "flushing", "uploading"}
Writing == {"claimed", "executing"}

Keeps(r) == runner'[r] = runner[r]
Idles(r) == runner'[r].pc = "idle"
Looks(r) == runner'[r].pc = "claiming" /\ runner'[r].job \in Jobs
Wins(r) ==
  /\ runner[r].pc = "claiming" /\ runner'[r].pc = "claimed"
  /\ runner[r].job \in Jobs /\ runner'[r].job = runner[r].job
  /\ runner'[r].run = runs'[runner[r].job]
  /\ runs'[runner[r].job] = runs[runner[r].job] + 1
Works(r) ==
  /\ runner[r].pc \in Working /\ runner'[r].pc \in Working
  /\ runner'[r].job = runner[r].job /\ runner'[r].run = runner[r].run
  /\ runner'[r].pc \in Writing => runner[r].pc \in Writing
  /\ runner'[r].pc = "uploading" /\ runner[r].job \in Chatty =>
       LogEnds(runner[r].job, runner[r].run)
RunnerMove(r) == Keeps(r) \/ Idles(r) \/ Looks(r) \/ Wins(r) \/ Works(r)

RunnerMoves ==
  runner' \in [Runners -> RunnerStates] /\ \A r \in Runners : RunnerMove(r)

LEMMA RunnerFields ==
  ASSUME TypeOK, NEW r \in Runners
  PROVE  /\ runner[r] \in RunnerStates
         /\ runner[r].pc \in {"idle", "claiming"} \cup Working
         /\ runner[r].job \in Jobs \cup {"none"} /\ runner[r].attempt \in Nat
         /\ runner[r].run \in Nat
BY DEF TypeOK, RunnerStates, Working

LEMMA OneRunner ==
  ASSUME TypeOK, NEW r \in Runners, NEW s \in RunnerStates,
         runner' = [runner EXCEPT ![r] = s], RunnerMove(r)
  PROVE  RunnerMoves
<1>1. runner' \in [Runners -> RunnerStates]
  BY DEF TypeOK
<1>2. \A q \in Runners : q # r => runner'[q] = runner[q]
  BY DEF TypeOK
<1>3. QED
  BY <1>1, <1>2 DEF RunnerMoves, RunnerMove, Keeps

LEMMA StillRunners ==
  ASSUME TypeOK, runner' = runner
  PROVE  RunnerMoves
BY DEF TypeOK, RunnerMoves, RunnerMove, Keeps

LEMMA RestsMoves ==
  ASSUME TypeOK, NEW r \in Runners, Rests(r)
  PROVE  RunnerMoves
<1>1. IdleRunner \in RunnerStates /\ IdleRunner.pc = "idle"
  BY DEF IdleRunner, RunnerStates, NoRun
<1>2. runner' = [runner EXCEPT ![r] = IdleRunner]
  BY DEF Rests
<1>3. runner'[r] = IdleRunner
  BY <1>2 DEF TypeOK
<1>4. QED
  BY <1>1, <1>2, <1>3, OneRunner DEF RunnerMove, Idles

LEMMA ReadReadyMoves ==
  ASSUME TypeOK, NEW r \in Runners, NEW j \in Jobs, ReadReady(r, j)
  PROVE  RunnerMoves
<1> DEFINE s == [pc |-> "claiming", job |-> j, attempt |-> job[j].attempts, run |-> NoRun]
<1>1. s \in RunnerStates /\ s.pc = "claiming" /\ s.job = j
  BY JobFields DEF RunnerStates, NoRun
<1>2. runner' = [runner EXCEPT ![r] = s]
  BY DEF ReadReady
<1> HIDE DEF s
<1>3. runner'[r] = s
  BY <1>2 DEF TypeOK
<1>4. QED
  BY <1>1, <1>2, <1>3, OneRunner DEF RunnerMove, Looks

LEMMA ClaimRunnerMoves ==
  ASSUME TypeOK, Busy, NEW r \in Runners, ClaimJob(r)
  PROVE  RunnerMoves
<1> DEFINE n == runs[runner[r].job] + 1
           s == [runner[r] EXCEPT !.pc = "claimed", !.run = n]
<1>1. /\ runner[r].job \in Jobs /\ runner[r].pc = "claiming"
      /\ runs'[runner[r].job] = n /\ runs'[runner[r].job] = runs[runner[r].job] + 1
  BY ClaimJobMoves
<1>2. n \in Nat /\ runner[r] \in RunnerStates
  BY <1>1, JobFields, RunnerFields
<1>3. runner' = [runner EXCEPT ![r] = s]
  BY DEF ClaimJob, TypeOK
<1> HIDE DEF n
<1>4. s \in RunnerStates /\ s.pc = "claimed" /\ s.job = runner[r].job /\ s.run = n
  BY <1>2 DEF RunnerStates
<1> HIDE DEF s
<1>5. runner'[r] = s
  BY <1>3 DEF TypeOK
<1>6. Wins(r)
  BY <1>1, <1>4, <1>5 DEF Wins
<1>7. QED
  BY <1>3, <1>4, <1>6, OneRunner DEF RunnerMove

LEMMA StartMoves ==
  ASSUME TypeOK, Busy, NEW r \in Runners, Start(r)
  PROVE  RunnerMoves
<1> DEFINE n == job[runner[r].job].attempts
           s == [runner[r] EXCEPT !.pc = "executing", !.attempt = n]
<1>1. runner[r].pc = "claimed" /\ runner[r].job \in Jobs
  BY DEF Start, Busy
<1>2. n \in Nat /\ runner[r] \in RunnerStates
  BY <1>1, JobFields, RunnerFields
<1>3. runner' = [runner EXCEPT ![r] = s]
  BY DEF Start, TypeOK
<1> HIDE DEF n
<1>4. s \in RunnerStates /\ s.pc = "executing" /\ s.job = runner[r].job
      /\ s.run = runner[r].run
  BY <1>2 DEF RunnerStates
<1> HIDE DEF s
<1>5. runner'[r] = s
  BY <1>3 DEF TypeOK
<1>6. Works(r)
  BY <1>1, <1>4, <1>5 DEF Works, Working, Writing
<1>7. QED
  BY <1>3, <1>4, <1>6, OneRunner DEF RunnerMove

LEMMA SendTraceMoves ==
  ASSUME TypeOK, NEW r \in Runners, SendTrace(r)
  PROVE  RunnerMoves
<1> DEFINE s == [runner[r] EXCEPT !.pc = "flushing"]
<1>1. CASE UNCHANGED runner
  BY <1>1, StillRunners
<1>2. CASE runner' = [runner EXCEPT ![r].pc = "flushing"]
  <2>1. runner' = [runner EXCEPT ![r] = s] /\ runner[r].pc = "executing"
    BY <1>2 DEF SendTrace, TypeOK
  <2>2. s \in RunnerStates /\ s.pc = "flushing" /\ s.job = runner[r].job
        /\ s.run = runner[r].run
    BY RunnerFields DEF RunnerStates
  <2> HIDE DEF s
  <2>3. runner'[r] = s
    BY <2>1 DEF TypeOK
  <2>4. Works(r)
    BY <2>1, <2>2, <2>3 DEF Works, Working, Writing
  <2>5. QED
    BY <2>1, <2>2, <2>4, OneRunner DEF RunnerMove
<1>3. QED
  BY <1>1, <1>2 DEF SendTrace

LEMMA SucceedMoves ==
  ASSUME TypeOK, NEW r \in Runners, Succeed(r)
  PROVE  RunnerMoves
<1>1. CASE runner[r].job \notin Uploads
  BY <1>1, RestsMoves DEF Succeed, Reports
<1>2. CASE runner[r].job \in Uploads
  <2> DEFINE s == [runner[r] EXCEPT !.pc = "uploading"]
  <2>1. /\ runner' = [runner EXCEPT ![r] = s]
        /\ runner[r].pc \in {"executing", "flushing"}
        /\ runner[r].job \in Chatty => LogEnds(runner[r].job, runner[r].run)
    BY <1>2 DEF Succeed, Flushed, TypeOK
  <2>2. s \in RunnerStates /\ s.pc = "uploading" /\ s.job = runner[r].job
        /\ s.run = runner[r].run
    BY RunnerFields DEF RunnerStates
  <2> HIDE DEF s
  <2>3. runner'[r] = s
    BY <2>1 DEF TypeOK
  <2>4. Works(r)
    BY <2>1, <2>2, <2>3 DEF Works, Working, Writing
  <2>5. QED
    BY <2>1, <2>2, <2>4, OneRunner DEF RunnerMove
<1>3. QED
  BY <1>1, <1>2

LEMMA RunnersMove ==
  ASSUME TypeOK, Busy, [Next]_vars
  PROVE  RunnerMoves
<1>1. ASSUME NEW r \in Runners, QuietRunner(r)
      PROVE  RunnerMoves
  <2>1. CASE LoseClaim(r) \/ Vanish(r) \/ UploadAnswered(r) \/ Fail(r)
    BY <2>1, RestsMoves DEF LoseClaim, Vanish, UploadAnswered, Fail, Reports
  <2>2. QED
    BY <1>1, <2>1, ReadReadyMoves, StartMoves, SendTraceMoves, SucceedMoves
    DEF QuietRunner
<1>2. ASSUME NEW r \in Runners, RemoveRunner(r)
      PROVE  RunnerMoves
  BY <1>2, StillRunners DEF RemoveRunner
<1>3. ASSUME NEW p \in posts, AppendTrace(p) \/ AddArtifact(p) \/ FinishJob(p)
      PROVE  RunnerMoves
  BY <1>3, StillRunners DEF AppendTrace, AddArtifact, FinishJob
<1>4. ASSUME NEW j \in Jobs,
             \/ TickRead(j) \/ CancelJob(j) \/ Due(j) \/ CompleteNoop(j)
             \/ LeaseExpires(j) \/ RetryJob(j)
      PROVE  RunnerMoves
  BY <1>4, StillRunners DEF TickRead, CancelJob, Due, CompleteNoop, LeaseExpires,
                              RetryJob
<1>5. ASSUME NEW e \in expired, TickExpire(e)
      PROVE  RunnerMoves
  BY <1>5, StillRunners DEF TickExpire
<1>6. CASE \/ RefreshRead \/ RefreshAbort \/ CancelSettled \/ RefreshCommit
           \/ CancelPipeline \/ CancelLate \/ RetryPipeline \/ UNCHANGED vars
  BY <1>6, StillRunners DEF RefreshRead, RefreshAbort, CancelSettled, RefreshCommit,
                   CancelPipeline, CancelLate, RetryPipeline, vars
<1>7. QED
  BY <1>1, <1>2, <1>3, <1>4, <1>5, <1>6, ClaimRunnerMoves, NextCases
  DEF QuietStep, JobOnly

\* A post that this step has sent: its runner holds the lease.
Sent(p) ==
  /\ p \in Posts /\ Rowless
  /\ runner[p.runner].pc \in Working /\ p.job = runner[p.runner].job
  /\ p.run = runner[p.runner].run
  /\ HoldsLease(p.job, p.attempt, p.runner)
  /\ p.kind = "complete" => /\ p.job \in Uploads => <<p.job, p.run>> \in artifacts
                            /\ p.job \in Chatty => LogEnds(p.job, p.run)
  /\ p.kind = "trace" => runner'[p.runner].pc = "executing"
  /\ p.kind = "final" => runner'[p.runner].pc = "flushing"
  /\ p.kind \in {"trace", "final"} => /\ runner[p.runner].pc = "executing"
                                      /\ [p EXCEPT !.kind = "trace"] \notin posts
PostMoves ==
  /\ \A p \in posts' : p \in posts \/ Sent(p)
  /\ artifacts' \subseteq Jobs \X Nat /\ artifacts \subseteq artifacts'

\* The chunk that this step has stored, with what it holds back.
Text(p) == log.held[p.job] \cup {p.run}
Appends(p) ==
  /\ HoldsLease(p.job, p.attempt, p.runner) /\ Rowless /\ posts' \subseteq posts
  /\ p.kind \in {"trace", "final"}
  /\ \E tail \in SUBSET Text(p) :
       /\ p.kind = "final" => tail = {}
       /\ log' = [stored |-> log.stored \cup {Chunk(p, Text(p))},
                  held |-> [log.held EXCEPT ![p.job] = tail]]
LogMoves == log' = log \/ \E p \in posts : Appends(p)

\* A row that a tick has read in this step.
Seen(e) == Rowless /\ \E j \in Jobs : e = Read(j) /\ job[j].status = "running"
ReadMoves == \A e \in expired' : e \in expired \/ Seen(e)

LEMMA StillPosts ==
  ASSUME TypeOK, posts' \subseteq posts, artifacts' = artifacts
  PROVE  PostMoves
BY DEF TypeOK, PostMoves

LEMMA ArrivesMoves ==
  ASSUME TypeOK, Busy, NEW r \in Runners, runner[r].pc \in Working,
         NEW kind \in {"complete", "fail", "trace", "final", "upload"}, Arrives(r, kind),
         artifacts' = artifacts, Rowless,
         kind = "complete" =>
           /\ runner[r].job \in Uploads => <<runner[r].job, runner[r].run>> \in artifacts
           /\ runner[r].job \in Chatty => LogEnds(runner[r].job, runner[r].run),
         kind = "trace" => runner'[r].pc = "executing",
         kind = "final" => runner'[r].pc = "flushing",
         kind \in {"trace", "final"} => /\ runner[r].pc = "executing"
                                       /\ Post(r, "trace") \notin posts
  PROVE  PostMoves
<1> DEFINE p == Post(r, kind)
<1>1. posts' = posts \cup {p} /\ Owned(runner[r].job, runner[r].attempt, r)
  BY DEF Arrives
<1>2. runner[r].job \in Jobs
  BY DEF Busy, Working
<1>3. /\ p \in Posts /\ p.runner = r /\ p.job = runner[r].job /\ p.run = runner[r].run
      /\ p.attempt = runner[r].attempt /\ p.kind = kind
  BY <1>2, RunnerFields DEF Post, Posts
<1>4. [p EXCEPT !.kind = "trace"] = Post(r, "trace")
  BY DEF Post
<1> HIDE DEF p
<1>5. HoldsLease(p.job, p.attempt, p.runner)
  BY <1>1, <1>3 DEF Owned
<1>6. Sent(p)
  BY <1>3, <1>4, <1>5 DEF Sent
<1>7. QED
  BY <1>1, <1>6 DEF PostMoves, TypeOK

LEMMA SendsMoves ==
  ASSUME TypeOK, Busy, NEW r \in Runners, runner[r].pc \in Working,
         NEW kind \in {"complete", "fail", "upload"}, Sends(r, kind),
         artifacts' = artifacts, Rowless,
         kind = "complete" =>
           /\ runner[r].job \in Uploads => <<runner[r].job, runner[r].run>> \in artifacts
           /\ runner[r].job \in Chatty => LogEnds(runner[r].job, runner[r].run)
  PROVE  PostMoves
<1>1. CASE posts' = posts
  BY <1>1, StillPosts
<1>2. CASE Arrives(r, kind)
  BY <1>2, ArrivesMoves
<1>3. QED
  BY <1>1, <1>2 DEF Sends

LEMMA TraceMoves ==
  ASSUME TypeOK, Busy, NEW r \in Runners, SendTrace(r), Rowless, artifacts' = artifacts
  PROVE  PostMoves
<1>1. runner[r].pc = "executing" /\ Post(r, "trace") \notin posts
  BY DEF SendTrace
<1>2. CASE Arrives(r, "trace") /\ UNCHANGED runner
  BY <1>1, <1>2, ArrivesMoves DEF Working
<1>3. CASE Arrives(r, "final") /\ runner' = [runner EXCEPT ![r].pc = "flushing"]
  <2>1. runner'[r].pc = "flushing"
    BY <1>3, RunnerFields DEF TypeOK, RunnerStates
  <2>2. QED
    BY <1>1, <1>3, <2>1, ArrivesMoves DEF Working
<1>4. QED
  BY <1>2, <1>3 DEF SendTrace

LEMMA ExecuteMoves ==
  ASSUME TypeOK, Busy, RunnersFlush, NEW r \in Runners, SendTrace(r) \/ Execute(r)
  PROVE  PostMoves
<1>0. Rowless /\ artifacts' = artifacts
  BY DEF SendTrace, Execute, Succeed, UploadAnswered, Fail, Rowless, rows
<1>1. CASE SendTrace(r)
  BY <1>0, <1>1, TraceMoves
<1>2. CASE Succeed(r)
  <2>0. /\ runner[r].pc \in Working
        /\ runner[r].job \in Chatty => LogEnds(runner[r].job, runner[r].run)
    BY <1>2 DEF Succeed, Flushed, Working
  <2>1. CASE runner[r].job \in Uploads
    BY <1>0, <1>2, <2>0, <2>1, SendsMoves DEF Succeed
  <2>2. CASE runner[r].job \notin Uploads
    BY <1>0, <1>2, <2>0, <2>2, SendsMoves DEF Succeed, Reports
  <2>3. QED
    BY <2>1, <2>2
<1>3. CASE UploadAnswered(r)
  <2>1. /\ runner[r].pc \in Working /\ Stored(r) /\ Sends(r, "complete")
        /\ runner[r].job \in Chatty => LogEnds(runner[r].job, runner[r].run)
    BY <1>3 DEF UploadAnswered, Reports, RunnersFlush, Working
  <2>2. QED
    BY <1>0, <2>1, SendsMoves DEF Stored
<1>4. CASE Fail(r)
  BY <1>0, <1>4, SendsMoves DEF Fail, Reports, Working
<1>5. QED
  BY <1>1, <1>2, <1>3, <1>4 DEF Execute

LEMMA PostsMove ==
  ASSUME TypeOK, Busy, RunnersFlush, [Next]_vars
  PROVE  PostMoves
<1>1. ASSUME NEW r \in Runners, QuietRunner(r)
      PROVE  PostMoves
  <2>1. CASE (\E j \in Jobs : ReadReady(r, j)) \/ LoseClaim(r) \/ Start(r) \/ Vanish(r)
    BY <2>1, StillPosts DEF ReadReady, LoseClaim, Start, Vanish
  <2>2. QED
    BY <1>1, <2>1, ExecuteMoves DEF QuietRunner, Execute
<1>2. ASSUME NEW r \in Runners, RemoveRunner(r) \/ ClaimJob(r)
      PROVE  PostMoves
  BY <1>2, StillPosts DEF RemoveRunner, ClaimJob
<1>3. ASSUME NEW p \in posts, AppendTrace(p) \/ FinishJob(p)
      PROVE  PostMoves
  BY <1>3, StillPosts DEF AppendTrace, FinishJob, Takes
<1>4. ASSUME NEW p \in posts, AddArtifact(p)
      PROVE  PostMoves
  BY <1>4 DEF AddArtifact, Takes, PostMoves, TypeOK, Posts
<1>5. ASSUME NEW j \in Jobs,
             \/ TickRead(j) \/ CancelJob(j) \/ Due(j) \/ CompleteNoop(j)
             \/ LeaseExpires(j) \/ RetryJob(j)
      PROVE  PostMoves
  BY <1>5, StillPosts DEF TickRead, CancelJob, Due, CompleteNoop, LeaseExpires, RetryJob
<1>6. ASSUME NEW e \in expired, TickExpire(e)
      PROVE  PostMoves
  BY <1>6, StillPosts DEF TickExpire
<1>7. CASE \/ RefreshRead \/ RefreshAbort \/ CancelSettled \/ RefreshCommit
           \/ CancelPipeline \/ CancelLate \/ RetryPipeline \/ UNCHANGED vars
  BY <1>7, StillPosts DEF RefreshRead, RefreshAbort, CancelSettled, RefreshCommit,
                          CancelPipeline, CancelLate, RetryPipeline, vars
<1>8. QED
  BY <1>1, <1>2, <1>3, <1>4, <1>5, <1>6, <1>7, NextCases DEF QuietStep, JobOnly

LEMMA LogMove ==
  ASSUME [Next]_vars
  PROVE  LogMoves
<1>1. ASSUME NEW p \in posts, AppendTrace(p)
      PROVE  LogMoves
  <2>1. CASE ~HoldsLease(p.job, p.attempt, p.runner)
    BY <1>1, <2>1 DEF AppendTrace, LogMoves
  <2>2. CASE HoldsLease(p.job, p.attempt, p.runner)
    <3>1. PICK tail \in SUBSET Text(p) :
            log' = [stored |-> log.stored \cup {Chunk(p, Text(p))},
                    held |-> [log.held EXCEPT ![p.job] = Tail(p, tail)]]
      BY <1>1, <2>2 DEF AppendTrace, Text
    <3>2. Tail(p, tail) \in SUBSET Text(p) /\ (p.kind = "final" => Tail(p, tail) = {})
      BY DEF Tail
    <3>3. Appends(p)
      BY <1>1, <2>2, <3>1, <3>2 DEF Appends, AppendTrace, Takes, Rowless, rows
    <3>4. QED
      BY <3>3 DEF LogMoves
  <2>3. QED
    BY <2>1, <2>2
<1>2. ASSUME NEW r \in Runners, RemoveRunner(r) \/ ClaimJob(r) \/ QuietRunner(r)
      PROVE  log' = log
  BY <1>2 DEF RemoveRunner, ClaimJob, QuietRunner, ReadReady, LoseClaim, Start, Vanish,
              SendTrace, Succeed, UploadAnswered, Fail
<1>3. ASSUME NEW p \in posts, AddArtifact(p) \/ FinishJob(p)
      PROVE  log' = log
  BY <1>3 DEF AddArtifact, FinishJob
<1>4. ASSUME NEW j \in Jobs,
             \/ TickRead(j) \/ CancelJob(j) \/ Due(j) \/ CompleteNoop(j)
             \/ LeaseExpires(j) \/ RetryJob(j)
      PROVE  log' = log
  BY <1>4 DEF TickRead, CancelJob, Due, CompleteNoop, LeaseExpires, RetryJob
<1>5. ASSUME NEW e \in expired, TickExpire(e)
      PROVE  log' = log
  BY <1>5 DEF TickExpire
<1>6. CASE \/ RefreshRead \/ RefreshAbort \/ CancelSettled \/ RefreshCommit
           \/ CancelPipeline \/ CancelLate \/ RetryPipeline \/ UNCHANGED vars
  BY <1>6 DEF RefreshRead, RefreshAbort, CancelSettled, RefreshCommit, CancelPipeline,
              CancelLate, RetryPipeline, vars, LogMoves
<1>7. QED
  BY <1>1, <1>2, <1>3, <1>4, <1>5, <1>6, NextCases DEF QuietStep, JobOnly, LogMoves

LEMMA ReadsMove ==
  ASSUME [Next]_vars
  PROVE  ReadMoves
<1>1. ASSUME NEW j \in Jobs, TickRead(j)
      PROVE  ReadMoves
  <2>1. Seen(Read(j))
    BY <1>1 DEF TickRead, Expired, Seen, Rowless, rows
  <2>2. expired' = expired \cup {Read(j)}
    BY <1>1 DEF TickRead
  <2>3. QED
    BY <2>1, <2>2 DEF ReadMoves
<1>2. ASSUME NEW e \in expired, TickExpire(e)
      PROVE  ReadMoves
  BY <1>2 DEF TickExpire, ReadMoves
<1>3. ASSUME NEW r \in Runners, RemoveRunner(r) \/ ClaimJob(r) \/ QuietRunner(r)
      PROVE  expired' = expired
  BY <1>3 DEF RemoveRunner, ClaimJob, QuietRunner, ReadReady, LoseClaim, Start, Vanish,
              SendTrace, Succeed, UploadAnswered, Fail, server
<1>4. ASSUME NEW p \in posts, AddArtifact(p) \/ FinishJob(p) \/ AppendTrace(p)
      PROVE  expired' = expired
  BY <1>4 DEF AddArtifact, FinishJob, AppendTrace, server
<1>5. ASSUME NEW j \in Jobs,
             CancelJob(j) \/ Due(j) \/ CompleteNoop(j) \/ LeaseExpires(j) \/ RetryJob(j)
      PROVE  expired' = expired
  BY <1>5 DEF CancelJob, Due, CompleteNoop, LeaseExpires, RetryJob, server
<1>6. CASE \/ RefreshRead \/ RefreshAbort \/ CancelSettled \/ RefreshCommit
           \/ CancelPipeline \/ CancelLate \/ RetryPipeline \/ UNCHANGED vars
  BY <1>6 DEF RefreshRead, RefreshAbort, CancelSettled, RefreshCommit, CancelPipeline,
              CancelLate, RetryPipeline, vars, server, ReadMoves
<1>7. QED
  BY <1>1, <1>2, <1>3, <1>4, <1>5, <1>6, NextCases DEF QuietStep, JobOnly, ReadMoves

-----------------------------------------------------------------------------
\* Types.

LEMMA RefreshTypes ==
  ASSUME TypeOK, [Next]_vars
  PROVE  pipeline' \in Live \cup Settled /\ refresh' \in Refreshes
<1>0. NoRefresh \in Refreshes
  BY DEF NoRefresh, Refreshes
<1>1. CASE RefreshRead
  <2> DEFINE seen == [j \in Members |-> job[j].status]
             blocked == {j \in Members : ~job[j].ready}
  <2>1. seen \in [Members -> Live \cup Settled \cup {"none"}]
    BY JobFields DEF Members
  <2>2. refresh' = [held |-> TRUE, seen |-> seen, blocked |-> blocked]
    BY <1>1 DEF RefreshRead, View
  <2>3. blocked \in SUBSET Members
    OBVIOUS
  <2> HIDE DEF seen, blocked
  <2>4. QED
    BY <1>1, <2>1, <2>2, <2>3 DEF RefreshRead, View, rows, Refreshes, TypeOK
<1>2. CASE RefreshCommit
  BY <1>0, <1>2, Statuses DEF RefreshCommit, PipelineStatus
<1>3. CASE RefreshAbort
  BY <1>0, <1>3 DEF RefreshAbort, rows, TypeOK
<1>4. CASE CancelPipeline \/ RetryPipeline \/ \E k \in Jobs : RetryJob(k)
  BY <1>4, Statuses DEF CancelPipeline, RetryPipeline, RetryJob, server, TypeOK
<1>5. CASE CancelLate \/ CancelSettled \/ UNCHANGED vars
  BY <1>5 DEF CancelLate, CancelSettled, vars, rows, server, TypeOK
<1>6. CASE JobOnly
  BY <1>6 DEF JobOnly, CancelJob, Due, CompleteNoop, LeaseExpires, TickExpire, ClaimJob,
              FinishJob, server, TypeOK
<1>7. ASSUME NEW r \in Runners, RemoveRunner(r) \/ QuietRunner(r)
      PROVE  pipeline' = pipeline /\ refresh' = refresh
  BY <1>7 DEF RemoveRunner, QuietRunner, ReadReady, LoseClaim, Start, Vanish, SendTrace,
              Succeed, UploadAnswered, Fail, rows, server
<1>8. ASSUME NEW p \in posts, AppendTrace(p) \/ AddArtifact(p)
      PROVE  pipeline' = pipeline /\ refresh' = refresh
  BY <1>8 DEF AppendTrace, AddArtifact, rows, server
<1>9. ASSUME NEW j \in Jobs, TickRead(j)
      PROVE  pipeline' = pipeline /\ refresh' = refresh
  BY <1>9 DEF TickRead, rows
<1>10. QED
  BY <1>1, <1>2, <1>3, <1>4, <1>5, <1>6, <1>7, <1>8, <1>9, NextCases
  DEF QuietStep, TypeOK

Counts == [retries : 0 .. MaxRetries, cancels : 0 .. MaxCancels]

LEMMA ServerTypes ==
  ASSUME TypeOK, [Next]_vars
  PROVE  late' \in BOOLEAN /\ registered' \subseteq Runners /\ count' \in Counts
<1>0. late \in BOOLEAN /\ registered \subseteq Runners /\ count \in Counts
  BY DEF TypeOK, Counts
<1>1. CASE RefreshRead \/ RefreshCommit \/ RefreshAbort \/ UNCHANGED vars
  BY <1>0, <1>1 DEF RefreshRead, RefreshCommit, RefreshAbort, vars, server
<1>2. CASE RetryPipeline \/ \E k \in Jobs : RetryJob(k)
  BY <1>0, <1>2, RetriesCount DEF RetryPipeline, RetryJob, server, Counts
<1>3. CASE CancelPipeline \/ \E j \in Jobs : CancelJob(j)
  BY <1>0, <1>3, CancelsCount DEF CancelPipeline, CancelJob, server, Counts
<1>4. CASE CancelSettled
  BY <1>0, <1>4, CancelsCount DEF CancelSettled, Counts
<1>5. CASE CancelLate
  BY <1>0, <1>5 DEF CancelLate
<1>6. ASSUME NEW j \in Jobs, Due(j) \/ CompleteNoop(j) \/ LeaseExpires(j) \/ TickRead(j)
      PROVE  late' = late /\ registered' = registered /\ count' = count
  BY <1>6 DEF Due, CompleteNoop, LeaseExpires, TickRead, server
<1>7. ASSUME NEW e \in expired, TickExpire(e)
      PROVE  late' = late /\ registered' = registered /\ count' = count
  BY <1>7 DEF TickExpire
<1>8. ASSUME NEW r \in Runners, ClaimJob(r) \/ QuietRunner(r)
      PROVE  late' = late /\ registered' = registered /\ count' = count
  BY <1>8 DEF ClaimJob, QuietRunner, ReadReady, LoseClaim, Start, Vanish, SendTrace,
              Succeed, UploadAnswered, Fail, server
<1>9. ASSUME NEW r \in Runners, RemoveRunner(r)
      PROVE  late' = late /\ registered' \subseteq Runners /\ count' = count
  BY <1>0, <1>9 DEF RemoveRunner
<1>10. ASSUME NEW p \in posts, AppendTrace(p) \/ AddArtifact(p) \/ FinishJob(p)
      PROVE  late' = late /\ registered' = registered /\ count' = count
  BY <1>10 DEF AppendTrace, AddArtifact, FinishJob, server
<1>11. QED
  BY <1>0, <1>1, <1>2, <1>3, <1>4, <1>5, <1>6, <1>7, <1>8, <1>9, <1>10, NextCases
  DEF QuietStep, JobOnly

LEMMA AttemptsStep ==
  ASSUME TypeOK, WaitingIsClaimable, NEW j \in Jobs, JobMove(j)
  PROVE  /\ job'[j].attempts <= job'[j].max
         /\ job'[j].status = "running" <=> job'[j].owner # NoRunner
         /\ job'[j].status = "pending" => job'[j].attempts < job'[j].max \/ Expires(j)
<1>1. /\ job[j].attempts \in Nat /\ job[j].max \in Nat /\ job[j].attempts <= job[j].max
      /\ job[j].status = "running" <=> job[j].owner # NoRunner
      /\ job[j].status = "pending" => job[j].attempts < job[j].max
  BY JobFields DEF TypeOK, WaitingIsClaimable
<1>2. CASE Stays(j)
  BY <1>1, <1>2 DEF Stays
<1>3. CASE Ends(j)
  BY <1>1, <1>3 DEF Ends, Becomes
<1>4. CASE GetsReady(j)
  BY <1>1, <1>4 DEF GetsReady, Becomes
<1>5. CASE Restarts(j)
  BY <1>1, <1>5, CiAssumption DEF Restarts, Becomes
<1>6. CASE Skips(j)
  BY <1>1, <1>6 DEF Skips, Becomes
<1>7. CASE LosesLease(j)
  BY <1>1, <1>7 DEF LosesLease, Becomes
<1>8. CASE Expires(j)
  BY <1>1, <1>8 DEF Expires, Becomes
<1>9. CASE Starts(j)
  BY <1>1, <1>9, RunnerAssumption DEF Starts, Becomes, Ready
<1>10. CASE Finishes(j)
  BY <1>1, <1>10 DEF Finishes, Becomes
<1>11. QED
  BY <1>2, <1>3, <1>4, <1>5, <1>6, <1>7, <1>8, <1>9, <1>10 DEF JobMove

LEMMA LogTypes ==
  ASSUME TypeOK, LogMoves
  PROVE  log' \in [stored : SUBSET Chunks, held : [Jobs -> SUBSET Nat]]
<1>1. CASE log' = log
  BY <1>1 DEF TypeOK
<1>2. ASSUME NEW p \in posts, Appends(p)
      PROVE  log' \in [stored : SUBSET Chunks, held : [Jobs -> SUBSET Nat]]
  <2>1. /\ p.job \in Jobs /\ p.attempt \in Nat /\ p.run \in Nat
        /\ log.stored \in SUBSET Chunks /\ log.held \in [Jobs -> SUBSET Nat]
    BY DEF TypeOK, Posts
  <2>2. Text(p) \in SUBSET Nat
    BY <2>1 DEF Text
  <2>3. Chunk(p, Text(p)) \in Chunks
    BY <2>1, <2>2 DEF Chunk, Chunks
  <2>4. PICK tail \in SUBSET Text(p) :
          log' = [stored |-> log.stored \cup {Chunk(p, Text(p))},
                  held |-> [log.held EXCEPT ![p.job] = tail]]
    BY <1>2 DEF Appends
  <2>5. [log.held EXCEPT ![p.job] = tail] \in [Jobs -> SUBSET Nat]
    BY <2>1, <2>2
  <2>6. log.stored \cup {Chunk(p, Text(p))} \in SUBSET Chunks
    BY <2>1, <2>3
  <2>7. QED
    BY <2>4, <2>5, <2>6
<1>3. QED
  BY <1>1, <1>2 DEF LogMoves

LEMMA TypeStep ==
  ASSUME IInv, [Next]_vars
  PROVE  TypeOK'
<1>1. JobMoves /\ RunnerMoves /\ PostMoves /\ LogMoves /\ ReadMoves
  BY JobsMove, RunnersMove, PostsMove, LogMove, ReadsMove DEF IInv
<1>2. \A j \in Jobs : /\ job'[j].attempts <= job'[j].max
                      /\ job'[j].status = "running" <=> job'[j].owner # NoRunner
  BY <1>1, AttemptsStep DEF IInv, JobMoves
<1>3. expired' \subseteq Reads
  <2>1. \A j \in Jobs : Read(j) \in Reads
    BY JobFields DEF IInv, Read, Reads
  <2>2. QED
    BY <1>1, <2>1 DEF ReadMoves, Seen, IInv, TypeOK
<1>4. posts' \subseteq Posts
  BY <1>1 DEF PostMoves, Sent, IInv, TypeOK
<1>5. log' \in [stored : SUBSET Chunks, held : [Jobs -> SUBSET Nat]]
  BY <1>1, LogTypes DEF IInv
<1>6. pipeline' \in Live \cup Settled /\ refresh' \in Refreshes
  BY RefreshTypes DEF IInv
<1>7. late' \in BOOLEAN /\ registered' \subseteq Runners /\ count' \in Counts
  BY ServerTypes DEF IInv
<1>8. QED
  BY <1>1, <1>2, <1>3, <1>4, <1>5, <1>6, <1>7
  DEF TypeOK, JobMoves, RowTypes, RunnerMoves, PostMoves, Counts

LEMMA BusyStep ==
  ASSUME IInv, [Next]_vars
  PROVE  Busy'
<1>1. RunnerMoves
  BY RunnersMove DEF IInv
<1>2. ASSUME NEW r \in Runners, runner'[r].pc # "idle"
      PROVE  runner'[r].job \in Jobs
  <2>1. RunnerMove(r)
    BY <1>1 DEF RunnerMoves
  <2>2. runner[r].pc # "idle" => runner[r].job \in Jobs
    BY DEF IInv, Busy
  <2>3. QED
    BY <1>2, <2>1, <2>2
    DEF RunnerMove, Keeps, Idles, Looks, Wins, Works, Working
<1>3. QED
  BY <1>2 DEF Busy

-----------------------------------------------------------------------------
\* Attempts and executions.

KeepsRunning(j) ==
  /\ job[j].status = "running"
  /\ job'[j].attempts = job[j].attempts /\ job'[j].max = job[j].max
  /\ job'[j].owner = job[j].owner /\ runs'[j] = runs[j]

LEMMA AttemptKept ==
  ASSUME TypeOK, NEW j \in Jobs, JobMove(j)
  PROVE  /\ job[j].attempts <= job'[j].attempts
         /\ job'[j].status = "running" => Starts(j) \/ KeepsRunning(j)
         /\ Starts(j) => job'[j].attempts = job[j].attempts + 1
<1>1. job[j].attempts \in Nat
  BY JobFields
<1>2. CASE Stays(j) \/ GetsReady(j) \/ LosesLease(j)
  BY <1>1, <1>2 DEF Stays, GetsReady, LosesLease, SameRun, Becomes, KeepsRunning, Starts
<1>3. CASE Ends(j) \/ Restarts(j) \/ Skips(j) \/ Finishes(j)
  BY <1>1, <1>3 DEF Ends, Restarts, Skips, Finishes, Becomes, Starts
<1>4. CASE Expires(j)
  BY <1>1, <1>4 DEF Expires, Becomes, Starts
<1>5. CASE Starts(j)
  BY <1>1, <1>5 DEF Starts, Becomes
<1>6. QED
  BY <1>2, <1>3, <1>4, <1>5 DEF JobMove

LEMMA ExpiredKnowsStep ==
  ASSUME IInv, [Next]_vars
  PROVE  ExpiredKnows'
<1>1. JobMoves /\ ReadMoves
  BY JobsMove, ReadsMove DEF IInv
<1>2. ASSUME NEW e \in expired'
      PROVE  /\ e.attempts <= job'[e.job].attempts
             /\ job'[e.job].status = "running" /\ job'[e.job].attempts = e.attempts =>
                  (e.spent <=> job'[e.job].attempts >= job'[e.job].max)
  <2>1. CASE e \in expired
    <3> DEFINE j == e.job
    <3>1. j \in Jobs /\ e.attempts \in Nat
      BY <2>1 DEF IInv, TypeOK, Reads
    <3>2. /\ job[j].attempts <= job'[j].attempts
          /\ job'[j].status = "running" => Starts(j) \/ KeepsRunning(j)
          /\ Starts(j) => job'[j].attempts = job[j].attempts + 1
      BY <1>1, <3>1, AttemptKept DEF IInv, JobMoves
    <3>3. /\ e.attempts <= job[j].attempts
          /\ job[j].status = "running" /\ job[j].attempts = e.attempts =>
                  (e.spent <=> job[j].attempts >= job[j].max)
      BY <2>1 DEF IInv, ExpiredKnows
    <3>4. job[j].attempts \in Nat /\ job'[j].attempts \in Nat
      BY <1>1, <3>1 DEF IInv, TypeOK, JobMoves, RowTypes, JobRows
    <3>5. QED
      BY <3>1, <3>2, <3>3, <3>4 DEF KeepsRunning
  <2>2. CASE Seen(e)
    <3>1. PICK j \in Jobs : e = Read(j) /\ job'[j] = job[j]
      BY <2>2 DEF Seen, Rowless
    <3>2. /\ e.job = j /\ e.attempts = job[j].attempts
          /\ e.spent <=> job[j].attempts >= job[j].max
      BY <3>1 DEF Read
    <3>3. job[j].attempts \in Nat
      BY JobFields DEF IInv
    <3>4. QED
      BY <3>1, <3>2, <3>3
  <2>3. QED
    BY <1>1, <2>1, <2>2 DEF ReadMoves
<1>3. QED
  BY <1>2 DEF ExpiredKnows

LEMMA WaitingStep ==
  ASSUME IInv, [Next]_vars
  PROVE  WaitingIsClaimable'
<1>1. ASSUME NEW j \in Jobs, job'[j].status = "pending"
      PROVE  job'[j].attempts < job'[j].max
  <2>1. JobMove(j)
    BY JobsMove DEF IInv, JobMoves
  <2>2. CASE Expires(j)
    <3>1. PICK e \in expired :
            /\ e.job = j /\ job[j].status = "running" /\ job[j].attempts = e.attempts
            /\ Becomes(j, IF e.spent THEN "failed" ELSE "pending", TRUE,
                       job[j].attempts, job[j].max, NoRunner)
      BY <2>2 DEF Expires
    <3>2. ~e.spent
      BY <1>1, <3>1 DEF Becomes
    <3>3. ~(job[j].attempts >= job[j].max)
      BY <3>1, <3>2 DEF IInv, ExpiredKnows
    <3>4. job[j].attempts \in Nat /\ job[j].max \in Nat
      BY JobFields DEF IInv
    <3>5. QED
      BY <3>1, <3>3, <3>4 DEF Becomes
  <2>3. QED
    BY <1>1, <2>1, <2>2, AttemptsStep DEF IInv
<1>2. QED
  BY <1>1 DEF WaitingIsClaimable

LEMMA RunnerKnowsStep ==
  ASSUME IInv, [Next]_vars
  PROVE  RunnerKnows'
<1>1. ASSUME NEW r \in Runners, runner'[r].pc \in Working,
             job'[runner'[r].job].status = "running", job'[runner'[r].job].owner = r
      PROVE  runner'[r].run = runs'[runner'[r].job]
  <2> DEFINE j == runner'[r].job
  <2>1. j \in Jobs
    BY <1>1, BusyStep DEF Busy, Working
  <2>2. JobMove(j) /\ RunnerMove(r)
    BY <2>1, JobsMove, RunnersMove DEF IInv, JobMoves, RunnerMoves
  <2>3. CASE Wins(r)
    BY <2>3 DEF Wins
  <2>4. CASE ~Wins(r)
    <3>1. /\ runner[r].pc \in Working /\ j = runner[r].job
          /\ runner'[r].run = runner[r].run
      BY <1>1, <2>2, <2>4 DEF RunnerMove, Keeps, Idles, Looks, Works, Working
    <3>2. ~Starts(j)
      <4>1. SUFFICES ASSUME Starts(j) PROVE FALSE
        OBVIOUS
      <4>2. PICK q \in Runners : runner[q].pc = "claiming" /\ job'[j].owner = q
        BY <4>1 DEF Starts, Becomes
      <4>3. q = r
        BY <1>1, <4>2
      <4>4. QED
        BY <3>1, <4>2, <4>3 DEF Working
    <3>3. KeepsRunning(j)
      BY <1>1, <2>1, <2>2, <3>2, AttemptKept DEF IInv
    <3>4. job[j].status = "running" /\ job[j].owner = r /\ runs'[j] = runs[j]
      BY <1>1, <3>3 DEF KeepsRunning
    <3>5. runner[r].run = runs[j]
      BY <3>1, <3>4 DEF IInv, RunnerKnows, Working
    <3>6. QED
      BY <3>1, <3>4, <3>5
  <2>5. QED
    BY <2>3, <2>4
<1>2. QED
  BY <1>1 DEF RunnerKnows, Working

\* The request of an owner is of the execution that runs.
LEMMA HolderKnows ==
  ASSUME IInv, NEW p \in posts, HoldsLease(p.job, p.attempt, p.runner)
  PROVE  p.run = runs[p.job]
BY DEF IInv, PostsKnow, HoldsLease

LEMMA PostsKnowStep ==
  ASSUME IInv, [Next]_vars
  PROVE  PostsKnow'
<1>1. JobMoves /\ PostMoves
  BY JobsMove, PostsMove DEF IInv
<1>2. ASSUME NEW p \in posts'
      PROVE  /\ p.attempt <= job'[p.job].attempts
             /\ job'[p.job].status = "running" /\ job'[p.job].attempts = p.attempt
                  /\ job'[p.job].owner = p.runner => p.run = runs'[p.job]
  <2> DEFINE j == p.job
  <2>1. CASE p \in posts
    <3>1. j \in Jobs /\ p.attempt \in Nat
      BY <2>1 DEF IInv, TypeOK, Posts
    <3>2. /\ job[j].attempts <= job'[j].attempts
          /\ job'[j].status = "running" => Starts(j) \/ KeepsRunning(j)
          /\ Starts(j) => job'[j].attempts = job[j].attempts + 1
      BY <1>1, <3>1, AttemptKept DEF IInv, JobMoves
    <3>3. /\ p.attempt <= job[j].attempts
          /\ job[j].status = "running" /\ job[j].attempts = p.attempt
               /\ job[j].owner = p.runner => p.run = runs[j]
      BY <2>1 DEF IInv, PostsKnow
    <3>4. job[j].attempts \in Nat /\ job'[j].attempts \in Nat
      BY <1>1, <3>1 DEF IInv, TypeOK, JobMoves, RowTypes, JobRows
    <3>5. QED
      BY <3>1, <3>2, <3>3, <3>4 DEF KeepsRunning
  <2>2. CASE Sent(p)
    <3>1. /\ p \in Posts /\ job' = job /\ runs' = runs
          /\ runner[p.runner].pc \in Working /\ j = runner[p.runner].job
          /\ p.run = runner[p.runner].run
          /\ job[j].status = "running" /\ job[j].attempts = p.attempt
          /\ job[j].owner = p.runner
      BY <2>2 DEF Sent, Rowless, HoldsLease
    <3>2. p.runner \in Runners /\ p.attempt \in Nat
      BY <3>1 DEF Posts
    <3>3. runner[p.runner].run = runs[j]
      BY <3>1, <3>2 DEF IInv, RunnerKnows, Working
    <3>4. QED
      BY <3>1, <3>2, <3>3
  <2>3. QED
    BY <1>1, <2>1, <2>2 DEF PostMoves
<1>3. QED
  BY <1>2 DEF PostsKnow

LEMMA RunsGrow ==
  ASSUME TypeOK, NEW j \in Jobs, JobMove(j)
  PROVE  runs[j] <= runs'[j]
<1>1. runs[j] \in Nat
  BY JobFields
<1>2. runs'[j] = runs[j] \/ runs'[j] = runs[j] + 1
  <2>1. CASE Stays(j) \/ Ends(j) \/ GetsReady(j) \/ Restarts(j) \/ Skips(j)
    BY <2>1, Zenon DEF Stays, Ends, GetsReady, Restarts, Skips, SameRun
  <2>2. CASE LosesLease(j) \/ Expires(j) \/ Starts(j) \/ Finishes(j)
    BY <2>2, Zenon DEF LosesLease, Expires, Starts, Finishes, SameRun
  <2>3. QED
    BY <2>1, <2>2 DEF JobMove
<1>3. QED
  BY <1>1, <1>2

LEMMA LogKnowsStep ==
  ASSUME IInv, [Next]_vars
  PROVE  LogKnows'
<1>1. JobMoves /\ LogMoves
  BY JobsMove, LogMove DEF IInv
<1>2. ASSUME NEW x \in log'.stored
      PROVE  /\ x.attempt <= job'[x.job].attempts /\ x.run <= runs'[x.job]
             /\ job'[x.job].status = "running" /\ job'[x.job].attempts = x.attempt =>
                  x.run = runs'[x.job]
  <2>1. CASE x \in log.stored
    <3> DEFINE j == x.job
    <3>1. j \in Jobs /\ x.attempt \in Nat /\ x.run \in Nat
      BY <2>1 DEF IInv, TypeOK, Chunks
    <3>2. /\ job[j].attempts <= job'[j].attempts
          /\ job'[j].status = "running" => Starts(j) \/ KeepsRunning(j)
          /\ Starts(j) => job'[j].attempts = job[j].attempts + 1
      BY <1>1, <3>1, AttemptKept DEF IInv, JobMoves
    <3>3. /\ x.attempt <= job[j].attempts /\ x.run <= runs[j]
          /\ job[j].status = "running" /\ job[j].attempts = x.attempt => x.run = runs[j]
      BY <2>1 DEF IInv, LogKnows
    <3>4. job[j].attempts \in Nat /\ job'[j].attempts \in Nat
      BY <1>1, <3>1 DEF IInv, TypeOK, JobMoves, RowTypes, JobRows
    <3>5. runs[j] \in Nat /\ runs'[j] \in Nat /\ runs[j] <= runs'[j]
      BY <1>1, <3>1, RunsGrow, JobFields DEF IInv, JobMoves, RowTypes
    <3>6. QED
      BY <3>1, <3>2, <3>3, <3>4, <3>5 DEF KeepsRunning
  <2>2. CASE x \notin log.stored
    <3>1. PICK p \in posts : /\ HoldsLease(p.job, p.attempt, p.runner)
                             /\ job' = job /\ runs' = runs
                             /\ x = Chunk(p, Text(p))
      BY <1>1, <2>2 DEF LogMoves, Appends, Rowless
    <3>2. /\ p.run = runs[p.job] /\ job[p.job].attempts = p.attempt
          /\ p.attempt \in Nat /\ p.run \in Nat
      BY <3>1, HolderKnows DEF HoldsLease, IInv, TypeOK, Posts
    <3>3. x.job = p.job /\ x.attempt = p.attempt /\ x.run = p.run
      BY <3>1 DEF Chunk
    <3>4. QED
      BY <3>1, <3>2, <3>3
  <2>3. QED
    BY <2>1, <2>2
<1>3. QED
  BY <1>2 DEF LogKnows

LEMMA OneRunStep ==
  ASSUME IInv, [Next]_vars
  PROVE  OneWriter'
<1>1. LogMoves /\ LogKnows'
  BY LogMove, LogKnowsStep
<1>2. ASSUME NEW x \in log'.stored, NEW y \in log'.stored, x.job = y.job,
             x.attempt = y.attempt, x \notin log.stored
      PROVE  x.run = y.run
  <2>1. job'[x.job].status = "running" /\ job'[x.job].attempts = x.attempt
    BY <1>1, <1>2 DEF LogMoves, Appends, Chunk, HoldsLease, Rowless
  <2>2. QED
    BY <1>1, <1>2, <2>1 DEF LogKnows
<1>3. ASSUME NEW x \in log'.stored, NEW y \in log'.stored, x.job = y.job,
             x.attempt = y.attempt
      PROVE  x.run = y.run
  <2>1. CASE x \notin log.stored
    BY <1>2, <1>3, <2>1
  <2>2. CASE y \notin log.stored
    BY <1>2, <1>3, <2>2
  <2>3. CASE x \in log.stored /\ y \in log.stored
    BY <1>3, <2>3 DEF IInv, LogIsOfItsRun, OneWriter
  <2>4. QED
    BY <2>1, <2>2, <2>3
<1>4. QED
  BY <1>3 DEF OneWriter

-----------------------------------------------------------------------------
\* The end of a log, and what is held back before it.

EndsIn(s, j, run) == \E x \in s : x.job = j /\ x.run = run /\ x.final

LEMMA HeldStays ==
  ASSUME IInv, [Next]_vars, NEW j \in Jobs,
         job[j].status # "running" \/ job'[j].status # "running"
  PROVE  log'.held[j] = log.held[j]
<1>1. ASSUME NEW p \in posts, Appends(p)
      PROVE  log'.held[j] = log.held[j]
  <2>1. p.job # j
    BY <1>1 DEF Appends, HoldsLease, Rowless
  <2>2. log.held \in [Jobs -> SUBSET Nat]
    BY DEF IInv, TypeOK
  <2>3. QED
    BY <1>1, <2>1, <2>2 DEF Appends
<1>2. QED
  BY <1>1, LogMove DEF LogMoves

\* A post that owns its job has owned it before, or has just been sent.
LEMMA OwnersStay ==
  ASSUME IInv, [Next]_vars, NEW p \in posts, Owns(p)'
  PROVE  Owns(p) /\ KeepsRunning(p.job)
<1>1. p.job \in Jobs /\ p.attempt \in Nat /\ job[p.job].attempts \in Nat
  BY JobFields DEF IInv, TypeOK, Posts
<1>2. /\ job'[p.job].status = "running" => Starts(p.job) \/ KeepsRunning(p.job)
      /\ Starts(p.job) => job'[p.job].attempts = job[p.job].attempts + 1
  BY <1>1, AttemptKept, JobsMove DEF IInv, JobMoves
<1>3. p.attempt <= job[p.job].attempts
  BY DEF IInv, PostsKnow
<1>4. QED
  BY <1>1, <1>2, <1>3 DEF Owns, KeepsRunning

\* This step stores the last chunk of the execution that runs, or of none.
LEMMA EndsMove ==
  ASSUME IInv, [Next]_vars, NEW j \in Jobs, NEW e \in Nat
  PROVE  /\ LogEnds(j, e) => EndsIn(log'.stored, j, e) /\ e <= runs[j]
         /\ EndsIn(log'.stored, j, e) /\ ~LogEnds(j, e) =>
              /\ e = runs[j] /\ runs'[j] = runs[j] /\ posts' \subseteq posts
              /\ \E p \in posts : p.kind = "final" /\ p.job = j /\ Owns(p)
<1>1. LogMoves
  BY LogMove
<1>2. LogEnds(j, e) => e <= runs[j]
  BY DEF LogEnds, IInv, LogKnows
<1>3. CASE log' = log
  BY <1>2, <1>3 DEF LogEnds, EndsIn
<1>4. ASSUME NEW p \in posts, Appends(p)
      PROVE  /\ LogEnds(j, e) => EndsIn(log'.stored, j, e)
             /\ EndsIn(log'.stored, j, e) /\ ~LogEnds(j, e) =>
                  /\ e = runs[j] /\ runs'[j] = runs[j] /\ posts' \subseteq posts
                  /\ p.kind = "final" /\ p.job = j /\ Owns(p)
  <2> DEFINE x == Chunk(p, Text(p))
  <2>1. log'.stored = log.stored \cup {x}
    BY <1>4 DEF Appends
  <2>2. x.job = p.job /\ x.run = p.run /\ x.final = (p.kind = "final")
    BY DEF Chunk
  <2> HIDE DEF x
  <2>3. LogEnds(j, e) => EndsIn(log'.stored, j, e)
    BY <2>1 DEF LogEnds, EndsIn
  <2>4. ASSUME EndsIn(log'.stored, j, e), ~LogEnds(j, e)
        PROVE  x.job = j /\ x.run = e /\ x.final
    BY <2>1, <2>4 DEF LogEnds, EndsIn
  <2>5. p.run = runs[p.job] /\ Owns(p) /\ runs' = runs /\ posts' \subseteq posts
    BY <1>4, HolderKnows DEF Appends, Rowless, HoldsLease, Owns
  <2>6. QED
    BY <2>2, <2>3, <2>4, <2>5
<1>5. QED
  BY <1>1, <1>2, <1>3, <1>4 DEF LogMoves

LEMMA EndsStay ==
  ASSUME [Next]_vars, NEW j, NEW e, LogEnds(j, e)
  PROVE  EndsIn(log'.stored, j, e)
<1>1. log.stored \subseteq log'.stored
  BY LogMove DEF LogMoves, Appends
<1>2. QED
  BY <1>1 DEF LogEnds, EndsIn

LEMMA FlushStep ==
  ASSUME IInv, [Next]_vars
  PROVE  RunnersFlush'
<1>1. ASSUME NEW r \in Runners, runner'[r].pc = "uploading", runner'[r].job \in Chatty
      PROVE  LogEnds(runner'[r].job, runner'[r].run)
  <2>1. RunnerMove(r)
    BY RunnersMove DEF IInv, RunnerMoves
  <2>2. QED
    BY <1>1, <2>1
    DEF RunnerMove, Keeps, Idles, Looks, Wins, Works, IInv, RunnersFlush
<1>2. \A r \in Runners : runner'[r].pc = "uploading" /\ runner'[r].job \in Chatty =>
        EndsIn(log'.stored, runner'[r].job, runner'[r].run)
  BY <1>1, EndsStay
<1>3. QED
  BY <1>2 DEF RunnersFlush, LogEnds, EndsIn

\* The owner of a job that writes has written before, or claims the job.
LEMMA WritersStay ==
  ASSUME IInv, [Next]_vars, NEW r \in Runners, runner'[r].pc \in Writing,
         job'[runner'[r].job].status = "running", job'[runner'[r].job].owner = r,
         ~Wins(r)
  PROVE  /\ runner[r].pc \in Writing /\ runner'[r].job = runner[r].job
         /\ KeepsRunning(runner[r].job)
<1> DEFINE j == runner[r].job
<1>1. RunnerMove(r)
  BY RunnersMove DEF IInv, RunnerMoves
<1>2. runner[r].pc \in Writing /\ runner'[r].job = j
  BY <1>1 DEF RunnerMove, Keeps, Idles, Looks, Works, Writing
<1>3. j \in Jobs
  BY <1>2 DEF IInv, Busy, Writing
<1>4. ~Starts(j)
  BY <1>2 DEF Starts, Becomes, Writing
<1>5. QED
  BY <1>2, <1>3, <1>4, AttemptKept, JobsMove DEF IInv, JobMoves

LEMMA WriterStep ==
  ASSUME IInv, [Next]_vars
  PROVE  WriterKnows'
<1>1. ASSUME NEW r \in Runners, runner'[r].pc \in Writing,
             job'[runner'[r].job].status = "running", job'[runner'[r].job].owner = r
      PROVE  /\ ~EndsIn(log'.stored, runner'[r].job, runs'[runner'[r].job])
             /\ \A q \in posts' : q.kind = "final" /\ q.job = runner'[r].job => ~Owns(q)'
  <2> DEFINE j == runner'[r].job
  <2>1. j \in Jobs
    BY <1>1, BusyStep DEF Busy, Writing
  <2>2. runs[j] \in Nat /\ runs'[j] \in Nat
    BY <2>1, JobFields, JobsMove DEF IInv, JobMoves, RowTypes
  <2>3. PostMoves
    BY PostsMove DEF IInv
  <2>4. ASSUME NEW q \in posts', q.kind = "final", q.job = j, Owns(q)'
        PROVE  q \in posts
    <3>1. q.runner = r
      BY <1>1, <2>4 DEF Owns
    <3>2. ~Sent(q)
      BY <1>1, <2>4, <3>1 DEF Sent, Writing
    <3>3. QED
      BY <2>3, <3>2 DEF PostMoves
  <2>5. CASE Wins(r)
    <3>1. runs'[j] = runs[j] + 1
      BY <2>5 DEF Wins
    <3>2. ~EndsIn(log'.stored, j, runs'[j])
      BY <2>1, <2>2, <3>1, EndsMove
    <3>3. ~KeepsRunning(j)
      BY <2>2, <3>1 DEF KeepsRunning
    <3>4. QED
      BY <2>4, <3>2, <3>3, OwnersStay
  <2>6. CASE ~Wins(r)
    <3>1. /\ runner[r].pc \in Writing /\ j = runner[r].job /\ KeepsRunning(j)
      BY <1>1, <2>6, WritersStay
    <3>2. job[j].status = "running" /\ job[j].owner = r /\ runs'[j] = runs[j]
      BY <1>1, <3>1 DEF KeepsRunning
    <3>3. ~LogEnds(j, runs[j]) /\ NoFinal(j)
      BY <3>1, <3>2 DEF IInv, WriterKnows, Writing
    <3>4. ~EndsIn(log'.stored, j, runs'[j])
      BY <2>1, <2>2, <3>2, <3>3, EndsMove DEF NoFinal
    <3>5. QED
      BY <2>4, <3>3, <3>4, OwnersStay DEF NoFinal
  <2>7. QED
    BY <2>5, <2>6
<1>2. QED
  BY <1>1 DEF WriterKnows, NoFinal, Owns, Writing, LogEnds, EndsIn

LEMMA TracesStep ==
  ASSUME IInv, [Next]_vars
  PROVE  TracesKnow'
<1>1. PostMoves
  BY PostsMove DEF IInv
<1>2. ASSUME NEW p \in posts', p.kind = "trace", Owns(p)'
      PROVE  /\ ~EndsIn(log'.stored, p.job, runs'[p.job])
             /\ \A q \in posts' : q.kind = "final" /\ q.job = p.job => ~Owns(q)'
  <2> DEFINE j == p.job
             r == p.runner
  <2>1. p \in Posts
    BY TypeStep DEF TypeOK
  <2>2. j \in Jobs /\ r \in Runners /\ runs[j] \in Nat
    BY <2>1, JobFields DEF Posts, IInv
  <2>3. /\ ~LogEnds(j, runs[j]) /\ NoFinal(j) /\ runs'[j] = runs[j]
        /\ Owns(p) /\ p.run = runs[j]
    <3>1. CASE p \in posts
      <4>1. Owns(p) /\ KeepsRunning(j)
        BY <1>2, <3>1, OwnersStay
      <4>2. QED
        BY <1>2, <3>1, <4>1 DEF IInv, TracesKnow, PostsKnow, Owns, KeepsRunning
    <3>2. CASE Sent(p)
      <4>1. /\ runner[r].pc = "executing" /\ runner[r].job = j /\ p.run = runner[r].run
            /\ job' = job /\ runs' = runs
        BY <1>2, <3>2 DEF Sent, Rowless
      <4>2. job[j].status = "running" /\ job[j].owner = r /\ Owns(p)
        BY <1>2, <4>1 DEF Owns
      <4>3. QED
        BY <2>2, <4>1, <4>2 DEF IInv, WriterKnows, RunnerKnows
    <3>3. QED
      BY <1>1, <3>1, <3>2 DEF PostMoves
  <2>4. ~EndsIn(log'.stored, j, runs'[j])
    BY <2>2, <2>3, EndsMove DEF NoFinal
  <2>5. ASSUME NEW q \in posts', q.kind = "final", q.job = j, Owns(q)'
        PROVE  FALSE
    <3>1. CASE q \in posts
      BY <2>3, <2>5, <3>1, OwnersStay DEF NoFinal
    <3>2. CASE Sent(q)
      <4>1. q \in Posts /\ job' = job /\ runs' = runs
        BY <3>2 DEF Sent, Rowless
      <4>2. q.runner = r /\ q.attempt = p.attempt
        BY <1>2, <2>5 DEF Owns
      <4>3. q.run = runner[r].run /\ runner[r].pc = "executing" /\ runner[r].job = j
        BY <2>5, <3>2, <4>2 DEF Sent
      <4>4. q.run = runs[j]
        BY <2>2, <2>3, <4>3 DEF IInv, RunnerKnows, Owns
      <4>5. [q EXCEPT !.kind = "trace"] = p
        BY <1>2, <2>1, <2>3, <2>5, <4>1, <4>2, <4>4 DEF Posts
      <4>6. p \notin posts /\ runner'[r].pc = "flushing"
        BY <2>5, <3>2, <4>2, <4>5 DEF Sent
      <4>7. Sent(p)
        BY <1>1, <4>6 DEF PostMoves
      <4>8. QED
        BY <1>2, <4>6, <4>7 DEF Sent
    <3>3. QED
      BY <1>1, <3>1, <3>2 DEF PostMoves
  <2>6. QED
    BY <2>4, <2>5
<1>3. QED
  BY <1>2 DEF TracesKnow, NoFinal, Owns, LogEnds, EndsIn

\* The chunk that is stored is of the execution that runs, whose log no chunk
\* but the last one ends.
LEMMA WriteKnows ==
  ASSUME IInv, NEW p \in posts, Appends(p)
  PROVE  /\ p.job \in Jobs /\ p.run = runs[p.job] /\ p.run \in Nat
         /\ job[p.job].status = "running"
         /\ p.kind = "trace" => ~LogEnds(p.job, p.run)
<1>1. p.job \in Jobs /\ p.run \in Nat
  BY DEF IInv, TypeOK, Posts
<1>2. p.run = runs[p.job] /\ Owns(p)
  BY HolderKnows DEF Appends, HoldsLease, Owns
<1>3. QED
  BY <1>1, <1>2 DEF IInv, TracesKnow, Owns

LEMMA HeldStep ==
  ASSUME IInv, [Next]_vars
  PROVE  HeldKnows'
<1> SUFFICES ASSUME NEW j \in Jobs
             PROVE  /\ \A e \in log'.held[j] : e <= runs'[j] /\ ~EndsIn(log'.stored, j, e)
                    /\ EndsIn(log'.stored, j, runs'[j]) => log'.held[j] = {}
  BY DEF HeldKnows, LogEnds, EndsIn
<1>1. /\ runs[j] \in Nat /\ runs'[j] \in Nat /\ runs[j] <= runs'[j]
      /\ log.held[j] \in SUBSET Nat
  <2>1. JobMoves /\ TypeOK
    BY JobsMove DEF IInv
  <2>2. log.held \in [Jobs -> SUBSET Nat]
    BY <2>1 DEF TypeOK
  <2>3. QED
    BY <2>1, <2>2, JobFields, RunsGrow DEF JobMoves, RowTypes
<1>2. /\ \A e \in log.held[j] : e <= runs[j] /\ ~LogEnds(j, e)
      /\ LogEnds(j, runs[j]) => log.held[j] = {}
  BY DEF IInv, HeldKnows
<1>3. CASE log' = log
  <2>1. \A e : EndsIn(log'.stored, j, e) <=> LogEnds(j, e)
    BY <1>3 DEF LogEnds, EndsIn
  <2>2. LogEnds(j, runs'[j]) => runs'[j] <= runs[j]
    BY <1>1, EndsMove
  <2>3. QED
    BY <1>1, <1>2, <1>3, <2>1, <2>2
<1>4. ASSUME NEW p \in posts, Appends(p)
      PROVE  /\ \A e \in log'.held[j] : e <= runs'[j] /\ ~EndsIn(log'.stored, j, e)
             /\ EndsIn(log'.stored, j, runs'[j]) => log'.held[j] = {}
  <2> DEFINE x == Chunk(p, Text(p))
  <2>1. /\ p.job \in Jobs /\ p.run = runs[p.job] /\ p.run \in Nat
        /\ p.kind = "trace" => ~LogEnds(p.job, p.run)
    BY <1>4, WriteKnows
  <2>2. PICK tail \in SUBSET Text(p) :
          /\ p.kind = "final" => tail = {}
          /\ log' = [stored |-> log.stored \cup {x},
                     held |-> [log.held EXCEPT ![p.job] = tail]]
    BY <1>4 DEF Appends
  <2>3. runs' = runs /\ p.kind \in {"trace", "final"} /\ log.held \in [Jobs -> SUBSET Nat]
    BY <1>4 DEF Appends, Rowless, IInv, TypeOK
  <2>4. x.job = p.job /\ x.run = p.run /\ x.final = (p.kind = "final")
    BY DEF Chunk
  <2> HIDE DEF x
  <2>5. \A e : EndsIn(log'.stored, j, e) <=>
          LogEnds(j, e) \/ (j = p.job /\ e = p.run /\ p.kind = "final")
    BY <2>2, <2>4 DEF LogEnds, EndsIn
  <2>6. CASE j # p.job
    BY <1>2, <2>1, <2>2, <2>3, <2>5, <2>6
  <2>7. CASE j = p.job /\ p.kind = "final"
    BY <2>1, <2>2, <2>3, <2>7
  <2>8. CASE j = p.job /\ p.kind = "trace"
    <3>1. log'.held[j] = tail /\ tail \subseteq log.held[j] \cup {p.run}
      BY <2>1, <2>2, <2>3, <2>8 DEF Text
    <3>2. QED
      BY <1>1, <1>2, <2>1, <2>3, <2>5, <2>8, <3>1
  <2>9. QED
    BY <2>3, <2>6, <2>7, <2>8
<1>5. QED
  BY <1>3, <1>4, LogMove DEF LogMoves

LEMMA TailsStep ==
  ASSUME IInv, [Next]_vars
  PROVE  OnlyTails'
<1>1. ASSUME NEW x \in log'.stored, NEW e \in x.of \ {x.run}
      PROVE  e < x.run /\ ~EndsIn(log'.stored, x.job, e)
  <2>1. x \in Chunks /\ x.job \in Jobs /\ e \in Nat /\ x.run \in Nat /\ runs[x.job] \in Nat
    BY <1>1, TypeStep, JobFields DEF TypeOK, Chunks, IInv
  <2>2. CASE x \in log.stored
    <3>1. e < x.run /\ ~LogEnds(x.job, e) /\ x.run <= runs[x.job]
      BY <1>1, <2>2 DEF IInv, LogIsOfItsRun, OnlyTails, LogKnows
    <3>2. QED
      BY <2>1, <3>1, EndsMove
  <2>3. CASE x \notin log.stored
    <3>1. PICK p \in posts : Appends(p) /\ x = Chunk(p, Text(p))
      BY <1>1, <2>3, LogMove DEF LogMoves, Appends
    <3>2. x.job = p.job /\ x.run = p.run /\ x.of = Text(p)
      BY <3>1 DEF Chunk
    <3>3. e \in log.held[x.job] /\ e # runs[x.job] /\ x.run = runs[x.job]
      BY <1>1, <3>1, <3>2, WriteKnows DEF Text
    <3>4. e <= runs[x.job] /\ ~LogEnds(x.job, e)
      BY <2>1, <3>3 DEF IInv, HeldKnows
    <3>5. QED
      BY <2>1, <3>3, <3>4, EndsMove
  <2>4. QED
    BY <2>2, <2>3
<1>2. QED
  BY <1>1 DEF OnlyTails, LogEnds, EndsIn

LEMMA SuccessLogStep ==
  ASSUME IInv, [Next]_vars
  PROVE  SuccessHasLog'
<1>1. ASSUME NEW j \in Chatty \ Noop, job'[j].status = "succeeded"
      PROVE  LogEnds(j, verdict'[j]) /\ log.held[j] = {} /\ log'.held[j] = log.held[j]
  <2>1. j \in Jobs
    BY CiAssumption
  <2>2. JobMove(j)
    BY <2>1, JobsMove DEF IInv, JobMoves
  <2>3. CASE Stays(j) \/ GetsReady(j)
    <3>1. job[j].status = "succeeded" /\ verdict'[j] = verdict[j]
      BY <1>1, <2>3 DEF Stays, GetsReady, SameRun, Becomes
    <3>2. log'.held[j] = log.held[j]
      BY <2>1, <3>1, HeldStays
    <3>3. QED
      BY <1>1, <3>1, <3>2 DEF IInv, LogIsOfItsRun, SuccessHasLog
  <2>4. CASE Ends(j) \/ Restarts(j) \/ Skips(j) \/ LosesLease(j) \/ Expires(j) \/ Starts(j)
    BY <1>1, <2>4 DEF Ends, Restarts, Skips, LosesLease, Expires, Starts, Becomes
  <2>5. CASE Finishes(j)
    <3>1. PICK p \in posts :
            /\ p.job = j /\ HoldsLease(j, p.attempt, p.runner) /\ p.kind = "complete"
            /\ runs'[j] = runs[j] /\ verdict'[j] = p.run
      BY <1>1, <2>5 DEF Finishes, Becomes
    <3>2. p.run = runs[j] /\ LogEnds(j, p.run)
      BY <1>1, <3>1, HolderKnows DEF IInv, PostsAreComplete
    <3>3. log'.held[j] = log.held[j]
      BY <1>1, <2>1, HeldStays
    <3>4. QED
      BY <2>1, <3>1, <3>2, <3>3 DEF IInv, HeldKnows
  <2>6. QED
    BY <2>2, <2>3, <2>4, <2>5 DEF JobMove
<1>2. \A j \in Chatty \ Noop : job'[j].status = "succeeded" =>
        EndsIn(log'.stored, j, verdict'[j]) /\ log'.held[j] = {}
  BY <1>1, EndsStay
<1>3. QED
  BY <1>2 DEF SuccessHasLog, LogEnds, EndsIn

LEMMA ResultStep ==
  ASSUME IInv, [Next]_vars
  PROVE  ResultIsOfLastRun'
<1>1. ASSUME NEW j \in Jobs, verdict'[j] # NoRun
      PROVE  verdict'[j] = runs'[j] /\ job'[j].status \in {"succeeded", "failed"}
  <2>1. JobMove(j)
    BY JobsMove DEF IInv, JobMoves
  <2>2. verdict[j] # NoRun => verdict[j] = runs[j] /\ job[j].status \in {"succeeded", "failed"}
    BY DEF IInv, ResultIsOfLastRun
  <2>3. CASE Stays(j) \/ GetsReady(j)
    BY <1>1, <2>2, <2>3 DEF Stays, GetsReady, SameRun, Becomes
  <2>4. CASE Restarts(j)
    BY <1>1, <2>4 DEF Restarts
  <2>5. CASE Ends(j) \/ Skips(j) \/ LosesLease(j) \/ Expires(j) \/ Starts(j)
    BY <1>1, <2>2, <2>5 DEF Ends, Skips, LosesLease, Expires, Starts, SameRun, Ready, Live
  <2>6. CASE Finishes(j)
    <3>1. PICK p \in posts :
            /\ p.job = j /\ HoldsLease(j, p.attempt, p.runner)
            /\ Becomes(j, IF p.kind = "complete" THEN "succeeded" ELSE "failed",
                       job[j].ready, job[j].attempts, job[j].max, NoRunner)
            /\ runs'[j] = runs[j] /\ verdict'[j] = p.run
      BY <2>6 DEF Finishes
    <3>2. QED
      BY <3>1, HolderKnows DEF Becomes
  <2>7. QED
    BY <2>1, <2>3, <2>4, <2>5, <2>6 DEF JobMove
<1>2. QED
  BY <1>1 DEF ResultIsOfLastRun

LEMMA CompleteStep ==
  ASSUME IInv, [Next]_vars
  PROVE  PostsAreComplete'
<1>1. PostMoves
  BY PostsMove DEF IInv
<1>2. ASSUME NEW p \in posts', p.kind = "complete"
      PROVE  /\ p.job \in Uploads => <<p.job, p.run>> \in artifacts'
             /\ p.job \in Chatty => LogEnds(p.job, p.run)
  BY <1>1, <1>2 DEF PostMoves, Sent, PostsAreComplete, IInv
<1>3. \A p \in posts' : p.kind = "complete" /\ p.job \in Chatty =>
        EndsIn(log'.stored, p.job, p.run)
  BY <1>2, EndsStay
<1>4. QED
  BY <1>2, <1>3 DEF PostsAreComplete, LogEnds, EndsIn

LEMMA ArtifactStep ==
  ASSUME IInv, [Next]_vars
  PROVE  SuccessHasArtifact'
<1>1. artifacts \subseteq artifacts'
  BY PostsMove DEF IInv, PostMoves
<1>2. ASSUME NEW j \in Uploads \ Noop, job'[j].status = "succeeded"
      PROVE  <<j, verdict'[j]>> \in artifacts
  <2>1. j \in Jobs
    BY CiAssumption
  <2>2. JobMove(j)
    BY <2>1, JobsMove DEF IInv, JobMoves
  <2>3. CASE Stays(j) \/ GetsReady(j)
    BY <1>2, <2>3 DEF Stays, GetsReady, SameRun, Becomes, IInv, SuccessHasArtifact
  <2>4. CASE Ends(j) \/ Restarts(j) \/ Skips(j) \/ LosesLease(j) \/ Expires(j) \/ Starts(j)
    BY <1>2, <2>4 DEF Ends, Restarts, Skips, LosesLease, Expires, Starts, Becomes
  <2>5. CASE Finishes(j)
    BY <1>2, <2>5 DEF Finishes, Becomes, IInv, PostsAreComplete
  <2>6. QED
    BY <2>2, <2>3, <2>4, <2>5 DEF JobMove
<1>3. QED
  BY <1>1, <1>2 DEF SuccessHasArtifact

-----------------------------------------------------------------------------
\* The pipeline, its refresh and the needs of its jobs.

LEMMA EndedStep ==
  ASSUME IInv, [Next]_vars
  PROVE  EndedPipelineRests'
<1> SUFFICES ASSUME pipeline' \in Settled, NEW j \in Members
             PROVE  job'[j].status \in Settled
  BY DEF EndedPipelineRests, Live, Settled
<1>1. PipelineMove
  BY PipelineMoves DEF IInv
<1>2. pipeline \in Settled => job[j].status \in Settled
  BY JobFields DEF IInv, EndedPipelineRests, Members
<1>3. QED
  BY <1>1, <1>2 DEF PipelineMove, Goes, Undisturbed, Concludes, IsCanceled, Reopens

LEMMA SuccessStep ==
  ASSUME IInv, [Next]_vars
  PROVE  SuccessIsComplete'
<1> SUFFICES ASSUME pipeline' = "succeeded", NEW j \in Members
             PROVE  job'[j].status = "succeeded"
  BY DEF SuccessIsComplete
<1>1. PipelineMove
  BY PipelineMoves DEF IInv
<1>2. pipeline = "succeeded" => job[j].status = "succeeded"
  BY DEF IInv, SuccessIsComplete
<1>3. "succeeded" \in Settled
  BY DEF Settled
<1>4. QED
  BY <1>1, <1>2, <1>3 DEF PipelineMove, Goes, Undisturbed, Concludes, IsCanceled, Reopens

LEMMA RefreshKnowsStep ==
  ASSUME IInv, [Next]_vars
  PROVE  RefreshKnows'
<1> SUFFICES ASSUME refresh'.held
             PROVE  /\ pipeline' \notin Settled
                    /\ \A j \in Members :
                         /\ refresh'.seen[j] \in Live \cup Settled
                         /\ refresh'.seen[j] \in Settled =>
                              job'[j].status = refresh'.seen[j]
  BY DEF RefreshKnows
<1>1. ~NoRefresh.held
  BY DEF NoRefresh
<1>2. PipelineMove
  BY PipelineMoves DEF IInv
<1>3. Goes
  BY <1>1, <1>2 DEF PipelineMove, Concludes, IsCanceled, Reopens
<1>4. CASE refresh' = refresh
  BY <1>3, <1>4 DEF Goes, Undisturbed, IInv, RefreshKnows
<1>5. CASE LooksAtJobs
  <2>1. \A j \in Members : job[j].status \in Live \cup Settled
    BY JobFields DEF IInv, Members
  <2>2. QED
    BY <1>3, <1>5, <2>1 DEF Goes, LooksAtJobs
<1>6. QED
  BY <1>1, <1>3, <1>4, <1>5 DEF Goes

LEMMA SuccessStays ==
  ASSUME IInv, [Next]_vars, NEW n \in Members, job[n].status = "succeeded"
  PROVE  job'[n].status = "succeeded" \/ RetryPipeline
<1>0. TypeOK /\ Busy /\ RefreshKnows /\ JobMoves /\ "succeeded" \in Settled
  BY JobsMove DEF IInv, Settled
<1>1. CASE QuietStep \/ JobOnly
  <2>1. count'.retries = count.retries
    BY <1>0, <1>1, QuietIsRowless, JobOnlyMoves
  <2>2. QED
    BY <1>0, <2>1, NoRetryNoRestart DEF Undisturbed
<1>2. CASE RefreshCommit \/ CancelLate \/ CancelPipeline
  <2>1. count'.retries = count.retries
    BY <1>0, <1>2, CancelsCount DEF RefreshCommit, CancelLate, CancelPipeline
  <2>2. QED
    BY <1>0, <2>1, NoRetryNoRestart DEF Undisturbed
<1>3. ASSUME NEW k \in Jobs, RetryJob(k)
      PROVE  job'[n] = job[n]
  <2>1. n \notin Again(k)
    BY <1>3 DEF RetryJob, Again
  <2>2. QED
    BY <1>0, <1>3, <2>1, RetryJobMoves DEF Members
<1>4. QED
  BY <1>1, <1>2, <1>3, NextCases

LEMMA NeedsStep ==
  ASSUME IInv, [Next]_vars
  PROVE  NeedsAreMet'
<1>1. ASSUME NEW j \in Jobs,
             \/ job'[j].status \in {"running", "succeeded"}
             \/ job'[j].status = "pending" /\ job'[j].ready,
             NEW n \in Needs[j]
      PROVE  job'[n].status = "succeeded"
  <2>1. n \in Members /\ j \in Members
    BY <1>1, CiAssumption DEF Members
  <2>2. JobMove(j)
    BY JobsMove DEF IInv, JobMoves
  <2>3. \/ job[j].status \in {"running", "succeeded"}
        \/ job[j].status = "pending" /\ job[j].ready
        => job[n].status = "succeeded"
    BY <1>1 DEF IInv, NeedsAreMet
  <2>4. job[n].status = "succeeded"
    <3>1. CASE Stays(j)
      BY <1>1, <2>3, <3>1 DEF Stays
    <3>2. CASE GetsReady(j)
      BY <1>1, <3>2 DEF GetsReady
    <3>3. CASE Ends(j)
      BY <1>1, <3>3 DEF Ends, Becomes
    <3>4. CASE Restarts(j)
      BY <1>1, <3>4 DEF Restarts, Becomes
    <3>5. CASE Skips(j) \/ LosesLease(j) \/ Expires(j) \/ Starts(j) \/ Finishes(j)
      BY <2>3, <3>5 DEF Skips, LosesLease, Expires, Starts, Finishes, Ready, HoldsLease
    <3>6. QED
      BY <2>2, <3>1, <3>2, <3>3, <3>4, <3>5 DEF JobMove
  <2>5. CASE RetryPipeline
    <3>1. job'[j] = Reset(job[j], FALSE)
      BY <2>1, <2>5 DEF RetryPipeline
    <3>2. job[j] \in JobRows /\ FALSE \in BOOLEAN
      BY JobFields DEF IInv
    <3>3. job'[j].status = "pending" /\ job'[j].ready = FALSE
      BY <3>1, <3>2, ResetRow
    <3>4. QED
      BY <1>1, <3>3
  <2>6. QED
    BY <2>1, <2>4, <2>5, SuccessStays
<1>2. QED
  BY <1>1 DEF NeedsAreMet

-----------------------------------------------------------------------------
\* The theorems.

LEMMA InitRow ==
  ASSUME NEW j \in Jobs
  PROVE  /\ NewJob(j) \in JobRows /\ NewJob(j).status = "pending"
         /\ NewJob(j).attempts < NewJob(j).max /\ NewJob(j).owner = NoRunner
         /\ NewJob(j).ready => Needs[j] = {}
<1>1. Tries \in Nat /\ 0 < Tries
  BY CiAssumption
<1>2. QED
  BY <1>1, Statuses DEF NewJob, JobRows

LEMMA InitIInv == Init => IInv
<1> SUFFICES ASSUME Init PROVE IInv
  OBVIOUS
<1>1. \A j \in Jobs : job[j] = NewJob(j)
  BY DEF Init
<1>2. job \in [Jobs -> JobRows]
  BY InitRow DEF Init
<1>3. \A j \in Jobs : /\ job[j].status = "pending" /\ job[j].owner = NoRunner
                      /\ job[j].attempts < job[j].max
                      /\ job[j].ready => Needs[j] = {}
  BY <1>1, InitRow
<1>4. \A j \in Jobs : job[j].attempts \in Nat /\ job[j].max \in Nat
  BY <1>2 DEF JobRows
<1>5. NoRefresh \in Refreshes /\ ~NoRefresh.held
  BY DEF NoRefresh, Refreshes
<1>6. IdleRunner \in RunnerStates /\ IdleRunner.pc = "idle"
  BY DEF IdleRunner, RunnerStates, NoRun
<1>7. count \in [retries : 0 .. MaxRetries, cancels : 0 .. MaxCancels]
  BY CiAssumption DEF Init
<1>8. TypeOK
  <2>1. \A j \in Jobs : /\ job[j].attempts <= job[j].max
                        /\ job[j].status = "running" <=> job[j].owner # NoRunner
    BY <1>3, <1>4
  <2>2. /\ runner \in [Runners -> RunnerStates] /\ runs \in [Jobs -> Nat]
        /\ verdict \in [Jobs -> Nat] /\ pipeline \in Live \cup Settled
    BY <1>6, Statuses DEF Init, NoRun
  <2>3. QED
    BY <1>2, <1>5, <1>7, <2>1, <2>2 DEF TypeOK, Init
<1>9. Busy /\ RunnerKnows /\ WriterKnows /\ RunnersFlush
  BY <1>6 DEF Busy, RunnerKnows, WriterKnows, RunnersFlush, Init
<1>10. RefreshKnows /\ EndedPipelineRests /\ SuccessIsComplete
  BY <1>5 DEF Init, RefreshKnows, EndedPipelineRests, SuccessIsComplete, Settled
<1>11. NeedsAreMet /\ WaitingIsClaimable
  BY <1>3 DEF NeedsAreMet, WaitingIsClaimable
<1>12. ExpiredKnows /\ PostsKnow /\ TracesKnow /\ PostsAreComplete
  BY DEF Init, ExpiredKnows, PostsKnow, TracesKnow, PostsAreComplete
<1>13. /\ ResultIsOfLastRun /\ LogKnows /\ HeldKnows
       /\ OneWriter /\ OnlyTails /\ SuccessHasLog
  <2>1. log.stored = {} /\ \A j \in Jobs : log.held[j] = {}
    BY DEF Init
  <2>2. QED
    BY <1>3, <2>1, CiAssumption
    DEF Init, ResultIsOfLastRun, LogKnows, HeldKnows, OneWriter, OnlyTails, SuccessHasLog
<1>14. SuccessHasArtifact
  BY <1>3, CiAssumption DEF SuccessHasArtifact
<1>15. QED
  BY <1>8, <1>9, <1>10, <1>11, <1>12, <1>13, <1>14
  DEF IInv, LogIsOfItsRun

LEMMA NextIInv == IInv /\ [Next]_vars => IInv'
<1> SUFFICES ASSUME IInv, [Next]_vars PROVE IInv'
  OBVIOUS
<1>1. TypeOK' /\ Busy' /\ RefreshKnows' /\ EndedPipelineRests' /\ SuccessIsComplete'
  BY TypeStep, BusyStep, RefreshKnowsStep, EndedStep, SuccessStep
<1>2. NeedsAreMet' /\ ExpiredKnows' /\ WaitingIsClaimable' /\ RunnerKnows'
  BY NeedsStep, ExpiredKnowsStep, WaitingStep, RunnerKnowsStep
<1>3. PostsKnow' /\ LogKnows' /\ HeldKnows' /\ WriterKnows' /\ TracesKnow'
  BY PostsKnowStep, LogKnowsStep, HeldStep, WriterStep, TracesStep
<1>4. /\ ResultIsOfLastRun' /\ LogIsOfItsRun' /\ RunnersFlush'
      /\ PostsAreComplete' /\ SuccessHasArtifact'
  BY ResultStep, OneRunStep, TailsStep, SuccessLogStep, FlushStep, CompleteStep,
     ArtifactStep DEF LogIsOfItsRun
<1>5. QED
  BY <1>1, <1>2, <1>3, <1>4 DEF IInv

THEOREM Invariance == Spec => []IInv
BY InitIInv, NextIInv, PTL DEF Spec

\* Rows, runners, posts, logs and artifacts keep their types, and no job ever
\* uses more attempts than it has been granted.
THEOREM TypeCorrect == Spec => []TypeOK
<1>1. IInv => TypeOK
  BY DEF IInv
<1>2. QED
  BY <1>1, Invariance, PTL

\* The refresh that ends a pipeline, and its cancellation, leave no job that
\* waits or runs, whatever has happened to the jobs since they were read, and a
\* pipeline shows success only when all its jobs do.
THEOREM EndIsOver == Spec => []EndedPipelineIsOver
<1>1. IInv => EndedPipelineIsOver
  BY DEF IInv, EndedPipelineIsOver
<1>2. QED
  BY <1>1, Invariance, PTL

\* While nothing runs and no refresh would end the pipeline, each of its jobs
\* waits or has succeeded, and one waits.
LEMMA SomeWait ==
  ASSUME TypeOK, PipelineStatus(View.seen) \notin Settled,
         \A j \in Members : job[j].status # "running"
  PROVE  /\ \A j \in Members : job[j].status \in {"pending", "succeeded"}
         /\ \E j \in Members : job[j].status = "pending"
<1> DEFINE seen == View.seen
           states == {seen[j] : j \in Members}
<1>1. \A j \in Members : seen[j] = job[j].status
  BY DEF View
<1>2. "failed" \notin states /\ "canceled" \notin states /\ states # {"succeeded"}
  BY DEF PipelineStatus, Settled
<1>3. \A j \in Members : job[j].status \in {"pending", "succeeded"}
  <2>1. ASSUME NEW j \in Members
        PROVE  job[j].status \in {"pending", "succeeded"}
    <3>1. job[j].status \in Live \cup Settled
      BY JobFields DEF Members
    <3>2. job[j].status \in states
      BY <1>1
    <3>3. QED
      BY <1>2, <3>1, <3>2 DEF Live, Settled
  <2>2. QED
    BY <2>1
<1>4. \E j \in Members : job[j].status # "succeeded"
  <2>1. SUFFICES ASSUME \A j \in Members : job[j].status = "succeeded"
                 PROVE  FALSE
    OBVIOUS
  <2>2. states = {"succeeded"}
    BY <1>1, <2>1, CiAssumption
  <2>3. QED
    BY <1>2, <2>2
<1>5. QED
  BY <1>3, <1>4

\* Of the jobs that wait one needs none of the others: it can be claimed, or the
\* next refresh makes it so.
LEMMA OneGetsOn ==
  ASSUME TypeOK, WaitingIsClaimable, PipelineStatus(View.seen) \notin Settled,
         \A j \in Members : job[j].status # "running"
  PROVE  \E j \in Members : Ready(j) \/ Releases(View, j)
<1> DEFINE waiting == {j \in Members : job[j].status = "pending"}
<1>1. PICK j \in waiting : Needs[j] \cap waiting = {}
  BY SomeWait, CiAssumption DEF Acyclic
<1>2. j \in Jobs /\ Needs[j] \subseteq Members
  BY CiAssumption DEF Members
<1>3. \A n \in Needs[j] : job[n].status = "succeeded"
  BY <1>1, <1>2, SomeWait
<1>4. CASE job[j].ready
  BY <1>1, <1>2, <1>4 DEF Ready, WaitingIsClaimable
<1>5. CASE ~job[j].ready
  <2>1. /\ View.seen[j] = "pending" /\ j \in View.blocked
        /\ \A n \in Needs[j] : View.seen[n] = "succeeded"
    BY <1>1, <1>2, <1>3, <1>5 DEF View
  <2>2. QED
    BY <2>1 DEF Releases
<1>6. QED
  BY <1>4, <1>5

\* A pipeline never gets stuck, for any needs without a circle and however its
\* jobs are claimed, lost, canceled and retried.
THEOREM NeverStuck == Spec => []PipelineGetsOn
<1>1. IInv => PipelineGetsOn
  BY OneGetsOn DEF IInv, PipelineGetsOn
<1>2. QED
  BY <1>1, Invariance, PTL

\* No job runs before all that it needs has succeeded, for any relation of
\* needs.
THEOREM NeedsFirst == Spec => []NeedsComeFirst
<1>1. IInv => NeedsComeFirst
  BY DEF IInv, NeedsAreMet, NeedsComeFirst
<1>2. QED
  BY <1>1, Invariance, PTL

\* A waiting job has an attempt left, for any number of attempts and retries.
THEOREM WaitingHasAttempts == Spec => []WaitingIsClaimable
<1>1. IInv => WaitingIsClaimable
  BY DEF IInv
<1>2. QED
  BY <1>1, Invariance, PTL

\* The result of a job is the one of its last execution, however many posts of
\* earlier ones are still on their way.
THEOREM LastRunDecides == Spec => []ResultIsOfLastRun
<1>1. IInv => ResultIsOfLastRun
  BY DEF IInv
<1>2. QED
  BY <1>1, Invariance, PTL

\* The log of an attempt is written by one execution, into which output of an
\* earlier one gets only as what that has left before its last chunk, and of
\* which nothing is missing when it has succeeded.
THEOREM LogsAreApart == Spec => []LogIsOfItsRun
<1>1. IInv => LogIsOfItsRun
  BY DEF IInv
<1>2. QED
  BY <1>1, Invariance, PTL

\* A job that has succeeded has the artifact of the execution that succeeded.
THEOREM SuccessIsStored == Spec => []SuccessHasArtifact
<1>1. IInv => SuccessHasArtifact
  BY DEF IInv
<1>2. QED
  BY <1>1, Invariance, PTL

\* Nothing but a retry changes a result.
THEOREM ResultsStand == Spec => ResultStands
<1>1. IInv /\ [Next]_vars =>
        [\A j \in Jobs : job[j].status \in Settled /\ job'[j].status # job[j].status =>
           count'.retries = count.retries + 1 /\ job'[j].status = "pending"]_vars
  <2> SUFFICES ASSUME IInv, [Next]_vars, NEW j \in Jobs, job[j].status \in Settled,
                      job'[j].status # job[j].status
               PROVE  count'.retries = count.retries + 1 /\ job'[j].status = "pending"
    OBVIOUS
  <2>1. Stays(j) \/ GetsReady(j) \/ Restarts(j)
    BY JobsMove, SettledMoves DEF IInv, JobMoves
  <2>2. Restarts(j)
    BY <2>1 DEF Stays, GetsReady, Becomes
  <2>3. QED
    BY <2>2 DEF Restarts, Becomes
<1>2. QED
  BY <1>1, Invariance, PTL DEF Spec, ResultStands
=============================================================================
