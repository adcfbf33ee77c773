----------------------------- MODULE SearchJobs -----------------------------
(***************************************************************************)
(* The search projection of one project.  Every change of the project asks *)
(* for a rebuild by raising a generation number in a row of the database   *)
(* (gity-persistence search_jobs); the search workers of the application   *)
(* instances (gity-platform global_search) claim the row under a lease,    *)
(* read issues and code, write them to a namespace of their own in the     *)
(* search engine, and publish its name in the row.  Database, engine and   *)
(* worker change one after the other; a worker may stop or be timed out    *)
(* between any two steps.                                                  *)
(***************************************************************************)
EXTENDS Integers, FiniteSets

CONSTANTS
  Workers,    \* search workers, one in every application instance
  Tokens,     \* names of leases and namespaces, used again when forgotten
  Refused,    \* contents that no build gets through: branches but no default
              \* branch, too many or too large issues and files
  Projects,   \* projects, the one of this row included
  Builds,     \* builds that all workers get through between one reconciliation
              \* and the next, at most four in two seconds of each
  MaxGen,     \* bound on generations
  MaxPushes,  \* bound on changes of the code
  MaxFaults   \* bound on faults: workers that stop or run into an error or
              \* their timeout, deletions that fail, leases that end too early

ASSUME SearchAssumption ==
  /\ IsFiniteSet(Workers) /\ IsFiniteSet(Tokens)
  /\ Projects \in Nat \ {0} /\ Builds \in Nat
  /\ MaxGen \in Nat \ {0} /\ MaxPushes \in Nat /\ MaxFaults \in Nat

Parts == {"issues", "code"}
NoToken == "no token"
BackOff == "back-off"
ASSUME TokenAssumption == NoToken \notin Tokens /\ BackOff \notin Tokens
ASSUME RefusedAssumption == Refused \subseteq [Parts -> Nat]

VARIABLES
  data,    \* data[p]: version of a part of the project
  row,     \* the search_index_jobs row
  asked,   \* asked[g]: the data when generation g was requested
  events,  \* Git events whose rebuild is still to be requested
  space,   \* space[t]: content of namespace t in the search engine
  worker,  \* worker[w]: what a worker does
  faults   \* faults so far

vars == <<data, row, asked, events, space, worker, faults>>

Empty == [p \in Parts |-> 0]
Absent == [p \in Parts |-> -1]
IdleWorker == [pc |-> "idle", token |-> NoToken, gen |-> 0,
               docs |-> Absent, prior |-> NoToken]

\* A project is created with its row; its first rebuild is requested when
\* the worker starts.
Init ==
  /\ data = Empty
  /\ row = [requested |-> 1, completed |-> 0, published |-> NoToken, pgen |-> 0,
            lease |-> NoToken, leased |-> 0, live |-> FALSE]
  /\ asked = [g \in 0 .. MaxGen |-> Empty]
  /\ events = 0
  /\ space = [t \in Tokens |-> Absent]
  /\ worker = [w \in Workers |-> IdleWorker]
  /\ faults = 0

-----------------------------------------------------------------------------
\* Changes and requests.

Marked == /\ row' = [row EXCEPT !.requested = @ + 1]
          /\ asked' = [asked EXCEPT ![row.requested + 1] = data']
\* The bound leaves a generation for the reconciliation that follows.
MayMark == row.requested < MaxGen
MayChange == row.requested + 1 < MaxGen

\* An issue is written, and the rebuild requested in the same transaction.
WriteIssue ==
  /\ MayChange
  /\ data' = [data EXCEPT !["issues"] = @ + 1]
  /\ Marked
  /\ UNCHANGED <<events, space, worker, faults>>

\* A branch is moved; the rebuild is requested later, or never.
PushCode ==
  /\ MayChange /\ events = 0 /\ data["code"] < MaxPushes
  /\ data' = [data EXCEPT !["code"] = @ + 1]
  /\ events' = events + 1
  /\ UNCHANGED <<row, asked, space, worker, faults>>

MarkEvent ==
  /\ events > 0 /\ events' = events - 1 /\ MayMark
  /\ UNCHANGED data /\ Marked
  /\ UNCHANGED <<space, worker, faults>>

LoseEvent ==
  /\ events > 0 /\ events' = events - 1
  /\ UNCHANGED <<data, row, asked, space, worker, faults>>

\* A worker requests a rebuild of every project, at its start and now and then.
Reconcile ==
  /\ MayMark /\ UNCHANGED data /\ Marked
  /\ UNCHANGED <<events, space, worker, faults>>

-----------------------------------------------------------------------------
\* The row.

Unfinished == row.requested > row.completed
\* Fault: an expired lease is not taken over.
NeverLeased == row.lease = NoToken
Unleased == row.lease = NoToken \/ ~row.live

Forgotten(t) ==
  /\ t \notin {row.lease, row.published} /\ space[t] = Absent
  /\ \A w \in Workers : t \notin {worker[w].token, worker[w].prior}

\* Fault: completion only asks whether a rebuild is due.
HoldsNothing(w) == Unfinished
Holds(w) ==
  row.lease = worker[w].token /\ row.leased = worker[w].gen /\ row.live

Goto(w, pc) == worker' = [worker EXCEPT ![w].pc = pc]
Rest(w) == worker' = [worker EXCEPT ![w] = IdleWorker]

FindWork(w) ==
  /\ worker[w].pc = "idle" /\ Unfinished /\ Unleased
  /\ worker' = [worker EXCEPT ![w].pc = "claiming", ![w].gen = row.requested]
  /\ UNCHANGED <<data, row, asked, events, space, faults>>

Claimable(w) == row.requested = worker[w].gen /\ Unfinished /\ Unleased

\* The names are new ones; which of the forgotten ones is taken is all the same.
Claim(w) ==
  /\ worker[w].pc = "claiming" /\ Claimable(w)
  /\ \E t \in Tokens : Forgotten(t)
  /\ LET t == CHOOSE u \in Tokens : Forgotten(u)
     IN  /\ row' = [row EXCEPT !.lease = t, !.leased = worker[w].gen, !.live = TRUE]
         /\ worker' = [worker EXCEPT ![w].pc = "issues", ![w].token = t]
  /\ UNCHANGED <<data, asked, events, space, faults>>

LoseClaim(w) ==
  /\ worker[w].pc = "claiming" /\ ~Claimable(w)
  /\ Rest(w)
  /\ UNCHANGED <<data, row, asked, events, space, faults>>

\* The lease outlives the worker's own limit by far: that it ends before the
\* worker does takes a stopped process or a clock that jumps.
InUse == \E w \in Workers : worker[w].token = row.lease
Fault == faults < MaxFaults /\ faults' = faults + 1

ExpireLease ==
  /\ row.lease # NoToken /\ row.live
  /\ row' = [row EXCEPT !.live = FALSE]
  /\ IF InUse THEN Fault ELSE UNCHANGED faults
  /\ UNCHANGED <<data, asked, events, space, worker>>

-----------------------------------------------------------------------------
\* The build of a worker that has claimed the row.

\* Issues are read first, the code of the default branch after them.  (Issues
\* are read in pages and not in a transaction: a version of "issues" is that of
\* one issue, read once.)
ReadPart(w, p, next) ==
  /\ worker' = [worker EXCEPT ![w].docs[p] = data[p], ![w].pc = next]
  /\ UNCHANGED <<data, row, asked, events, space, faults>>
ReadIssues(w) == worker[w].pc = "issues" /\ ReadPart(w, "issues", "code")

\* A content that is refused is an error of the build, as often as it is tried.
\* (Issues that are too many alone fail one step earlier, with the same effect.)
Read(w) == [worker[w].docs EXCEPT !["code"] = data["code"]]
ReadCode(w) ==
  /\ worker[w].pc = "code" /\ Read(w) \notin Refused
  /\ ReadPart(w, "code", "check")
RefuseBuild(w) ==
  /\ worker[w].pc = "code" /\ Read(w) \in Refused
  /\ worker' = [worker EXCEPT ![w].pc = "cleanup", ![w].docs = Absent]
  /\ UNCHANGED <<data, row, asked, events, space, faults>>

CheckCurrent(w) ==
  /\ worker[w].pc = "check"
  /\ IF Holds(w)
     THEN worker' = [worker EXCEPT ![w].pc = "write", ![w].prior = row.published]
     ELSE Rest(w)
  /\ UNCHANGED <<data, row, asked, events, space, faults>>

WriteSpace(w) ==
  /\ worker[w].pc = "write"
  /\ space' = [space EXCEPT ![worker[w].token] = worker[w].docs]
  /\ worker' = [worker EXCEPT ![w].pc = "publish", ![w].docs = Absent]
  /\ UNCHANGED <<data, row, asked, events, faults>>

\* Fault: what is requested by now counts as done.
PublishedLatest(w) ==
  [row EXCEPT !.completed = row.requested, !.published = worker[w].token,
              !.pgen = worker[w].gen,
              !.lease = NoToken, !.leased = 0, !.live = FALSE]
Published(w) ==
  [row EXCEPT !.completed = worker[w].gen, !.published = worker[w].token,
              !.pgen = worker[w].gen,
              !.lease = NoToken, !.leased = 0, !.live = FALSE]

Complete(w) ==
  /\ worker[w].pc = "publish"
  /\ IF Holds(w) THEN row' = Published(w) /\ Goto(w, "obsolete")
                 ELSE UNCHANGED row /\ Goto(w, "discard")
  /\ UNCHANGED <<data, asked, events, space, faults>>

\* A deletion may fail; what it leaves is forgotten with its name.
Delete(t) ==
  \/ /\ space' = [u \in Tokens |-> IF u = t THEN Absent ELSE space[u]]
     /\ UNCHANGED faults
  \/ Fault /\ UNCHANGED space

\* Fault: the namespace that is published by now is deleted.
PriorNow(w) == row.published
Prior(w) == worker[w].prior

DeletePrior(w) ==
  /\ worker[w].pc = "obsolete" /\ Delete(Prior(w)) /\ Rest(w)
  /\ UNCHANGED <<data, row, asked, events>>

Discard(w) ==
  /\ worker[w].pc = "discard" /\ Delete(worker[w].token) /\ Rest(w)
  /\ UNCHANGED <<data, row, asked, events>>

\* An error, or the 120 seconds are over: in the middle of a write as well,
\* which then has come to its end or has not.
TimeOut(w) ==
  /\ worker[w].pc \in {"issues", "code", "check", "write", "publish"}
  /\ Fault
  /\ \/ UNCHANGED space
     \/ /\ worker[w].pc = "write"
        /\ space' = [space EXCEPT ![worker[w].token] = worker[w].docs]
  /\ worker' = [worker EXCEPT ![w].pc = "cleanup", ![w].docs = Absent]
  /\ UNCHANGED <<data, row, asked, events>>

\* The error or the timeout comes when the row has been changed already: the
\* reply is lost, or the deletion of the old namespace takes too long.
LateTimeOut(w) ==
  /\ worker[w].pc = "obsolete" /\ Fault
  /\ Goto(w, "cleanup")
  /\ UNCHANGED <<data, row, asked, events, space>>

\* The lease is exchanged for one that nobody holds, and that ends after a while.
Retry(w) ==
  IF row.lease = worker[w].token /\ row.leased = worker[w].gen
  THEN row' = [row EXCEPT !.lease = BackOff, !.leased = 0, !.live = TRUE]
  ELSE UNCHANGED row

CleanUp(w) ==
  /\ worker[w].pc = "cleanup" /\ Delete(worker[w].token)
  /\ Goto(w, "retry")
  /\ UNCHANGED <<data, row, asked, events>>

ScheduleRetry(w) ==
  /\ worker[w].pc = "retry" /\ Retry(w) /\ Rest(w)
  /\ UNCHANGED <<data, asked, events, space, faults>>

\* The process ends.
Stop(w) ==
  /\ worker[w].pc # "idle" /\ Fault /\ Rest(w)
  /\ UNCHANGED <<data, row, asked, events, space>>

-----------------------------------------------------------------------------
ProjectNext == WriteIssue \/ PushCode \/ MarkEvent \/ LoseEvent
Work(w) ==
  \/ FindWork(w) \/ Claim(w) \/ LoseClaim(w)
  \/ ReadIssues(w) \/ ReadCode(w) \/ RefuseBuild(w) \/ CheckCurrent(w)
  \/ WriteSpace(w)
  \/ Complete(w) \/ DeletePrior(w) \/ Discard(w)
  \/ CleanUp(w) \/ ScheduleRetry(w)

Next ==
  \/ ProjectNext \/ Reconcile \/ ExpireLease
  \/ \E w \in Workers : Work(w) \/ TimeOut(w) \/ Stop(w)
Spec == Init /\ [][Next]_vars

\* A claim takes the row that was changed longest ago.  A reconciliation changes
\* every row, in the order of the projects, so that the order begins anew: if there
\* is not time for all of them before the next one, the last ones are never taken.
Reached == Projects <= Builds

\* The worker of an instance runs for ever, and requests rebuilds again and
\* again; a build that was started goes on; a lease that nobody renews expires.
Fairness ==
  /\ WF_vars(Reconcile) /\ WF_vars(~InUse /\ ExpireLease)
  /\ \A w \in Workers : WF_vars(worker[w].pc # "idle" /\ Work(w))
  /\ Reached => \A w \in Workers : WF_vars(FindWork(w))
FairSpec == Spec /\ Fairness

\* The same with errors and timeouts after the publication.
LateNext == Next \/ \E w \in Workers : LateTimeOut(w)
LateSpec == Init /\ [][LateNext]_vars
FairLateSpec == LateSpec /\ Fairness

-----------------------------------------------------------------------------
Content == [Parts -> Nat]
Docs == [Parts -> Nat \cup {-1}]
Generations == 0 .. MaxGen
Rows ==
  [requested : Generations, completed : Generations,
   published : Tokens \cup {NoToken}, pgen : Generations,
   lease : Tokens \cup {NoToken, BackOff}, leased : Generations, live : BOOLEAN]
WorkerStates ==
  [pc : {"idle", "claiming", "issues", "code", "check", "write", "publish",
         "obsolete", "discard", "cleanup", "retry"},
   token : Tokens \cup {NoToken}, gen : Generations, docs : Docs,
   prior : Tokens \cup {NoToken}]

Visible == IF row.published = NoToken THEN Empty ELSE space[row.published]

\* Every variable has its type; a generation is done at most when it has been
\* requested, and the published one is the one that is done.
TypeOK ==
  /\ data \in Content
  /\ row \in Rows /\ row.completed <= row.requested /\ row.pgen = row.completed
  /\ asked \in [Generations -> Content]
  /\ events \in 0 .. 1
  /\ space \in [Tokens -> Docs]
  /\ worker \in [Workers -> WorkerStates]
  /\ faults \in 0 .. MaxFaults

\* The namespace that queries are sent to is there, and whole: no worker
\* deletes it, neither one that has lost its lease nor one that cleans up.
PublishedIsStored ==
  row.published # NoToken => space[row.published] # Absent

\* What the index shows is no older than the project was when the generation
\* that counts as done was requested: with has_pending false, every change
\* that has asked for a rebuild can be found, also one made during a build.
NotPendingIsFresh == \A p \in Parts : Visible[p] >= asked[row.completed][p]

\* Queries never go back to an older version of a part, and see no version
\* that was not there: a worker whose lease another has taken publishes nothing.
Index == INSTANCE SearchIndex WITH visible <- Visible
ImplementsIndex == Index!Spec

\* When changes end, all of them can be found in the end, although events are
\* lost, workers stop and time out, and builds were refused: as long as what the
\* project has come to is not refused itself.
EventuallyIndexed == <>[](data \notin Refused) => <>[](Visible = data)

\* docs/en/global-search.md:69: a rebuild that fails leaves what queries see.
FailedRebuildRetains ==
  [][\A w \in Workers : CleanUp(w) => Visible' = Visible]_vars
=============================================================================
