----------------------------- MODULE MergeJournal -----------------------------
(***************************************************************************)
(* Merging a merge request, which changes Git references and database rows *)
(* without a common transaction.  A merge claims an operation row that     *)
(* pins the two branch tips (gity-collaboration), takes the row lock of    *)
(* that operation in a database transaction it keeps open, asks Git to     *)
(* merge (gity-git), and completes the transaction with what Git did.      *)
(* Recovery and abort take the same lock (gity-platform).                  *)
(*                                                                         *)
(* The Git part is a job: it runs on a blocking worker or a storage node   *)
(* and is not stopped when the caller that waits for it, and holds the row *)
(* lock, goes away.  It prepares, moves the branch and records a receipt   *)
(* in three separate steps and may be cut short between any two of them.   *)
(*                                                                         *)
(* One repository, one source and one target branch.  A commit is a name,  *)
(* a branch head a name with everything reachable from it.                 *)
(***************************************************************************)
EXTENDS Integers, FiniteSets

CONSTANTS
  MRs,         \* merge requests from the source to the target branch
  NoConfig,    \* commits without a .gity-ci.yml
  BadConfig,   \* commits whose .gity-ci.yml makes no pipeline: it does not
               \* parse, is not UTF-8 or is longer than a mebibyte
  Callers,     \* application instances serving merge and abort requests
  Recoverers,  \* maintenance loops, one in an application instance
  MaxOps,      \* bound on claimed merge operations
  MaxPushes,   \* bound on pushed commits
  MaxRewinds,  \* bound on forced pushes of an earlier head
  MaxFails,    \* bound on failing Git and database calls
  MaxCancels   \* bound on callers that vanish during a request

NoMR == "none"

ASSUME MergeAssumption ==
  /\ IsFiniteSet(MRs) /\ MRs # {} /\ NoMR \notin MRs
  /\ Callers \cap Recoverers = {} /\ NoConfig \cap BadConfig = {}
  /\ MaxOps \in Nat /\ MaxPushes \in Nat /\ MaxRewinds \in Nat
  /\ MaxFails \in Nat /\ MaxCancels \in Nat

Ops == 1 .. MaxOps
Actors == Callers \cup Recoverers
Branches == {"source", "target"}

\* Names of commits and the values that stand in the place of one.
Pushed(k) == <<"push", k>>
MergeOf(o) == <<"merge", o>>
Commits ==
  {Pushed(k) : k \in 0 .. MaxPushes + 1} \cup {MergeOf(o) : o \in Ops}
Rejected == <<"rejected", 0>>
Nothing == <<"nothing", 0>>
Outcomes == Commits \cup {Rejected}

VARIABLES
  head,      \* head[b]: commit of branch b with all commits it reaches
  past,      \* past[b]: every head branch b has had
  prepared,  \* prepared[o]: candidate in refs/gity/merge-prepared/o
  marker,    \* marker[o]: receipt in refs/gity/merge-operations/o
  mr,        \* mr[m]: the merge request row
  op,        \* op[o]: the merge_operations row
  pipelines, \* commits for which a push pipeline of the target exists
  act,       \* act[a]: the request an actor handles
  job,       \* job[a]: the Git call of actor a, as Git sees it
  count      \* pushes, rewinds, failures and cancellations so far

gitVars == <<head, past, prepared, marker>>
dbVars == <<mr, op, pipelines>>
vars == <<gitVars, dbVars, act, job, count>>

NoOp == 0
FirstHead ==
  [source |-> [tip |-> Pushed(1), all |-> {Pushed(0), Pushed(1)}],
   target |-> [tip |-> Pushed(0), all |-> {Pushed(0)}]]
NoRow == [status |-> "none", mr |-> NoMR, source |-> Nothing,
          target |-> Nothing, sha |-> Nothing, delivered |-> FALSE]
Idle == [pc |-> "idle", does |-> "none", mr |-> NoMR, op |-> NoOp,
         source |-> Nothing, target |-> Nothing, out |-> Nothing]
NoJob == [pc |-> "none", op |-> NoOp, abort |-> FALSE, out |-> Nothing,
          head |-> FirstHead.target]

Init ==
  /\ head = FirstHead
  /\ past = [b \in Branches |-> {FirstHead[b]}]
  /\ prepared = [o \in Ops |-> Nothing]
  /\ marker = [o \in Ops |-> Nothing]
  /\ mr = [m \in MRs |-> [state |-> "opened", active |-> NoOp, sha |-> Nothing]]
  /\ op = [o \in Ops |-> NoRow]
  /\ pipelines = {}
  /\ act = [a \in Actors |-> Idle]
  /\ job = [a \in Actors |-> NoJob]
  /\ count = [pushes |-> 0, rewinds |-> 0, fails |-> 0, cancels |-> 0]

-----------------------------------------------------------------------------
\* Locks.  The row lock of an operation is held from the locking update of
\* its transaction to the commit or rollback; the reference locks belong to
\* the job and end with it.

Locking == {"marker", "proof", "git", "settle"}
RowFree(o) == \A a \in Actors : act[a].op = o => act[a].pc \notin Locking

\* Fault: the branches, or the outcome reference, are not locked.
NeverLocked == TRUE
MarkerUnlocked(o) == TRUE

MarkerFree(o) ==
  \A a \in Actors :
    job[a].op = o => job[a].pc \notin {"marked", "prepared", "settling", "landed"}
BranchesFree == \A a \in Actors : job[a].pc \notin {"prepared", "settling"}

Goto(a, pc) == act' = [act EXCEPT ![a].pc = pc]
Execute(a, what, o) ==
  act' = [act EXCEPT ![a] = [Idle EXCEPT !.pc = "execute", !.does = what, !.op = o]]

\* The end of a request.  A maintenance loop remembers how far it has come.
End(a) ==
  act' = [act EXCEPT
            ![a] = [Idle EXCEPT !.op = IF a \in Recoverers THEN act[a].op ELSE NoOp]]

MayFail == /\ count.fails < MaxFails
           /\ count' = [count EXCEPT !.fails = @ + 1]

-----------------------------------------------------------------------------
\* Requests up to the row lock.

\* POST merge: the row, and with it the operation a former request left
\* pending; without one the row must be open and the source tip is read.
StartMerge(a, m) ==
  /\ a \in Callers /\ act[a].pc = "idle"
  /\ \/ /\ mr[m].active # NoOp
        /\ act' = [act EXCEPT ![a].pc = "reconcile", ![a].does = "merge",
                              ![a].op = mr[m].active]
     \/ /\ mr[m].active = NoOp /\ mr[m].state = "opened"
        /\ act' = [act EXCEPT ![a].pc = "pin", ![a].does = "merge",
                              ![a].mr = m, ![a].source = head.source.tip]
  /\ UNCHANGED <<gitVars, dbVars, job, count>>

PinTarget(a) ==
  /\ act[a].pc = "pin"
  /\ act' = [act EXCEPT ![a].pc = "claim", ![a].target = head.target.tip]
  /\ UNCHANGED <<gitVars, dbVars, job, count>>

\* One transaction under the row lock of the merge request.
ReuseClaim(a) ==
  /\ act[a].pc = "claim" /\ mr[act[a].mr].active # NoOp
  /\ Execute(a, "merge", mr[act[a].mr].active)
  /\ UNCHANGED <<gitVars, dbVars, job, count>>

RefuseClaim(a) ==
  /\ act[a].pc = "claim"
  /\ mr[act[a].mr].active = NoOp /\ mr[act[a].mr].state # "opened"
  /\ End(a)
  /\ UNCHANGED <<gitVars, dbVars, job, count>>

\* Fault: the claim does not check for an operation of another caller.
ClaimTwice(a, o) ==
  LET m == act[a].mr IN
  /\ act[a].pc = "claim" /\ op[o].status = "none"
  /\ op' = [op EXCEPT ![o] = [status |-> "pending", mr |-> m,
                              source |-> act[a].source, target |-> act[a].target,
                              sha |-> Nothing, delivered |-> FALSE]]
  /\ mr' = [mr EXCEPT ![m].active = o]
  /\ Execute(a, "merge", o)
  /\ UNCHANGED <<gitVars, pipelines, job, count>>

Claim(a, o) ==
  LET m == act[a].mr IN
  /\ act[a].pc = "claim"
  /\ mr[m].active = NoOp /\ mr[m].state = "opened"
  /\ op[o].status = "none" /\ \A p \in 1 .. o - 1 : op[p].status # "none"
  /\ op' = [op EXCEPT ![o] = [status |-> "pending", mr |-> m,
                              source |-> act[a].source, target |-> act[a].target,
                              sha |-> Nothing, delivered |-> FALSE]]
  /\ mr' = [mr EXCEPT ![m].active = o]
  /\ Execute(a, "merge", o)
  /\ UNCHANGED <<gitVars, pipelines, job, count>>

\* POST merge/abort, by an owner: only an active operation can be aborted.
StartAbort(a, m) ==
  /\ a \in Callers /\ act[a].pc = "idle" /\ mr[m].active # NoOp
  /\ Execute(a, "abort", mr[m].active)
  /\ UNCHANGED <<gitVars, dbVars, job, count>>

\* Fault: the scan leaves out operations that only lack their pipeline.
UnfinishedPending(o) == op[o].status = "pending"

\* A maintenance tick handles the unfinished operations in the order of
\* their ids and starts again when it has come to the end.
Unfinished(o) ==
  op[o].status = "pending" \/ (op[o].status = "applied" /\ ~op[o].delivered)

RecoverNext(a, o) ==
  /\ a \in Recoverers /\ act[a].pc = "idle"
  /\ o > act[a].op /\ Unfinished(o)
  /\ \A p \in act[a].op + 1 .. o - 1 : ~Unfinished(p)
  /\ act' = [act EXCEPT ![a].op = o, ![a].does = "recover",
               ![a].pc = IF op[o].status = "pending" THEN "reconcile" ELSE "deliver"]
  /\ UNCHANGED <<gitVars, dbVars, job, count>>

RecoverAgain(a) ==
  /\ a \in Recoverers /\ act[a].pc = "idle" /\ act[a].op # NoOp
  /\ \A o \in Ops : o > act[a].op => ~Unfinished(o)
  /\ act' = [act EXCEPT ![a] = Idle]
  /\ UNCHANGED <<gitVars, dbVars, job, count>>

\* PATCH of the state: refused while an operation is active, and for a
\* merged merge request.  "closed" also stands for a draft.
UpdateState(m) ==
  /\ mr[m].active = NoOp /\ mr[m].state # "merged"
  /\ mr' = [mr EXCEPT ![m].state = IF @ = "opened" THEN "closed" ELSE "opened"]
  /\ UNCHANGED <<gitVars, op, pipelines, act, job, count>>

-----------------------------------------------------------------------------
\* Requests under the row lock.  The row is read again once it is locked.

FindSettled(a) ==
  /\ act[a].pc \in {"reconcile", "execute"} /\ RowFree(act[a].op)
  /\ op[act[a].op].status # "pending"
  /\ Goto(a, "deliver")
  /\ UNCHANGED <<gitVars, dbVars, job, count>>

\* Fault: recovery reads the row without locking it.
ReconcileUnlocked(a) ==
  /\ act[a].pc = "reconcile" /\ op[act[a].op].status = "pending"
  /\ Goto(a, "marker")
  /\ UNCHANGED <<gitVars, dbVars, job, count>>

LockToReconcile(a) ==
  /\ act[a].pc = "reconcile" /\ RowFree(act[a].op)
  /\ op[act[a].op].status = "pending"
  /\ Goto(a, "marker")
  /\ UNCHANGED <<gitVars, dbVars, job, count>>

\* Fault: the status is not read again under the row lock.
ExecuteStale(a) ==
  /\ act[a].pc = "execute" /\ RowFree(act[a].op) /\ job[a] = NoJob
  /\ job' = [job EXCEPT ![a].pc = "queued", ![a].op = act[a].op,
                        ![a].abort = act[a].does = "abort"]
  /\ Goto(a, "git")
  /\ UNCHANGED <<gitVars, dbVars, count>>

LockToExecute(a) ==
  /\ act[a].pc = "execute" /\ RowFree(act[a].op)
  /\ op[act[a].op].status = "pending"
  /\ job[a] = NoJob
  /\ job' = [job EXCEPT ![a].pc = "queued", ![a].op = act[a].op,
                        ![a].abort = act[a].does = "abort"]
  /\ Goto(a, "git")
  /\ UNCHANGED <<gitVars, dbVars, count>>

\* Reading the proof takes no reference lock: the receipt first, then the
\* candidate against the target.
Landed(o) == prepared[o] # Nothing /\ prepared[o] \in head.target.all

ReadMarker(a) ==
  /\ act[a].pc = "marker"
  /\ LET m == marker[act[a].op] IN
     act' = [act EXCEPT ![a].pc = IF m = Nothing THEN "proof" ELSE "settle",
                        ![a].out = m]
  /\ UNCHANGED <<gitVars, dbVars, job, count>>

\* Fault: a candidate in the target is not taken for proof.
ReadNoProof(a) ==
  /\ act[a].pc = "proof"
  /\ \/ act[a].does = "merge" /\ Goto(a, "execute")
     \/ End(a)
  /\ UNCHANGED <<gitVars, dbVars, job, count>>

\* Without proof the lock is released.  A merge goes on when the approvals,
\* pipelines and access rules of the moment allow it.
ReadProof(a) ==
  /\ act[a].pc = "proof"
  /\ \/ /\ Landed(act[a].op)
        /\ act' = [act EXCEPT ![a].pc = "settle", ![a].out = prepared[act[a].op]]
     \/ /\ ~Landed(act[a].op) /\ act[a].does = "merge" /\ Goto(a, "execute")
     \/ /\ ~Landed(act[a].op) /\ End(a)
  /\ UNCHANGED <<gitVars, dbVars, job, count>>

Reply(a) ==
  /\ act[a].pc = "git" /\ job[a].pc \in {"done", "failed"}
  /\ \/ /\ job[a].pc = "done"
        /\ act' = [act EXCEPT ![a].pc = "settle", ![a].out = job[a].out]
     \/ /\ job[a].pc = "failed" /\ End(a)
  /\ job' = [job EXCEPT ![a] = NoJob]
  /\ UNCHANGED <<gitVars, dbVars, count>>

\* Fault: the completion does not look which of the two outcomes it got.
SettleAsApplied(a) ==
  LET o == act[a].op IN
  /\ act[a].pc = "settle"
  /\ op' = [op EXCEPT ![o].status = "applied", ![o].sha = act[a].out]
  /\ mr' = [mr EXCEPT ![op[o].mr] = [state |-> "merged", active |-> NoOp,
                                     sha |-> act[a].out]]
  /\ Goto(a, "deliver")
  /\ UNCHANGED <<gitVars, pipelines, job, count>>

\* The end of the transaction that holds the row lock.
Settle(a) ==
  LET o == act[a].op  m == op[o].mr  out == act[a].out IN
  /\ act[a].pc = "settle" /\ mr[m].active = o
  /\ \/ /\ out = Rejected
        /\ op' = [op EXCEPT ![o].status = "rejected"]
        /\ mr' = [mr EXCEPT ![m].active = NoOp]
     \/ /\ out # Rejected
        /\ op' = [op EXCEPT ![o].status = "applied", ![o].sha = out]
        /\ mr' = [mr EXCEPT ![m] = [state |-> "merged", active |-> NoOp, sha |-> out]]
  /\ act' = [act EXCEPT ![a].pc = "deliver", ![a].out = Nothing]
  /\ UNCHANGED <<gitVars, pipelines, job, count>>

\* Fault: the operation is marked before its pipeline is created.
MarkFirst(a) ==
  /\ act[a].pc = "deliver" /\ op[act[a].op].status = "applied"
  /\ op' = [op EXCEPT ![act[a].op].delivered = TRUE]
  /\ Goto(a, "delivered")
  /\ UNCHANGED <<gitVars, mr, pipelines, job, count>>

\* Reading a file of a commit is refused unless a branch reaches it, which a
\* forced push may end for a merge that has landed.
Reachable(c) == c \in head.source.all \cup head.target.all
Deliverable(c) == Reachable(c) /\ c \notin BadConfig

\* Creating the push pipeline, at least once: it is unique for a branch and
\* a commit, and there is none for a commit without a .gity-ci.yml.  On an
\* error the row stays undelivered and every later tick tries it again.
Deliver(a) ==
  LET o == act[a].op  c == op[o].sha  due == op[o].status = "applied" /\ ~op[o].delivered IN
  /\ act[a].pc = "deliver"
  /\ \/ /\ due /\ Deliverable(c)
        /\ pipelines' = pipelines \cup ({c} \ NoConfig)
        /\ Goto(a, "delivered")
     \/ /\ ~(due /\ Deliverable(c))
        /\ End(a)
        /\ UNCHANGED pipelines
  /\ UNCHANGED <<gitVars, mr, op, job, count>>

MarkDelivered(a) ==
  /\ act[a].pc = "delivered"
  /\ op' = [op EXCEPT ![act[a].op].delivered = TRUE]
  /\ End(a)
  /\ UNCHANGED <<gitVars, mr, pipelines, job, count>>

\* A call of the actor fails: reading Git, the database, the pipeline.  The
\* open transaction is rolled back, which releases the row lock.
Fail(a) ==
  /\ act[a].pc \in {"marker", "proof", "settle", "deliver", "delivered"}
  /\ MayFail
  /\ End(a)
  /\ UNCHANGED <<gitVars, dbVars, job>>

\* The actor vanishes: its client disconnects, its process dies, or the
\* connection to the storage node breaks.  The transaction is rolled back;
\* a Git call that was started goes on.
Vanish(a) ==
  /\ act[a].pc # "idle"
  /\ count.cancels < MaxCancels
  /\ count' = [count EXCEPT !.cancels = @ + 1]
  /\ act' = [act EXCEPT ![a] = Idle]
  /\ job' = [job EXCEPT ![a] = IF @.pc \in {"done", "failed"} THEN NoJob ELSE @]
  /\ UNCHANGED <<gitVars, dbVars>>

-----------------------------------------------------------------------------
\* The Git job.

\* Its answer, for a caller that still waits.
JobEnds(a, pc, out) ==
  job' = [job EXCEPT
            ![a] = IF act[a].pc = "git"
                     THEN [NoJob EXCEPT !.pc = pc, !.out = out]
                     ELSE NoJob]

\* Fault: the job does not look for a receipt of an earlier attempt.
JobStartAnew(a) ==
  /\ job[a].pc = "queued" /\ MarkerFree(job[a].op)
  /\ job' = [job EXCEPT ![a].pc = "marked"]
  /\ UNCHANGED <<gitVars, dbVars, act, count>>

\* Lock the outcome reference, which fails at once when it is locked, and
\* return a receipt that is there already.
JobStart(a) ==
  LET o == job[a].op IN
  /\ job[a].pc = "queued"
  /\ \/ /\ ~MarkerFree(o) /\ JobEnds(a, "failed", Nothing)
     \/ /\ MarkerFree(o) /\ marker[o] # Nothing
        /\ JobEnds(a, "done", marker[o])
     \/ /\ MarkerFree(o) /\ marker[o] = Nothing
        /\ job' = [job EXCEPT ![a].pc = "marked"]
  /\ UNCHANGED <<gitVars, dbVars, act, count>>

\* The merge of the two pinned tips: the target itself when it already
\* reaches the source.  It depends on the pins only, so a retry that finds
\* the pins unchanged finds the commit of the prepared receipt again.
Candidate(o) ==
  LET s == head.source  t == head.target IN
  IF s.tip \in t.all
    THEN t
    ELSE [tip |-> MergeOf(o), all |-> s.all \cup t.all \cup {MergeOf(o)}]

PinsMatch(o) == head.source.tip = op[o].source /\ head.target.tip = op[o].target

\* Lock the branches and decide.  The row of the operation is its input.
JobConclude(a, out) ==
  /\ job' = [job EXCEPT ![a].pc = "settling", ![a].out = out]
  /\ UNCHANGED prepared

\* Fault: an abort rejects without looking for a merge that has landed.
AbortFirst(a) ==
  /\ job[a].pc = "marked" /\ BranchesFree
  /\ \/ job[a].abort /\ JobConclude(a, Rejected)
     \/ /\ ~job[a].abort /\ PinsMatch(job[a].op)
        /\ prepared' = [prepared EXCEPT ![job[a].op] = Candidate(job[a].op).tip]
        /\ job' = [job EXCEPT ![a].pc = "prepared", ![a].head = Candidate(job[a].op),
                              ![a].out = Candidate(job[a].op).tip]
  /\ UNCHANGED <<head, past, marker, dbVars, act, count>>

JobDecide(a) ==
  LET o == job[a].op IN
  /\ job[a].pc = "marked"
  /\ \/ /\ ~BranchesFree
        /\ JobEnds(a, "failed", Nothing)
        /\ UNCHANGED prepared
     \/ /\ BranchesFree /\ Landed(o)
        /\ JobConclude(a, prepared[o])
     \/ /\ BranchesFree /\ ~Landed(o) /\ job[a].abort
        /\ JobConclude(a, Rejected)
     \/ /\ BranchesFree /\ ~Landed(o) /\ ~job[a].abort /\ ~PinsMatch(o)
        /\ \/ prepared[o] = Nothing /\ JobConclude(a, Rejected)
           \/ /\ prepared[o] # Nothing
              /\ JobEnds(a, "failed", Nothing)
              /\ UNCHANGED prepared
     \/ /\ BranchesFree /\ ~Landed(o) /\ ~job[a].abort /\ PinsMatch(o)
        /\ \/ /\ prepared[o] = Nothing /\ head.source.tip \notin head.target.all
              /\ JobConclude(a, Rejected)  \* the merge conflicts
           \/ /\ prepared[o] \in {Nothing, Candidate(o).tip}
              /\ prepared' = [prepared EXCEPT ![o] = Candidate(o).tip]
              /\ job' = [job EXCEPT ![a].pc = "prepared", ![a].head = Candidate(o),
                                    ![a].out = Candidate(o).tip]
  /\ UNCHANGED <<head, past, marker, dbVars, act, count>>

\* Commit the branch transaction, which releases the branches.
JobLand(a) ==
  /\ job[a].pc = "prepared"
  /\ head' = [head EXCEPT !.target = job[a].head]
  /\ past' = [past EXCEPT !.target = @ \cup {job[a].head}]
  /\ job' = [job EXCEPT ![a].pc = "landed"]
  /\ UNCHANGED <<prepared, marker, dbVars, act, count>>

\* Fault: the receipt is written before the branch has moved.
RecordEarly(a) ==
  /\ job[a].pc \in {"settling", "prepared"}
  /\ marker' = [marker EXCEPT ![job[a].op] = job[a].out]
  /\ JobEnds(a, "done", job[a].out)
  /\ UNCHANGED <<head, past, prepared, dbVars, act, count>>

\* Commit the outcome reference.
JobRecord(a) ==
  /\ job[a].pc \in {"settling", "landed"}
  /\ marker' = [marker EXCEPT ![job[a].op] = job[a].out]
  /\ JobEnds(a, "done", job[a].out)
  /\ UNCHANGED <<head, past, prepared, dbVars, act, count>>

\* An error, or the end of the process that runs the job.
JobFail(a) ==
  /\ job[a].pc \in {"queued", "marked", "prepared", "settling", "landed"}
  /\ MayFail
  /\ JobEnds(a, "failed", Nothing)
  /\ UNCHANGED <<gitVars, dbVars, act>>

-----------------------------------------------------------------------------
\* Other writers of the branches, which lock the reference they write.

SetBranch(b, h) ==
  /\ BranchesFree
  /\ head' = [head EXCEPT ![b] = h]
  /\ past' = [past EXCEPT ![b] = @ \cup {h}]
  /\ UNCHANGED <<prepared, marker, dbVars, act, job>>

\* A push on top of a branch, also of a merge of the other one.
Push(b) ==
  LET c == Pushed(count.pushes + 2) IN
  /\ count.pushes < MaxPushes
  /\ count' = [count EXCEPT !.pushes = @ + 1]
  /\ \E merged \in {{}, head.source.all, head.target.all} :
       SetBranch(b, [tip |-> c, all |-> head[b].all \cup merged \cup {c}])

\* A forced push of a head the branch once had.
Rewind(b) ==
  /\ count.rewinds < MaxRewinds
  /\ count' = [count EXCEPT !.rewinds = @ + 1]
  /\ \E h \in past[b] \ {head[b]} : SetBranch(b, h)

-----------------------------------------------------------------------------
Handles(a) ==
  \/ PinTarget(a) \/ ReuseClaim(a) \/ RefuseClaim(a) \/ (\E o \in Ops : Claim(a, o))
  \/ FindSettled(a) \/ LockToReconcile(a) \/ LockToExecute(a)
  \/ ReadMarker(a) \/ ReadProof(a) \/ Reply(a) \/ Settle(a)
  \/ Deliver(a) \/ MarkDelivered(a)

Recovers(a) == RecoverAgain(a) \/ \E o \in Ops : RecoverNext(a, o)

JobRuns(a) == JobStart(a) \/ JobDecide(a) \/ JobLand(a) \/ JobRecord(a)

Next ==
  \/ \E a \in Actors :
       \/ Handles(a) \/ Recovers(a) \/ JobRuns(a)
       \/ Fail(a) \/ Vanish(a) \/ JobFail(a)
       \/ \E m \in MRs : StartMerge(a, m) \/ StartAbort(a, m)
  \/ \E m \in MRs : UpdateState(m)
  \/ \E b \in Branches : Push(b) \/ Rewind(b)

Spec == Init /\ [][Next]_vars

\* Requests and jobs run on, the maintenance loop ticks; nobody has to issue
\* a request, to push, or to fail.
Fairness ==
  /\ \A a \in Actors : WF_vars(Handles(a)) /\ WF_vars(JobRuns(a))
  /\ \A a \in Recoverers : WF_vars(Recovers(a))

FairSpec == Spec /\ Fairness

-----------------------------------------------------------------------------
\* Every variable has its type: states of the rows and of the requests are
\* those of the code, receipts and results are outcomes, a bound row is
\* a claimed operation.
Heads == [tip : Commits, all : SUBSET Commits]

TypeOK ==
  /\ head \in [Branches -> Heads]
  /\ past \in [Branches -> SUBSET Heads]
  /\ prepared \in [Ops -> Commits \cup {Nothing}]
  /\ marker \in [Ops -> Outcomes \cup {Nothing}]
  /\ mr \in [MRs -> [state : {"opened", "closed", "merged"},
                     active : Ops \cup {NoOp}, sha : Commits \cup {Nothing}]]
  /\ op \in [Ops -> [status : {"none", "pending", "applied", "rejected"},
                     mr : MRs \cup {NoMR},
                     source : Commits \cup {Nothing}, target : Commits \cup {Nothing},
                     sha : Commits \cup {Nothing}, delivered : BOOLEAN]]
  /\ pipelines \subseteq Commits
  /\ act \in [Actors ->
       [pc : {"idle", "pin", "claim", "reconcile", "execute", "marker", "proof",
              "git", "settle", "deliver", "delivered"},
        does : {"none", "merge", "abort", "recover"}, mr : MRs \cup {NoMR},
        op : Ops \cup {NoOp}, source : Commits \cup {Nothing},
        target : Commits \cup {Nothing}, out : Outcomes \cup {Nothing}]]
  /\ job \in [Actors ->
       [pc : {"none", "queued", "marked", "prepared", "settling", "landed",
              "done", "failed"},
        op : Ops \cup {NoOp}, abort : BOOLEAN, out : Outcomes \cup {Nothing},
        head : Heads]]
  /\ count \in [{"pushes", "rewinds", "fails", "cancels"} -> Nat]

\* A merge request is bound to an operation exactly as long as that one is
\* pending, so at most one operation of it is; and it is merged exactly when
\* one of its operations was applied, with the commit of that operation.
\* Claim, settle and the state update are three transactions of different
\* handlers over the two rows.
RowsAgree ==
  \A m \in MRs :
    LET mine(s) == {o \in Ops : op[o].mr = m /\ op[o].status = s} IN
    /\ mine("pending") = IF mr[m].active = NoOp THEN {} ELSE {mr[m].active}
    /\ \/ mr[m].state # "merged" /\ mine("applied") = {}
       \/ /\ mr[m].state = "merged" /\ mr[m].active = NoOp
          /\ \E o \in Ops : mine("applied") = {o} /\ op[o].sha = mr[m].sha

\* A merged merge request names a commit that the target branch really has
\* reached, at the tip it had some time, prepared by its own operation: the
\* database never runs ahead of Git, whatever failed or was retried.
MergedIsLanded ==
  \A o \in Ops : op[o].status = "applied" =>
    /\ op[o].sha = prepared[o]
    /\ \E h \in past.target : op[o].sha \in h.all

\* A rejected operation has not moved the target: as long as nobody forces
\* an earlier head on a branch, the candidate of an operation the database
\* or the receipt calls rejected is not in the target branch.
RejectedIsAbsent ==
  \A o \in Ops :
    (marker[o] = Rejected \/ op[o].status = "rejected") /\ count.rewinds = 0
      => ~Landed(o)

\* The database and the receipt never record different outcomes of one
\* operation, also when the proof became unreachable by a forced push
\* (merge_guard_tests.rs).  A finished row may lack its receipt, never
\* contradict it.
DatabaseAgreesWithReceipt ==
  \A o \in Ops :
    op[o].status \in {"applied", "rejected"} /\ marker[o] # Nothing =>
      IF marker[o] = Rejected THEN op[o].status = "rejected"
      ELSE op[o].status = "applied" /\ op[o].sha = marker[o]

\* A delivered merge has its push pipeline, unless its commit has no
\* .gity-ci.yml to make one from.
DeliveredHasPipeline ==
  \A o \in Ops : op[o].delivered => op[o].sha \in pipelines \cup NoConfig

\* The outcome reference is written once, and a candidate is never replaced
\* by another one: every retry of an operation merges the same commit.
ReceiptsImmutable ==
  [][\A o \in Ops :
       /\ marker[o] # Nothing => marker'[o] = marker[o]
       /\ prepared[o] # Nothing => prepared'[o] = prepared[o]]_vars

Lands(a) == job[a].pc = "prepared" /\ job'[a].pc = "landed"

\* An abort fences stale attempts: no job, not even one that was started
\* before and lost its caller, moves the target for an operation that has
\* an outcome in Git or was rejected in the database.
AbortFences ==
  [][\A a \in Actors : Lands(a) =>
       marker[job[a].op] = Nothing /\ op[job[a].op].status # "rejected"]_vars

\* Landing a merge loses no commit: what the target reached when the merge
\* was prepared and when it lands is reachable afterwards.
LandingKeepsCommits ==
  [][\A a \in Actors : Lands(a) => head.target.all \subseteq head'.target.all]_vars

\* Git is left alone once the row of the operation is complete.
CompleteIsFinal ==
  [][\A a \in Actors : Lands(a) => op[job[a].op].status = "pending"]_vars

\* What Git has done is recorded in the database in the end: an operation
\* with a receipt, or whose candidate stays in the target, does not stay
\* pending, although its first caller may have failed or vanished.
ProofIsRecorded ==
  \A o \in Ops :
    <>[](marker[o] # Nothing \/ Landed(o))
      => <>(op[o].status \in {"applied", "rejected"})

\* An applied merge is delivered in the end, whoever failed or vanished on
\* the way, if from some time on its commit stays reachable and the file in
\* it, if there is one, is valid.  Otherwise it need not be: a merge that is
\* forced off its branch before its delivery is tried at every tick for ever.
AppliedIsDelivered ==
  \A o \in Ops :
    <>[](op[o].status = "applied" /\ Deliverable(op[o].sha)) => <>op[o].delivered

-----------------------------------------------------------------------------
\* The outcome of an operation: its receipt, or the commit the database has
\* recorded from the candidate it found in the target.
Decided(o) ==
  IF marker[o] # Nothing THEN marker[o]
  ELSE IF op[o].status = "applied" THEN op[o].sha ELSE Nothing

Promise == INSTANCE MergeDecision WITH
  owner <- [o \in Ops |-> op[o].mr],
  decision <- [o \in Ops |-> Decided(o)],
  recorded <- {o \in Ops : op[o].status \in {"applied", "rejected"}},
  merged <- [m \in MRs |-> mr[m].sha]

\* The journal implements its promise: through locks, retries, crashes of
\* the job, forced pushes and recovery, an operation is decided once and the
\* database records that decision once.
DecidesOnce == Promise!Spec

=============================================================================
