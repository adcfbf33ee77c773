-------------------------- MODULE MergeDecisionProofs --------------------------
(***************************************************************************)
(* Theorems about MergeJournal on what Git and the database decide.  They  *)
(* never record different outcomes of an operation, and the journal        *)
(* implements MergeDecision, as long as not both of two things have        *)
(* happened: a caller vanished and left a Git call behind, and somebody    *)
(* forced an earlier head on a branch.  Either alone is harmless, any      *)
(* number of times, for any number of requests, instances, operations and  *)
(* failures; with one of each the run mj_orphan finds the two disagreeing. *)
(***************************************************************************)
EXTENDS MergeContentProofs

NotBoth == count.cancels = 0 \/ count.rewinds = 0

-----------------------------------------------------------------------------
\* The row lock.  A request that holds it works on a pending row, alone, also
\* when callers vanish: that only releases locks.  A job, left behind or not,
\* works for an operation that was claimed.

OneLocker ==
  \A a, b \in Actors :
    act[a].pc \in Locking /\ act[b].pc \in Locking /\ act[a].op = act[b].op => a = b

LockedPending ==
  \A a \in Actors : act[a].pc \in Locking => op[act[a].op].status = "pending"

JobsClaimed ==
  \A a \in Actors : job[a].pc \in Running => op[job[a].op].status # "none"

Locker == OneLocker /\ LockedPending /\ JobsClaimed

LEMMA InitLocker == Init => Locker
  BY DEF Init, Locker, OneLocker, LockedPending, JobsClaimed, Idle, NoJob, Running,
     Held, Locking

\* One request moves; it gets its lock on a free and pending row, and changes
\* the status of a row only when it gives up the lock on it.
LEMMA MoveLocker ==
  ASSUME Locker, Typed, NEW a \in Actors,
         \A b \in Actors \ {a} : act'[b] = act[b],
         act'[a].pc \in Locking =>
           /\ act'[a].op = act[a].op /\ act[a].op \in Ops
           /\ op[act[a].op].status = "pending"
           /\ act[a].pc \in Locking \/ RowFree(act[a].op),
         \A o \in Ops : \/ op'[o].status = op[o].status
                        \/ op[o].status = "none" /\ op'[o].status # "none"
                        \/ /\ act[a].pc \in Locking /\ act[a].op = o
                           /\ act'[a].pc \notin Locking /\ op'[o].status # "none",
         \A b \in Actors : job'[b].pc \in Running =>
           job'[b] = job[b] \/ op'[job'[b].op].status # "none"
  PROVE  Locker'
  <1>1. OneLocker'
    BY DEF Locker, OneLocker, RowFree
  <1>2. LockedPending'
    <2> SUFFICES ASSUME NEW b \in Actors, act'[b].pc \in Locking
                 PROVE  op'[act'[b].op].status = "pending"
      BY DEF LockedPending
    <2>1. act'[b].op = act[b].op /\ op[act[b].op].status = "pending"
      BY DEF Locker, LockedPending
    <2>2. act[b].op \in Ops
      <3>1. act[b].pc \in Locking \/ b = a
        OBVIOUS
      <3>2. CASE act[b].pc \in Locking
        BY <3>2, Reads DEF Requests, Locking
      <3>3. CASE b = a /\ act[a].pc \notin Locking
        BY <3>3
      <3>. QED BY <3>1, <3>2, <3>3
    <2>3. ~(/\ act[a].pc \in Locking /\ act[a].op = act[b].op
            /\ act'[a].pc \notin Locking)
      BY DEF Locker, OneLocker
    <2>. QED BY <2>1, <2>2, <2>3
  <1>3. JobsClaimed'
    <2> SUFFICES ASSUME NEW b \in Actors, job'[b].pc \in Running, job'[b] = job[b]
                 PROVE  op'[job'[b].op].status # "none"
      BY DEF JobsClaimed
    <2>1. job[b].op \in Ops /\ op[job[b].op].status # "none"
      BY Reads DEF Jobs, Locker, JobsClaimed
    <2>. QED BY <2>1
  <1>. QED BY <1>1, <1>2, <1>3 DEF Locker

\* The steps that only change the request.
LEMMA RequestsLocker ==
  ASSUME Typed, Locker, NEW a \in Actors,
         \/ \E m \in MRs : StartMerge(a, m) \/ StartAbort(a, m)
         \/ PinTarget(a) \/ ReuseClaim(a) \/ RefuseClaim(a)
         \/ (\E o \in Ops : RecoverNext(a, o)) \/ RecoverAgain(a)
         \/ FindSettled(a) \/ LockToReconcile(a) \/ ReadMarker(a) \/ ReadProof(a)
  PROVE  /\ Locker'
         /\ act'[a].pc \in Locking =>
              /\ act'[a].op = act[a].op /\ act[a].op \in Ops
              /\ ReadMarker(a) \/ ReadProof(a) \/ LockToReconcile(a)
  <1>1. UNCHANGED <<job, op>> /\ \A b \in Actors \ {a} : act'[b] = act[b]
    BY RequestMoves DEF dbVars
  <1>2. ActTyped /\ act[a] \in Requests
    BY Reads DEF Typed
  <1> DEFINE
        Lock == act'[a].pc \in Locking =>
                  /\ act'[a].op = act[a].op /\ act[a].op \in Ops
                  /\ op[act[a].op].status = "pending"
                  /\ act[a].pc \in Locking \/ RowFree(act[a].op)
                  /\ ReadMarker(a) \/ ReadProof(a) \/ LockToReconcile(a)
  <1>3. ASSUME ReadMarker(a) \/ ReadProof(a) PROVE Lock
    <2>1. /\ act[a].pc \in Locking /\ op[act[a].op].status = "pending"
          /\ act[a].op \in Ops
      BY <1>2, <1>3 DEF ReadMarker, ReadProof, Locking, Requests, Locker, LockedPending
    <2>2. CASE ReadMarker(a)
      BY <1>2, <1>3, <2>1, <2>2 DEF ReadMarker, ActTyped, Requests
    <2>3. CASE act' = [act EXCEPT ![a].pc = "settle", ![a].out = prepared[act[a].op]]
      BY <1>2, <1>3, <2>1, <2>3 DEF ActTyped, Requests
    <2>4. CASE Goto(a, "execute") \/ End(a)
      BY <1>2, <2>4, OneMoves DEF Locking
    <2>. QED BY <1>3, <2>2, <2>3, <2>4 DEF ReadProof
  <1>4. ASSUME LockToReconcile(a) PROVE Lock
    <2>1. act'[a].pc = "marker" /\ act'[a].op = act[a].op
      BY <1>2, <1>4 DEF LockToReconcile, Goto, ActTyped, Requests
    <2>2. act[a].op \in Ops
      BY <1>2, <1>4 DEF LockToReconcile, Requests
    <2>. QED BY <1>4, <2>1, <2>2 DEF LockToReconcile
  <1>5. ASSUME \/ ReuseClaim(a) \/ RefuseClaim(a) \/ FindSettled(a)
               \/ \E m \in MRs : StartAbort(a, m)
        PROVE  act'[a].pc \notin Locking
    BY <1>2, <1>5, OneMoves DEF ReuseClaim, RefuseClaim, FindSettled, StartAbort,
       Locking
  <1>6. ASSUME PinTarget(a) \/ RecoverAgain(a) PROVE act'[a].pc \notin Locking
    BY <1>2, <1>6 DEF PinTarget, RecoverAgain, ActTyped, Requests, Idle, Locking
  <1>7. ASSUME NEW m \in MRs, StartMerge(a, m) PROVE act'[a].pc \notin Locking
    <2>1. CASE act' = [act EXCEPT ![a].pc = "reconcile", ![a].does = "merge",
                                  ![a].op = mr[m].active]
      BY <1>2, <2>1 DEF ActTyped, Requests, Locking
    <2>2. CASE act' = [act EXCEPT ![a].pc = "pin", ![a].does = "merge",
                                  ![a].mr = m, ![a].source = head.source.tip]
      BY <1>2, <2>2 DEF ActTyped, Requests, Locking
    <2>. QED BY <1>7, <2>1, <2>2 DEF StartMerge
  <1>8. ASSUME NEW o \in Ops, RecoverNext(a, o) PROVE act'[a].pc \notin Locking
    BY <1>2, <1>8 DEF RecoverNext, ActTyped, Requests, Locking
  <1>9. Lock
    BY <1>3, <1>4, <1>5, <1>6, <1>7, <1>8
  <1>. QED BY <1>1, <1>9, MoveLocker

\* The steps on the rows end the lock.
LEMMA RowsLocker ==
  ASSUME Typed, Locker, NEW a \in Actors,
         \/ \E o \in Ops : Claim(a, o)
         \/ Settle(a) \/ Deliver(a) \/ MarkDelivered(a) \/ Fail(a)
  PROVE  Locker' /\ act'[a].pc \notin Locking
  <1>1. job' = job /\ \A b \in Actors \ {a} : act'[b] = act[b]
    BY RowMoves
  <1>2. ActTyped /\ act[a] \in Requests
    BY Reads DEF Typed
  <1>3. act'[a].pc \notin Locking
    <2>1. ASSUME NEW o \in Ops, Claim(a, o) PROVE act'[a].pc = "execute"
      BY <1>2, <2>1, OneMoves DEF Claim
    <2>2. ASSUME Settle(a) PROVE act'[a].pc = "deliver"
      BY <1>2, <2>2 DEF Settle, ActTyped, Requests
    <2>3. ASSUME Deliver(a) \/ MarkDelivered(a) \/ Fail(a)
          PROVE  act'[a].pc \in {"delivered", "idle"}
      BY <1>2, <2>3, OneMoves DEF Deliver, MarkDelivered, Fail
    <2>. QED BY <2>1, <2>2, <2>3 DEF Locking
  <1> DEFINE Rows == \A o \in Ops :
                       \/ op'[o].status = op[o].status
                       \/ op[o].status = "none" /\ op'[o].status # "none"
                       \/ /\ act[a].pc \in Locking /\ act[a].op = o
                          /\ op'[o].status # "none"
  <1>4. ASSUME NEW o \in Ops, Claim(a, o) PROVE Rows
    BY <1>4, ClaimMoves
  <1>5. ASSUME Settle(a) PROVE Rows
    BY <1>5, SettleMoves DEF Settle, Locking
  <1>6. ASSUME Deliver(a) \/ MarkDelivered(a) \/ Fail(a) PROVE Rows
    BY <1>6, OtherRows
  <1>7. Rows
    BY <1>4, <1>5, <1>6
  <1>. QED BY <1>1, <1>3, <1>7, MoveLocker

\* The call of a job, its answer, and a caller that goes away.
LEMMA CallLocker ==
  ASSUME Typed, Locker, NEW a \in Actors, LockToExecute(a) \/ Reply(a) \/ Vanish(a)
  PROVE  Locker'
  <1>1. op' = op /\ ActTyped /\ JobTyped /\ act[a] \in Requests /\ job[a] \in Jobs
    BY Reads DEF LockToExecute, Reply, Vanish, dbVars, Typed
  <1>2. \A b \in Actors \ {a} : act'[b] = act[b] /\ job'[b] = job[b]
    BY <1>1, OneMoves DEF LockToExecute, Reply, Vanish, ActTyped, JobTyped
  <1>3. CASE LockToExecute(a)
    <2>1. /\ act'[a].op = act[a].op /\ act[a].op \in Ops /\ job'[a].op = act[a].op
          /\ op[act[a].op].status = "pending" /\ RowFree(act[a].op)
      BY <1>1, <1>3 DEF LockToExecute, Goto, ActTyped, JobTyped, Requests, Jobs
    <2>. QED BY <1>1, <1>2, <2>1, MoveLocker
  <1>4. CASE Reply(a)
    <2>1. job'[a].pc = "none"
      BY <1>1, <1>4 DEF Reply, JobTyped, NoJob
    <2>2. act[a].pc \in Locking /\ op[act[a].op].status = "pending" /\ act[a].op \in Ops
      BY <1>1, <1>4 DEF Reply, Requests, Locker, LockedPending, Locking
    <2>3. CASE act' = [act EXCEPT ![a].pc = "settle", ![a].out = job[a].out]
      <3>1. act'[a].op = act[a].op
        BY <1>1, <2>3 DEF ActTyped, Requests
      <3>. QED BY <1>1, <1>2, <2>1, <2>2, <3>1, MoveLocker DEF Running, Held
    <2>4. CASE End(a)
      <3>1. act'[a].pc \notin Locking
        BY <1>1, <2>4, OneMoves DEF Locking
      <3>. QED BY <1>1, <1>2, <2>1, <3>1, MoveLocker DEF Running, Held
    <2>. QED BY <1>4, <2>3, <2>4 DEF Reply
  <1>5. CASE Vanish(a)
    <2>1. act'[a].pc \notin Locking
      BY <1>1, <1>5 DEF Vanish, ActTyped, Idle, Locking
    <2>2. job'[a] = job[a] \/ job'[a].pc \notin Running
      BY <1>1, <1>5 DEF Vanish, JobTyped, NoJob, Running, Held
    <2>. QED BY <1>1, <1>2, <2>1, <2>2, MoveLocker
  <1>. QED BY <1>3, <1>4, <1>5

\* A job keeps to its operation.
LEMMA JobsLocker ==
  ASSUME Typed, Locker, NEW a \in Actors, JobRuns(a) \/ JobFail(a)
  PROVE  Locker'
  <1>1. /\ UNCHANGED <<act, op>> /\ JobTyped /\ job[a] \in Jobs
        /\ job[a].pc \in Running /\ job[a].op \in Ops
    BY Reads DEF Typed, JobRuns, JobStart, JobDecide, JobLand, JobRecord, JobFail,
       dbVars, Running, Held, Jobs
  <1>2. ASSUME \A b \in Actors \ {a} : job'[b] = job[b],
               job'[a].pc \in Running => job'[a].op = job[a].op
        PROVE  Locker'
    BY <1>1, <1>2 DEF Locker, OneLocker, LockedPending, JobsClaimed
  <1>3. ASSUME NEW pc \in {"done", "failed"}, NEW out, JobEnds(a, pc, out)
        PROVE  Locker'
    BY <1>1, <1>2, <1>3, Ended
  <1>4. CASE JobStart(a)
    <2>1. CASE job' = [job EXCEPT ![a].pc = "marked"]
      BY <1>1, <1>2, <2>1 DEF JobTyped, Jobs
    <2>. QED BY <1>3, <1>4, <2>1 DEF JobStart
  <1>5. CASE JobDecide(a)
    <2>1. ASSUME NEW out, JobConclude(a, out) PROVE Locker'
      BY <1>1, <1>2, <2>1 DEF JobConclude, JobTyped, Jobs
    <2>2. CASE job' = [job EXCEPT ![a].pc = "prepared", ![a].head = Candidate(job[a].op),
                                  ![a].out = Candidate(job[a].op).tip]
      BY <1>1, <1>2, <2>2 DEF JobTyped, Jobs
    <2>. QED BY <1>3, <1>5, <2>1, <2>2 DEF JobDecide
  <1>6. CASE JobLand(a)
    BY <1>2, <1>6, LandMoves
  <1>7. CASE JobRecord(a)
    BY <1>3, <1>7 DEF JobRecord
  <1>8. CASE JobFail(a)
    BY <1>3, <1>8 DEF JobFail
  <1>. QED BY <1>4, <1>5, <1>6, <1>7, <1>8 DEF JobRuns

LEMMA NextLocker == Typed /\ Locker /\ [Next]_vars => Locker'
  <1> SUFFICES ASSUME Typed, Locker, [Next]_vars PROVE Locker'
    OBVIOUS
  <1>1. ASSUME NEW a \in Actors, Handles(a) \/ Recovers(a) \/ Fail(a) \/ Vanish(a)
        PROVE  Locker'
    BY <1>1, RequestsLocker, RowsLocker, CallLocker DEF Handles, Recovers
  <1>2. ASSUME NEW a \in Actors, NEW m \in MRs, StartMerge(a, m) \/ StartAbort(a, m)
        PROVE  Locker'
    BY <1>2, RequestsLocker
  <1>3. ASSUME NEW a \in Actors, JobRuns(a) \/ JobFail(a) PROVE Locker'
    BY <1>3, JobsLocker
  <1>4. ASSUME UNCHANGED <<op, act, job>> PROVE Locker'
    BY <1>4 DEF Locker, OneLocker, LockedPending, JobsClaimed
  <1>5. ASSUME NEW m \in MRs, UpdateState(m) PROVE Locker'
    BY <1>4, <1>5 DEF UpdateState
  <1>6. ASSUME NEW b \in Branches, Push(b) \/ Rewind(b) PROVE Locker'
    BY <1>4, <1>6, WriteMoves
  <1>7. CASE UNCHANGED vars
    BY <1>4, <1>7 DEF vars, dbVars
  <1>. QED BY <1>1, <1>2, <1>3, <1>5, <1>6, <1>7 DEF Next

-----------------------------------------------------------------------------
\* Nobody completes a merge past a receipt that rejects it.  While no caller
\* has vanished the row lock sees to that, whatever is forced on the branches:
\* every job runs under the lock of its request, so that a request that has
\* read the receipt and found none still finds none when it completes.

OutcomesAgree ==
  /\ \A a \in Actors :
       /\ act[a].pc = "settle" /\ act[a].out # Rejected
            => marker[act[a].op] # Rejected
       /\ job[a].pc = "done" /\ job[a].out # Rejected
            => marker[act[a].op] # Rejected
  /\ \A o \in Ops : op[o].status = "applied" => marker[o] # Rejected

Waited == \A a \in Actors : job[a].pc \in Running => act[a].pc = "git"

ReadStands ==
  \A a \in Actors : act[a].pc = "proof" => marker[act[a].op] = Nothing

Attended == Waited /\ ReadStands /\ OutcomesAgree

Attending == count.cancels = 0 => Attended

LEMMA InitAttending == Init => Attending
  BY DEF Init, Attending, Attended, Waited, ReadStands, OutcomesAgree, Idle, NoJob,
     NoRow, Running, Held

\* Vanishing callers are counted.
LEMMA CancelsCount ==
  ASSUME Typed, [Next]_vars, count'.cancels = 0
  PROVE  count.cancels = 0 /\ \A a \in Actors : ~Vanish(a)
  <1>1. /\ count \in [{"pushes", "rewinds", "fails", "cancels"} -> Nat]
        /\ count.cancels \in Nat
    BY DEF Typed, CountTyped, Counts
  <1>2. ASSUME NEW a \in Actors, Vanish(a) PROVE FALSE
    <2>1. count'.cancels = count.cancels + 1
      BY <1>1, <1>2 DEF Vanish
    <2>. QED BY <1>1, <2>1
  <1>3. MayFail => count'.cancels = count.cancels
    BY <1>1 DEF MayFail
  <1>4. ASSUME NEW a \in Actors,
               \/ Handles(a) \/ Recovers(a) \/ JobRuns(a)
               \/ \E m \in MRs : StartMerge(a, m) \/ StartAbort(a, m)
        PROVE  count' = count
    BY <1>4 DEF Handles, Recovers, JobRuns, PinTarget, ReuseClaim, StartMerge,
       StartAbort, RefuseClaim, Claim, FindSettled, LockToReconcile, LockToExecute,
       ReadMarker, ReadProof, Reply, Settle, Deliver, MarkDelivered, RecoverAgain,
       RecoverNext, JobStart, JobDecide, JobLand, JobRecord
  <1>5. ASSUME NEW a \in Actors, Fail(a) \/ JobFail(a)
        PROVE  count'.cancels = count.cancels
    BY <1>3, <1>5 DEF Fail, JobFail
  <1>6. ASSUME NEW b \in Branches, Push(b) \/ Rewind(b)
        PROVE  count'.cancels = count.cancels
    BY <1>1, <1>6 DEF Push, Rewind
  <1>7. (\E m \in MRs : UpdateState(m)) \/ UNCHANGED vars => count' = count
    BY DEF UpdateState, vars
  <1>. QED BY <1>2, <1>4, <1>5, <1>6, <1>7 DEF Next

\* A request moves that has no answer to wait for.
LEMMA RequestAttended ==
  ASSUME Attended, Fence, NEW a \in Actors,
         UNCHANGED job, UNCHANGED marker,
         act[a].pc # "git", act'[a].pc # "git",
         \A b \in Actors \ {a} : act'[b] = act[b],
         act'[a].pc \in {"proof", "settle"} => act'[a].op = act[a].op,
         act'[a].pc = "proof" => marker[act[a].op] = Nothing,
         act'[a].pc = "settle" /\ act'[a].out # Rejected => marker[act[a].op] # Rejected,
         \A o \in Ops : op'[o].status = "applied" => marker[o] # Rejected
  PROVE  Attended'
  <1>1. Waited'
    BY DEF Attended, Waited
  <1>2. ReadStands'
    BY DEF Attended, ReadStands
  <1>3. ASSUME NEW b \in Actors, act'[b].pc = "settle", act'[b].out # Rejected
        PROVE  marker'[act'[b].op] # Rejected
    <2>1. CASE b = a
      BY <1>3, <2>1
    <2>2. CASE b # a
      BY <1>3, <2>2 DEF Attended, OutcomesAgree
    <2>. QED BY <2>1, <2>2
  <1>4. ASSUME NEW b \in Actors, job'[b].pc = "done", job'[b].out # Rejected
        PROVE  marker'[act'[b].op] # Rejected
    BY <1>4 DEF Attended, OutcomesAgree, Fence, CallMatches
  <1>5. OutcomesAgree'
    BY <1>3, <1>4 DEF OutcomesAgree
  <1>. QED BY <1>1, <1>2, <1>5 DEF Attended

\* The steps that only change the request.
LEMMA RequestsAttended ==
  ASSUME Typed, Fence, Locker, Attended, NEW a \in Actors,
         \/ \E m \in MRs : StartMerge(a, m) \/ StartAbort(a, m)
         \/ PinTarget(a) \/ ReuseClaim(a) \/ RefuseClaim(a)
         \/ (\E o \in Ops : RecoverNext(a, o)) \/ RecoverAgain(a)
         \/ FindSettled(a) \/ LockToReconcile(a) \/ ReadMarker(a) \/ ReadProof(a)
  PROVE  Attended'
  <1>1. /\ UNCHANGED <<job, marker, op>>
        /\ act[a].pc # "git" /\ act'[a].pc # "git"
        /\ \A b \in Actors \ {a} : act'[b] = act[b]
    BY RequestMoves DEF gitVars, dbVars
  <1>2. ActTyped /\ act[a] \in Requests
    BY Reads DEF Typed
  <1>3. \A o \in Ops : op'[o].status = "applied" => marker[o] # Rejected
    BY <1>1 DEF Attended, OutcomesAgree
  <1> DEFINE
        Known == /\ act'[a].pc \in {"proof", "settle"} => act'[a].op = act[a].op
                 /\ act'[a].pc = "proof" => marker[act[a].op] = Nothing
                 /\ act'[a].pc = "settle" /\ act'[a].out # Rejected
                      => marker[act[a].op] # Rejected
  <1>4. ASSUME act'[a].pc \notin Locking PROVE Known
    BY <1>4 DEF Locking
  <1>5. ASSUME LockToReconcile(a) PROVE Known
    <2>1. act'[a].pc = "marker"
      BY <1>2, <1>5 DEF LockToReconcile, Goto, ActTyped, Requests
    <2>. QED BY <2>1
  <1>6. ASSUME ReadMarker(a) PROVE Known
    <2> DEFINE k == marker[act[a].op]
    <2>1. act'[a] = [act[a] EXCEPT !.pc = IF k = Nothing THEN "proof" ELSE "settle",
                                   !.out = k]
      BY <1>2, <1>6 DEF ReadMarker, ActTyped
    <2>2. /\ act'[a].pc = IF k = Nothing THEN "proof" ELSE "settle"
          /\ act'[a].op = act[a].op /\ act'[a].out = k
      BY <1>2, <2>1 DEF Requests
    <2>. QED BY <2>2
  <1>7. ASSUME ReadProof(a) PROVE Known
    <2>1. marker[act[a].op] = Nothing
      BY <1>7 DEF ReadProof, Attended, ReadStands
    <2>2. CASE act' = [act EXCEPT ![a].pc = "settle", ![a].out = prepared[act[a].op]]
      <3>1. act'[a].pc = "settle" /\ act'[a].op = act[a].op
        BY <1>2, <2>2 DEF ActTyped, Requests
      <3>. QED BY <2>1, <3>1, OutcomesApart
    <2>3. CASE Goto(a, "execute") \/ End(a)
      BY <1>2, <2>3, OneMoves
    <2>. QED BY <1>7, <2>2, <2>3 DEF ReadProof
  <1>8. Known
    <2>1. act'[a].pc \in Locking => ReadMarker(a) \/ ReadProof(a) \/ LockToReconcile(a)
      BY RequestsLocker
    <2>. QED BY <1>4, <1>5, <1>6, <1>7, <2>1
  <1>. QED BY <1>1, <1>3, <1>8, RequestAttended

LEMMA RowsAttended ==
  ASSUME Typed, Fence, Locker, Attended, NEW a \in Actors,
         \/ \E o \in Ops : Claim(a, o)
         \/ Settle(a) \/ Deliver(a) \/ MarkDelivered(a) \/ Fail(a)
  PROVE  Attended'
  <1>1. /\ UNCHANGED <<job, marker>>
        /\ act[a].pc # "git" /\ act'[a].pc \notin {"git", "settle", "proof"}
        /\ \A b \in Actors \ {a} : act'[b] = act[b]
    BY RowMoves, RowsLocker DEF gitVars, Locking
  <1>2. \A o \in Ops : op[o].status = "applied" => marker[o] # Rejected
    BY DEF Attended, OutcomesAgree
  <1> DEFINE Rows == \A o \in Ops : op'[o].status = "applied" => marker[o] # Rejected
  <1>3. ASSUME NEW o \in Ops, Claim(a, o) PROVE Rows
    BY <1>2, <1>3, ClaimMoves
  <1>4. ASSUME Settle(a) PROVE Rows
    <2>1. \A o \in Ops \ {act[a].op} : op'[o] = op[o]
      BY <1>4, SettleMoves
    <2>2. op'[act[a].op].status = "applied" => act[a].out # Rejected
      BY <1>4, SettleMoves, OutcomesApart
    <2>3. act[a].out # Rejected => marker[act[a].op] # Rejected
      BY <1>4 DEF Settle, Attended, OutcomesAgree
    <2>. QED BY <1>2, <2>1, <2>2, <2>3
  <1>5. ASSUME Deliver(a) \/ MarkDelivered(a) \/ Fail(a) PROVE Rows
    BY <1>2, <1>5, OtherRows
  <1>6. Rows
    BY <1>3, <1>4, <1>5
  <1>. QED BY <1>1, <1>6, RequestAttended

LEMMA CallAttended ==
  ASSUME Typed, Fence, Attended, NEW a \in Actors, LockToExecute(a) \/ Reply(a)
  PROVE  Attended'
  <1>1. UNCHANGED <<marker, op>>
    BY DEF LockToExecute, Reply, gitVars, dbVars
  <1>2. ActTyped /\ JobTyped /\ act[a] \in Requests /\ job[a] \in Jobs
    BY Reads DEF Typed
  <1>3. \A b \in Actors \ {a} : act'[b] = act[b] /\ job'[b] = job[b]
    BY <1>2, OneMoves DEF LockToExecute, Reply, ActTyped, JobTyped
  <1>4. CASE LockToExecute(a)
    <2>1. act'[a].pc = "git" /\ job'[a].pc = "queued"
      BY <1>2, <1>4 DEF LockToExecute, Goto, ActTyped, JobTyped, Requests, Jobs
    <2>2. Waited' /\ ReadStands'
      BY <1>1, <1>3, <2>1 DEF Attended, Waited, ReadStands
    <2>3. OutcomesAgree'
      BY <1>1, <1>3, <2>1 DEF Attended, OutcomesAgree
    <2>. QED BY <2>2, <2>3 DEF Attended
  <1>5. CASE Reply(a)
    <2>1. job'[a].pc = "none"
      BY <1>2, <1>5 DEF Reply, JobTyped, NoJob
    <2>2. \/ act'[a].pc = "idle"
          \/ /\ act'[a].pc = "settle" /\ act'[a].op = act[a].op
             /\ job[a].pc = "done" /\ act'[a].out = job[a].out
      <3>1. CASE /\ job[a].pc = "done"
                 /\ act' = [act EXCEPT ![a].pc = "settle", ![a].out = job[a].out]
        BY <1>2, <3>1 DEF ActTyped, Requests
      <3>2. CASE End(a)
        BY <1>2, <3>2, OneMoves
      <3>. QED BY <1>5, <3>1, <3>2 DEF Reply
    <2>3. Waited' /\ ReadStands'
      BY <1>1, <1>3, <2>1, <2>2 DEF Attended, Waited, ReadStands, Running, Held
    <2>4. OutcomesAgree'
      BY <1>1, <1>3, <2>1, <2>2 DEF Attended, OutcomesAgree
    <2>. QED BY <2>3, <2>4 DEF Attended
  <1>. QED BY <1>4, <1>5

\* A job moves under the lock of its request.
LEMMA JobAttended ==
  ASSUME Typed, Fence, Locker, Attended, NEW a \in Actors, UNCHANGED <<act, op>>,
         job[a].pc \in Running,
         \A b \in Actors \ {a} : job'[b] = job[b],
         \A o \in Ops \ {job[a].op} : marker'[o] = marker[o],
         job'[a].pc = "done" /\ job'[a].out # Rejected
           => marker'[job[a].op] # Rejected
  PROVE  Attended'
  <1>1. act[a].pc = "git" /\ act[a].pc \in Locking /\ act[a].op = job[a].op
    BY DEF Attended, Waited, Fence, CallMatches, Locking
  <1>2. \A b \in Actors \ {a} : act[b].pc \in Locking =>
          /\ act[b].op \in Ops \ {job[a].op}
          /\ marker'[act[b].op] = marker[act[b].op]
    BY <1>1, Reads DEF Locker, OneLocker, Requests, Locking
  <1>3. Waited'
    BY <1>1 DEF Attended, Waited
  <1>4. ReadStands'
    BY <1>1, <1>2 DEF Attended, ReadStands, Locking
  <1>5. \A o \in Ops : op'[o].status = "applied" => marker'[o] # Rejected
    <2>1. op[job[a].op].status = "pending"
      BY <1>1 DEF Locker, LockedPending
    <2>. QED BY <2>1 DEF Attended, OutcomesAgree
  <1>6. ASSUME NEW b \in Actors, b # a
        PROVE  /\ act'[b].pc = "settle" /\ act'[b].out # Rejected
                    => marker'[act'[b].op] # Rejected
               /\ job'[b].pc = "done" /\ job'[b].out # Rejected
                    => marker'[act'[b].op] # Rejected
    <2>1. job[b].pc = "done" => act[b].pc = "git"
      BY DEF Fence, CallMatches
    <2>. QED BY <1>2, <1>6, <2>1 DEF Attended, OutcomesAgree, Locking
  <1>7. OutcomesAgree'
    BY <1>1, <1>5, <1>6 DEF OutcomesAgree
  <1>. QED BY <1>3, <1>4, <1>7 DEF Attended

LEMMA JobsAttended ==
  ASSUME Typed, Fence, Locker, Attended, NEW a \in Actors, JobRuns(a) \/ JobFail(a)
  PROVE  Attended'
  <1>1. /\ UNCHANGED <<act, op>> /\ JobTyped /\ job[a] \in Jobs
        /\ job[a].pc \in Running /\ job[a].op \in Ops
    BY Reads DEF Typed, JobRuns, JobStart, JobDecide, JobLand, JobRecord, JobFail,
       dbVars, Running, Held, Jobs
  <1>2. ASSUME NEW pc \in {"done", "failed"}, NEW out, JobEnds(a, pc, out),
               \A o \in Ops \ {job[a].op} : marker'[o] = marker[o],
               pc = "done" => marker'[job[a].op] = out
        PROVE  Attended'
    <2>1. /\ \A b \in Actors \ {a} : job'[b] = job[b]
          /\ job'[a].pc = "done" => pc = "done" /\ job'[a].out = out
      BY <1>1, <1>2, Ended
    <2>. QED BY <1>1, <1>2, <2>1, JobAttended
  <1>3. ASSUME marker' = marker, \A b \in Actors \ {a} : job'[b] = job[b],
               job'[a].pc # "done"
        PROVE  Attended'
    BY <1>1, <1>3, JobAttended
  <1>4. CASE JobStart(a)
    <2>1. marker' = marker
      BY <1>4 DEF JobStart, gitVars
    <2>2. CASE job' = [job EXCEPT ![a].pc = "marked"]
      BY <1>1, <1>3, <2>1, <2>2 DEF JobTyped, Jobs
    <2>. QED BY <1>2, <1>4, <2>1, <2>2 DEF JobStart
  <1>5. CASE JobDecide(a)
    <2>1. marker' = marker
      BY <1>5 DEF JobDecide
    <2>2. ASSUME NEW out, JobConclude(a, out) PROVE Attended'
      <3>1. \A b \in Actors \ {a} : job'[b] = job[b]
        BY <1>1, <2>2 DEF JobConclude, JobTyped
      <3>2. job'[a].pc = "settling"
        BY <1>1, <2>2 DEF JobConclude, JobTyped, Jobs
      <3>. QED BY <1>3, <2>1, <3>1, <3>2
    <2>3. CASE job' = [job EXCEPT ![a].pc = "prepared", ![a].head = Candidate(job[a].op),
                                  ![a].out = Candidate(job[a].op).tip]
      <3>1. /\ \A b \in Actors \ {a} : job'[b] = job[b]
            /\ job'[a].pc = "prepared"
        BY <1>1, <2>3 DEF JobTyped, Jobs
      <3>. QED BY <1>3, <2>1, <3>1
    <2>. QED BY <1>2, <1>5, <2>1, <2>2, <2>3 DEF JobDecide
  <1>6. CASE JobLand(a)
    BY <1>3, <1>6, LandMoves
  <1>7. CASE JobRecord(a)
    <2>1. /\ marker'[job[a].op] = job[a].out
          /\ \A o \in Ops \ {job[a].op} : marker'[o] = marker[o]
      BY <1>1, <1>7 DEF JobRecord, Typed, GitTyped
    <2>. QED BY <1>2, <1>7, <2>1 DEF JobRecord
  <1>8. CASE JobFail(a)
    BY <1>2, <1>8 DEF JobFail, gitVars
  <1>. QED BY <1>4, <1>5, <1>6, <1>7, <1>8 DEF JobRuns

LEMMA NextAttending ==
  Typed /\ Fence /\ Locker /\ Attending /\ [Next]_vars => Attending'
  <1> SUFFICES ASSUME Typed, Fence, Locker, Attended, [Next]_vars,
                      \A a \in Actors : ~Vanish(a)
               PROVE  Attended'
    BY CancelsCount DEF Attending
  <1>1. ASSUME NEW a \in Actors, Handles(a) \/ Recovers(a) \/ Fail(a) PROVE Attended'
    BY <1>1, RequestsAttended, RowsAttended, CallAttended DEF Handles, Recovers
  <1>2. ASSUME NEW a \in Actors, NEW m \in MRs, StartMerge(a, m) \/ StartAbort(a, m)
        PROVE  Attended'
    BY <1>2, RequestsAttended
  <1>3. ASSUME NEW a \in Actors, JobRuns(a) \/ JobFail(a) PROVE Attended'
    BY <1>3, JobsAttended
  <1>4. ASSUME UNCHANGED <<marker, op, act, job>> PROVE Attended'
    BY <1>4 DEF Attended, Waited, ReadStands, OutcomesAgree
  <1>5. ASSUME NEW m \in MRs, UpdateState(m) PROVE Attended'
    BY <1>4, <1>5 DEF UpdateState, gitVars
  <1>6. ASSUME NEW b \in Branches, Push(b) \/ Rewind(b) PROVE Attended'
    BY <1>4, <1>6, WriteMoves
  <1>7. CASE UNCHANGED vars
    BY <1>4, <1>7 DEF vars, gitVars, dbVars
  <1>. QED BY <1>1, <1>2, <1>3, <1>5, <1>6, <1>7 DEF Next

-----------------------------------------------------------------------------
\* While nobody has forced an earlier head on a branch, the branches see to it
\* instead: the target still reaches every commit that anybody carries as the
\* outcome of an operation, so that a job, left behind or not, takes it for
\* merged and rejects nothing that has landed.

Agreeing ==
  /\ Typed /\ Fence /\ Evident /\ Locked /\ Absent /\ Grown
  /\ Locker /\ Attending

LEMMA BothAgree == Agreeing /\ NotBoth => OutcomesAgree
  <1> SUFFICES ASSUME Agreeing, NotBoth PROVE OutcomesAgree
    OBVIOUS
  <1>1. CASE count.cancels = 0
    BY <1>1 DEF Agreeing, Attending, Attended
  <1>2. CASE count.rewinds = 0
    <2>1. ASSUME NEW o \in Ops, NEW c \in Commits, Evidence(o, c)
          PROVE  marker[o] # Rejected
      <3>1. Landed(o)
        BY <1>2, <2>1, EvidenceLanded, OutcomesApart DEF Agreeing, Outcomes
      <3>. QED BY <1>2, <3>1 DEF Agreeing, Absent, AbsentParts, ReceiptAbsent
    <2>2. ASSUME NEW a \in Actors, act[a].pc = "settle", act[a].out # Rejected
          PROVE  marker[act[a].op] # Rejected
      <3>1. act[a].op \in Ops /\ act[a].out \in Commits
        BY <2>2, Reads DEF Agreeing, Requests, Outcomes
      <3>2. Evidence(act[a].op, act[a].out)
        BY <2>2 DEF Agreeing, Evident, EvidenceKept
      <3>. QED BY <2>1, <3>1, <3>2
    <2>3. ASSUME NEW a \in Actors, job[a].pc = "done", job[a].out # Rejected
          PROVE  marker[act[a].op] # Rejected
      <3>1. act[a].pc = "git"
        BY <2>3 DEF Agreeing, Fence, CallMatches
      <3>2. act[a].op \in Ops /\ job[a].out \in Commits
        BY <2>3, <3>1, Reads DEF Agreeing, Requests, Jobs, Outcomes
      <3>3. Evidence(act[a].op, job[a].out)
        BY <2>3 DEF Agreeing, Evident, EvidenceKept
      <3>. QED BY <2>1, <3>2, <3>3
    <2>4. ASSUME NEW o \in Ops, op[o].status = "applied" PROVE marker[o] # Rejected
      <3>1. op[o].sha \in Commits
        BY <2>4 DEF Agreeing, Typed, DbTyped, OpRows
      <3>2. Evidence(o, op[o].sha)
        BY <2>4 DEF Agreeing, Evident, EvidenceKept
      <3>. QED BY <2>1, <3>1, <3>2
    <2>. QED BY <2>2, <2>3, <2>4 DEF OutcomesAgree
  <1>. QED BY <1>1, <1>2 DEF NotBoth

LEMMA InitAgreeing == Init => Agreeing
  BY InitTyped, InitFence, InitEvident, InitLocked, InitAbsent, InitGrown, InitLocker,
     InitAttending DEF Agreeing

LEMMA NextAgreeing == Agreeing /\ [Next]_vars => Agreeing'
  BY NextTyped, NextFence, NextEvident, NextLocked, NextAbsent, NextGrown, NextLocker,
     NextAttending DEF Agreeing

LEMMA Agreed == Spec => []Agreeing
  BY InitAgreeing, NextAgreeing, PTL DEF Spec

\* While callers stay with their requests, Git is left alone once the row of
\* an operation is complete: its job runs under the lock that completes it.
THEOREM CompletedLeftAlone ==
  Spec /\ [](count.cancels = 0) => CompleteIsFinal
  <1>1. Agreeing /\ count.cancels = 0 =>
          \A a \in Actors : Lands(a) => op[job[a].op].status = "pending"
    <2> SUFFICES ASSUME Agreeing, count.cancels = 0, NEW a \in Actors, Lands(a)
                 PROVE  op[job[a].op].status = "pending"
      OBVIOUS
    <2>1. job[a].pc \in Running
      BY DEF Lands, Running, Held
    <2>2. act[a].pc = "git" /\ job[a].op = act[a].op
      BY <2>1 DEF Agreeing, Attending, Attended, Waited, Fence, CallMatches
    <2>. QED BY <2>2 DEF Agreeing, Locker, LockedPending, Locking
  <1>. QED BY <1>1, Agreed, PTL DEF CompleteIsFinal

\* The row and the receipt never record different outcomes of an operation,
\* whatever fails, races or is retried, unless a caller has vanished and an
\* earlier head was forced on a branch.
THEOREM OneOutcome == Spec => [](NotBoth => DatabaseAgreesWithReceipt)
  <1>1. Agreeing /\ NotBoth => DatabaseAgreesWithReceipt
    <2> SUFFICES ASSUME Agreeing, OutcomesAgree, NEW o \in Ops, marker[o] # Nothing
                 PROVE  /\ op[o].status = "applied" =>
                             marker[o] # Rejected /\ op[o].sha = marker[o]
                        /\ op[o].status = "rejected" => marker[o] = Rejected
      BY BothAgree DEF DatabaseAgreesWithReceipt
    <2>1. op[o].status = "rejected" => marker[o] = Rejected
      BY DEF Agreeing, Fence, RejectionBacked
    <2>2. op[o].status = "applied" => marker[o] # Rejected
      BY DEF OutcomesAgree
    <2>3. op[o].status = "applied" => op[o].sha = prepared[o]
      BY DEF Agreeing, Evident, EvidenceKept, Evidence
    <2>4. marker[o] # Rejected => marker[o] = prepared[o]
      BY DEF Agreeing, Evident, EvidenceKept, Evidence
    <2>. QED BY <2>1, <2>2, <2>3, <2>4
  <1>. QED BY <1>1, Agreed, PTL

-----------------------------------------------------------------------------
\* The journal implements its promise.  A row that was never claimed belongs to
\* no merge request, and one that was never merged names no commit.

RowsFresh ==
  /\ \A o \in Ops : op[o].status = "none" => op[o].mr = NoMR
  /\ \A m \in MRs : mr[m].state # "merged" => mr[m].sha = Nothing

LEMMA InitFresh == Init => RowsFresh
  BY DEF Init, RowsFresh, NoRow

\* The steps that MergeDecision does not see.
Unseen ==
  /\ marker' = marker
  /\ \A o \in Ops : /\ op'[o].status = op[o].status /\ op'[o].mr = op[o].mr
                    /\ op'[o].sha = op[o].sha
  /\ \A m \in MRs : /\ mr'[m].sha = mr[m].sha
                    /\ mr'[m].state = "merged" <=> mr[m].state = "merged"

LEMMA DecisionSteps ==
  ASSUME Typed, [Next]_vars
  PROVE  \/ Unseen
         \/ \E a \in Actors, o \in Ops : Claim(a, o)
         \/ \E a \in Actors : Settle(a)
         \/ \E a \in Actors : JobRecord(a)
  <1>0. UNCHANGED <<marker, op, mr>> => Unseen
    BY DEF Unseen
  <1>1. ASSUME NEW a \in Actors,
               \/ \E m \in MRs : StartMerge(a, m) \/ StartAbort(a, m)
               \/ PinTarget(a) \/ ReuseClaim(a) \/ RefuseClaim(a)
               \/ (\E o \in Ops : RecoverNext(a, o)) \/ RecoverAgain(a)
               \/ FindSettled(a) \/ LockToReconcile(a) \/ ReadMarker(a) \/ ReadProof(a)
        PROVE  Unseen
    BY <1>0, <1>1, RequestMoves DEF gitVars, dbVars
  <1>2. ASSUME NEW a \in Actors, LockToExecute(a) \/ Reply(a) PROVE Unseen
    BY <1>0, <1>2 DEF LockToExecute, Reply, gitVars, dbVars
  <1>3. ASSUME NEW a \in Actors, Deliver(a) \/ MarkDelivered(a) \/ Fail(a) PROVE Unseen
    <2>1. marker' = marker
      BY <1>3 DEF Deliver, MarkDelivered, Fail, gitVars
    <2>. QED BY <1>3, <2>1, OtherRows DEF Unseen
  <1>4. ASSUME NEW a \in Actors,
               JobStart(a) \/ JobDecide(a) \/ JobLand(a) \/ JobFail(a) \/ Vanish(a)
        PROVE  Unseen
    BY <1>0, <1>4 DEF JobStart, JobDecide, JobLand, JobFail, Vanish, gitVars, dbVars
  <1>5. ASSUME NEW m \in MRs, UpdateState(m) PROVE Unseen
    <2>1. /\ mr \in [MRs -> MRRows] /\ mr[m] \in MRRows /\ mr[m].state # "merged"
      BY <1>5 DEF UpdateState, Typed, DbTyped
    <2>2. PICK s \in {"opened", "closed"} : mr' = [mr EXCEPT ![m].state = s]
      BY <1>5, <2>1 DEF UpdateState
    <2>3. \A k \in MRs : /\ mr'[k].sha = mr[k].sha
                         /\ mr'[k].state = "merged" <=> mr[k].state = "merged"
      BY <2>1, <2>2 DEF MRRows
    <2>. QED BY <1>5, <2>3 DEF UpdateState, Unseen, gitVars
  <1>6. ASSUME NEW b \in Branches, Push(b) \/ Rewind(b) PROVE Unseen
    BY <1>0, <1>6 DEF Push, Rewind, SetBranch, dbVars
  <1>7. UNCHANGED vars => Unseen
    BY <1>0 DEF vars, gitVars, dbVars
  <1>. QED BY <1>1, <1>2, <1>3, <1>4, <1>5, <1>6, <1>7
       DEF Next, Handles, Recovers, JobRuns

\* What a settling request knows of the two rows and of the receipt.
LEMMA SettleKnows ==
  ASSUME Typed, Fence, Evident, RowsBound, Locker, NEW a \in Actors, Settle(a)
  PROVE  /\ act[a].op \in Ops /\ act[a].out \in Outcomes
         /\ op[act[a].op].mr \in MRs /\ op[act[a].op].status = "pending"
         /\ OutcomesAgree => marker[act[a].op] \in {Nothing, act[a].out}
         /\ act[a].out = Rejected => marker[act[a].op] = Rejected
         /\ mr[op[act[a].op].mr].state # "merged"
         /\ \A m \in MRs :
              mr'[m].sha = IF m = op[act[a].op].mr /\ act[a].out # Rejected
                             THEN act[a].out ELSE mr[m].sha
         /\ \A m \in MRs \ {op[act[a].op].mr} : mr'[m] = mr[m]
         /\ act[a].out = Rejected =>
              mr'[op[act[a].op].mr].state = mr[op[act[a].op].mr].state
         /\ act[a].out # Rejected => mr'[op[act[a].op].mr].state = "merged"
  <1> DEFINE o == act[a].op
             m == op[o].mr
  <1>1. /\ o \in Ops /\ act[a].out \in Outcomes /\ act[a].pc = "settle"
        /\ mr \in [MRs -> MRRows]
    BY Reads DEF Settle, Requests, Typed, DbTyped
  <1>2. m \in MRs /\ op[o].status = "pending"
    BY <1>1 DEF Settle, RowsBound, RowsClaimed, Locker, LockedPending, Locking
  <1>3. mr[m].state # "merged"
    <2>1. mr[m].active = o
      BY DEF Settle
    <2>. QED BY <1>1, <1>2, <2>1, NoOpIsNone DEF RowsBound, MergedHasOne
  <1>4. act[a].out = Rejected => marker[o] = Rejected
    BY <1>1 DEF Fence, RejectionBacked
  <1>5. OutcomesAgree /\ act[a].out # Rejected => marker[o] \in {Nothing, act[a].out}
    <2> SUFFICES ASSUME OutcomesAgree, act[a].out # Rejected, marker[o] # Nothing
                 PROVE  marker[o] = act[a].out
      OBVIOUS
    <2>1. marker[o] # Rejected
      BY <1>1 DEF OutcomesAgree
    <2>2. marker[o] = prepared[o] /\ act[a].out = prepared[o]
      BY <1>1, <2>1 DEF Evident, EvidenceKept, Evidence
    <2>. QED BY <2>2
  <1>6. CASE act[a].out = Rejected
    <2>1. mr' = [mr EXCEPT ![m].active = NoOp]
      BY <1>6, SettleMoves, OutcomesApart
    <2>2. \A k \in MRs : mr'[k].sha = mr[k].sha /\ mr'[k].state = mr[k].state
      BY <1>1, <2>1 DEF MRRows
    <2>3. \A k \in MRs \ {m} : mr'[k] = mr[k]
      BY <1>1, <2>1
    <2>. QED BY <1>1, <1>2, <1>3, <1>4, <1>6, <2>2, <2>3
  <1>7. CASE act[a].out # Rejected
    <2>1. mr' = [mr EXCEPT ![m] = [state |-> "merged", active |-> NoOp,
                                   sha |-> act[a].out]]
      BY <1>7, SettleMoves
    <2>2. /\ \A k \in MRs \ {m} : mr'[k] = mr[k]
          /\ mr'[m].sha = act[a].out /\ mr'[m].state = "merged"
      BY <1>1, <1>2, <2>1
    <2>. QED BY <1>1, <1>2, <1>3, <1>5, <1>7, <2>2
  <1>. QED BY <1>6, <1>7

LEMMA ClaimSha ==
  ASSUME Typed, NEW a \in Actors, NEW o \in Ops, Claim(a, o)
  PROVE  \A m \in MRs : mr'[m].sha = mr[m].sha /\ mr'[m].state = mr[m].state
  <1>1. mr \in [MRs -> MRRows] /\ mr' = [mr EXCEPT ![act[a].mr].active = o]
    BY DEF Claim, Typed, DbTyped
  <1>. QED BY <1>1 DEF MRRows

LEMMA NextFresh ==
  ASSUME Typed, Fence, Evident, RowsBound, Locker, RowsFresh, [Next]_vars
  PROVE  RowsFresh'
  <1>1. CASE Unseen
    BY <1>1 DEF Unseen, RowsFresh
  <1>2. ASSUME NEW a \in Actors, NEW o \in Ops, Claim(a, o) PROVE RowsFresh'
    BY <1>2, ClaimMoves, ClaimSha DEF RowsFresh
  <1>3. ASSUME NEW a \in Actors, Settle(a) PROVE RowsFresh'
    <2>1. \A o \in Ops : op'[o].status = "none" => op'[o].mr = NoMR
      BY <1>3, SettleMoves DEF RowsFresh
    <2>2. \A m \in MRs : mr'[m].state # "merged" => mr'[m].sha = Nothing
      BY <1>3, SettleKnows DEF RowsFresh
    <2>. QED BY <2>1, <2>2 DEF RowsFresh
  <1>4. ASSUME NEW a \in Actors, JobRecord(a) PROVE RowsFresh'
    BY <1>4 DEF JobRecord, RowsFresh, dbVars
  <1>. QED BY <1>1, <1>2, <1>3, <1>4, DecisionSteps

Deciding == Agreeing /\ RowsBound /\ RowsFresh

LEMMA InitDeciding == Init => Deciding
  BY InitAgreeing, InitRows, InitFresh DEF Deciding

LEMMA NextDeciding == Deciding /\ [Next]_vars => Deciding'
  BY NextAgreeing, NextRows, NextFresh DEF Deciding, Agreeing

\* What the promise is about, and what of it a step leaves alone.
Owners == [o \in Ops |-> op[o].mr]
Decisions == [o \in Ops |-> Decided(o)]
Recorded == {o \in Ops : op[o].status \in {"applied", "rejected"}}
MergedShas == [m \in MRs |-> mr[m].sha]

LEMMA UnseenStutters ==
  Unseen => UNCHANGED <<Owners, Decisions, Recorded, MergedShas>>
  BY DEF Unseen, Owners, Decisions, Recorded, MergedShas, Decided

LEMMA ClaimBinds ==
  ASSUME Deciding, NEW a \in Actors, NEW o \in Ops, Claim(a, o)
  PROVE  Promise!Bind(o, act[a].mr) /\ act[a].mr \in MRs
  <1> DEFINE m == act[a].mr
  <1>1. /\ m \in MRs /\ op[o].status = "none" /\ op[o].mr = NoMR
        /\ op'[o].status = "pending" /\ op'[o].mr = m
        /\ \A p \in Ops \ {o} : op'[p] = op[p]
        /\ mr[m].active = NoOp /\ mr[m].state = "opened"
    BY ClaimMoves DEF Deciding, Agreeing, RowsFresh
  <1>2. Owners[o] = NoMR /\ MergedShas[m] = Nothing
    BY <1>1 DEF Owners, MergedShas, Deciding, RowsFresh
  <1>3. \A p \in Ops : Owners[p] = m => p \in Recorded
    <2> SUFFICES ASSUME NEW p \in Ops, op[p].mr = m
                 PROVE  op[p].status \in {"applied", "rejected"}
      BY DEF Owners, Recorded
    <2>1. op[p].status # "none"
      BY <1>1, MergeAssumption DEF Deciding, RowsFresh
    <2>2. op[p].status # "pending"
      BY <1>1, NoOpIsNone DEF Deciding, RowsBound, PendingIsActive, Of
    <2>. QED BY <2>1, <2>2, Reads DEF Deciding, Agreeing, OpRows
  <1>4. Owners' = [Owners EXCEPT ![o] = m]
    BY <1>1 DEF Owners
  <1>5. Decisions' = Decisions
    <2>1. marker' = marker
      BY DEF Claim, gitVars
    <2>2. \A p \in Ops : Decided(p)' = Decided(p)
      BY <1>1, <2>1 DEF Decided
    <2>. QED BY <2>2 DEF Decisions
  <1>6. Recorded' = Recorded
    BY <1>1 DEF Recorded
  <1>7. MergedShas' = MergedShas
    BY ClaimSha DEF Deciding, Agreeing, MergedShas
  <1>. QED BY <1>1, <1>2, <1>3, <1>4, <1>5, <1>6, <1>7
       DEF Promise!Bind, Owners, Decisions, Recorded, MergedShas

\* A receipt decides a pending operation.  That of a job whose operation was
\* recovered in the meantime names what the row has recorded already.
LEMMA RecordDecides ==
  ASSUME Deciding, OutcomesAgree', NEW a \in Actors, JobRecord(a)
  PROVE  /\ job[a].op \in Ops /\ job[a].out \in Commits \cup {Rejected}
         /\ \/ Promise!Decide(job[a].op, job[a].out)
            \/ UNCHANGED <<Owners, Decisions, Recorded, MergedShas>>
  <1> DEFINE o == job[a].op
  <1>1. /\ job[a].pc \in Held /\ job[a].pc \in {"settling", "landed"}
        /\ o \in Ops /\ job[a].out \in Outcomes
        /\ UNCHANGED <<op, mr>>
    BY Reads DEF Deciding, Agreeing, JobRecord, Jobs, Running, Held, dbVars
  <1>2. marker[o] = Nothing
    BY <1>1 DEF Deciding, Agreeing, Fence, HolderUndecided
  <1>3. /\ marker'[o] = job[a].out /\ \A p \in Ops \ {o} : marker'[p] = marker[p]
    BY <1>1 DEF JobRecord, Deciding, Agreeing, Typed, GitTyped
  <1>4. op[o].status \in {"pending", "applied"}
    <2>1. op[o].status # "none"
      BY <1>1 DEF Deciding, Agreeing, Locker, JobsClaimed, Running
    <2>2. op[o].status # "rejected"
      BY <1>1, <1>2, OutcomesApart DEF Deciding, Agreeing, Fence, RejectionBacked
    <2>. QED BY <1>1, <2>1, <2>2, Reads DEF Deciding, Agreeing, OpRows
  <1>5. UNCHANGED <<Owners, Recorded, MergedShas>>
    BY <1>1 DEF Owners, Recorded, MergedShas
  <1>6. \A p \in Ops \ {o} : Decided(p)' = Decided(p)
    BY <1>1, <1>3 DEF Decided
  <1>7. \A p \in Ops : p = o => Decided(p)' = job[a].out
    BY <1>1, <1>3, OutcomesApart DEF Decided
  <1>8. CASE op[o].status = "pending"
    <2>1. Owners[o] # NoMR
      BY <1>1, <1>8, MergeAssumption DEF Owners, Deciding, RowsBound, RowsClaimed
    <2>2. Decisions[o] = Nothing
      BY <1>1, <1>2, <1>8 DEF Decisions, Decided
    <2>3. Decisions' = [Decisions EXCEPT ![o] = job[a].out]
      BY <1>1, <1>6, <1>7 DEF Decisions
    <2>. QED BY <1>1, <1>5, <2>1, <2>2, <2>3
         DEF Promise!Decide, Owners, Decisions, Recorded, MergedShas, Outcomes
  <1>9. CASE op[o].status = "applied"
    <2>1. job[a].out # Rejected
      BY <1>1, <1>3, <1>9 DEF OutcomesAgree
    <2>2. job[a].out = prepared[o] /\ op[o].sha = prepared[o]
      BY <1>1, <1>9, <2>1 DEF Deciding, Agreeing, Evident, EvidenceKept, Evidence
    <2>3. \A p \in Ops : p = o => Decided(p) = job[a].out
      BY <1>2, <1>9, <2>2 DEF Decided
    <2>4. \A p \in Ops : Decided(p)' = Decided(p)
      BY <1>6, <1>7, <2>3
    <2>5. Decisions' = Decisions
      BY <2>4 DEF Decisions
    <2>. QED BY <1>1, <1>5, <2>5 DEF Outcomes
  <1>. QED BY <1>4, <1>8, <1>9

LEMMA SettleRecords ==
  ASSUME Deciding, OutcomesAgree, NEW a \in Actors, Settle(a)
  PROVE  /\ act[a].op \in Ops /\ act[a].out \in Commits \cup {Rejected}
         /\ Promise!Record(act[a].op, act[a].out)
  <1> DEFINE o == act[a].op
             out == act[a].out
  <1>1. /\ o \in Ops /\ out \in Outcomes /\ op[o].mr \in MRs
        /\ op[o].status = "pending" /\ marker[o] \in {Nothing, out}
        /\ out = Rejected => marker[o] = Rejected
        /\ \A m \in MRs :
             mr'[m].sha = IF m = op[o].mr /\ out # Rejected THEN out ELSE mr[m].sha
    BY SettleKnows DEF Deciding, Agreeing
  <1>2. /\ \A p \in Ops \ {o} : op'[p] = op[p]
        /\ op'[o].mr = op[o].mr
        /\ op'[o].status = IF out = Rejected THEN "rejected" ELSE "applied"
        /\ out # Rejected => op'[o].sha = out
        /\ marker' = marker
    BY SettleMoves, OutcomesApart DEF Settle, gitVars, Deciding, Agreeing
  <1>3. Owners[o] # NoMR /\ o \notin Recorded
    BY <1>1, MergeAssumption DEF Owners, Recorded
  <1>4. Decisions[o] = out \/ (Decisions[o] = Nothing /\ out # Rejected)
    BY <1>1, OutcomesApart DEF Decisions, Decided
  <1>5. Decisions' = [Decisions EXCEPT ![o] = out]
    <2>1. \A p \in Ops : p = o => Decided(p)' = out
      BY <1>1, <1>2, OutcomesApart DEF Decided
    <2>2. \A p \in Ops \ {o} : Decided(p)' = Decided(p)
      BY <1>2 DEF Decided
    <2>. QED BY <1>1, <2>1, <2>2 DEF Decisions
  <1>6. Recorded' = Recorded \cup {o}
    BY <1>1, <1>2 DEF Recorded
  <1>7. MergedShas' = IF out = Rejected THEN MergedShas
                      ELSE [MergedShas EXCEPT ![Owners[o]] = out]
    <2>1. Owners[o] = op[o].mr
      BY <1>1 DEF Owners
    <2>. QED BY <1>1, <2>1 DEF MergedShas
  <1>8. Owners' = Owners
    BY <1>2 DEF Owners
  <1>. QED BY <1>1, <1>3, <1>4, <1>5, <1>6, <1>7, <1>8
       DEF Promise!Record, Owners, Decisions, Recorded, MergedShas, Outcomes

\* Unless a caller has vanished and an earlier head was forced on a branch, the
\* journal implements its promise: through locks, retries, crashes of the job,
\* Git calls left behind or forced pushes, and recovery, an operation is decided
\* once and the database records that decision once.
THEOREM JournalImplements == Spec /\ []NotBoth => DecidesOnce
  <1>1. Init => Promise!Init
    <2> SUFFICES ASSUME Init PROVE Promise!Init
      OBVIOUS
    <2>1. \A o \in Ops : /\ op[o].mr = NoMR /\ Decided(o) = Nothing
                         /\ op[o].status = "none"
      BY DEF Init, NoRow, Decided
    <2>2. \A m \in MRs : mr[m].sha = Nothing
      BY DEF Init
    <2>. QED BY <2>1, <2>2 DEF Promise!Init
  <1>0. Agreeing' /\ NotBoth' => OutcomesAgree'
    BY BothAgree, PTL
  <1>2. Deciding /\ Deciding' /\ NotBoth /\ NotBoth' /\ [Next]_vars
          => [Promise!Next]_(Promise!vars)
    <2> SUFFICES ASSUME Deciding, OutcomesAgree, OutcomesAgree', [Next]_vars
                 PROVE  [Promise!Next]_(Promise!vars)
      BY <1>0, BothAgree DEF Deciding
    <2>0. ASSUME UNCHANGED <<Owners, Decisions, Recorded, MergedShas>>
          PROVE  UNCHANGED Promise!vars
      BY <2>0 DEF Promise!vars, Owners, Decisions, Recorded, MergedShas
    <2>1. CASE Unseen
      BY <2>0, <2>1, UnseenStutters
    <2>2. ASSUME NEW a \in Actors, NEW o \in Ops, Claim(a, o) PROVE Promise!Next
      <3>1. Promise!Bind(o, act[a].mr) /\ act[a].mr \in MRs
        BY <2>2, ClaimBinds
      <3>2. \E m \in MRs : Promise!Bind(o, m)
        BY <3>1 DEF Promise!Bind
      <3>. QED BY <3>2, Zenon DEF Promise!Next
    <2>3. ASSUME NEW a \in Actors, JobRecord(a)
          PROVE  Promise!Next \/ UNCHANGED Promise!vars
      <3>1. /\ job[a].op \in Ops /\ job[a].out \in Commits \cup {Rejected}
            /\ \/ Promise!Decide(job[a].op, job[a].out)
               \/ UNCHANGED <<Owners, Decisions, Recorded, MergedShas>>
        BY <2>3, RecordDecides
      <3>2. Promise!Decide(job[a].op, job[a].out) => Promise!Next
        BY <3>1 DEF Promise!Next
      <3>. QED BY <2>0, <3>1, <3>2
    <2>4. ASSUME NEW a \in Actors, Settle(a) PROVE Promise!Next
      <3>1. /\ act[a].op \in Ops /\ act[a].out \in Commits \cup {Rejected}
            /\ Promise!Record(act[a].op, act[a].out)
        BY <2>4, SettleRecords
      <3>2. \E outcome \in Commits \cup {Rejected} :
              Promise!Decide(act[a].op, outcome) \/ Promise!Record(act[a].op, outcome)
        BY <3>1 DEF Promise!Record, Promise!Decide
      <3>. QED BY <3>1, <3>2 DEF Promise!Next
    <2>. QED BY <2>1, <2>2, <2>3, <2>4, DecisionSteps DEF Deciding, Agreeing
  <1>3. Spec => []Deciding
    BY InitDeciding, NextDeciding, PTL DEF Spec
  <1>. QED BY <1>1, <1>2, <1>3, PTL DEF Spec, DecidesOnce, Promise!Spec

=============================================================================
