-------------------------- MODULE MergeJournalProofs --------------------------
(***************************************************************************)
(* Theorems about MergeJournal for any number of merge requests, instances *)
(* and operations and any number of failures and vanishing callers.        *)
(***************************************************************************)
EXTENDS MergeJournal, TLAPS

-----------------------------------------------------------------------------
\* Types.  The types of TypeOK are not inductive: a request that waits for a
\* row lock names an operation, one that completes it has an outcome, and an
\* applied row names a commit.  Typed says so.

Held == {"marked", "prepared", "settling", "landed"}
Running == Held \cup {"queued"}

Requests ==
  {r \in [pc : {"idle", "pin", "claim", "reconcile", "execute", "marker", "proof",
                "git", "settle", "deliver", "delivered"},
          does : {"none", "merge", "abort", "recover"}, mr : MRs \cup {NoMR},
          op : Ops \cup {NoOp}, source : Commits \cup {Nothing},
          target : Commits \cup {Nothing}, out : Outcomes \cup {Nothing}] :
     /\ r.pc \in {"pin", "claim"} => r.mr \in MRs
     /\ r.pc \notin {"idle", "pin", "claim"} => r.op \in Ops
     /\ r.pc = "settle" => r.out \in Outcomes}

Jobs ==
  {j \in [pc : Running \cup {"none", "done", "failed"}, op : Ops \cup {NoOp},
          abort : BOOLEAN, out : Outcomes \cup {Nothing}, head : Heads] :
     /\ j.pc \in Running => j.op \in Ops
     /\ j.pc \in {"prepared", "settling", "landed", "done"} => j.out \in Outcomes}

MRRows ==
  [state : {"opened", "closed", "merged"}, active : Ops \cup {NoOp},
   sha : Commits \cup {Nothing}]

OpRows ==
  {r \in [status : {"none", "pending", "applied", "rejected"}, mr : MRs \cup {NoMR},
          source : Commits \cup {Nothing}, target : Commits \cup {Nothing},
          sha : Commits \cup {Nothing}, delivered : BOOLEAN] :
     r.status = "applied" => r.sha \in Commits}

Counts == [{"pushes", "rewinds", "fails", "cancels"} -> Nat]

GitTyped ==
  /\ head \in [Branches -> Heads]
  /\ past \in [Branches -> SUBSET Heads]
  /\ prepared \in [Ops -> Commits \cup {Nothing}]
  /\ marker \in [Ops -> Outcomes \cup {Nothing}]

DbTyped ==
  /\ mr \in [MRs -> MRRows]
  /\ op \in [Ops -> OpRows]
  /\ pipelines \subseteq Commits

ActTyped == act \in [Actors -> Requests]
JobTyped == job \in [Actors -> Jobs]
CountTyped == count \in Counts

Typed == GitTyped /\ DbTyped /\ ActTyped /\ JobTyped /\ CountTyped

LEMMA TypedIsTypeOK == Typed => TypeOK
  <1> SUFFICES ASSUME Typed PROVE TypeOK
    OBVIOUS
  <1>1. op \in [Ops -> [status : {"none", "pending", "applied", "rejected"},
                        mr : MRs \cup {NoMR},
                        source : Commits \cup {Nothing}, target : Commits \cup {Nothing},
                        sha : Commits \cup {Nothing}, delivered : BOOLEAN]]
    BY DEF Typed, DbTyped, OpRows
  <1>2. act \in [Actors ->
         [pc : {"idle", "pin", "claim", "reconcile", "execute", "marker", "proof",
                "git", "settle", "deliver", "delivered"},
          does : {"none", "merge", "abort", "recover"}, mr : MRs \cup {NoMR},
          op : Ops \cup {NoOp}, source : Commits \cup {Nothing},
          target : Commits \cup {Nothing}, out : Outcomes \cup {Nothing}]]
    BY DEF Typed, ActTyped, Requests
  <1>3. job \in [Actors ->
         [pc : {"none", "queued", "marked", "prepared", "settling", "landed",
                "done", "failed"},
          op : Ops \cup {NoOp}, abort : BOOLEAN, out : Outcomes \cup {Nothing},
          head : Heads]]
    BY DEF Typed, JobTyped, Jobs, Running, Held
  <1>. QED BY <1>1, <1>2, <1>3
       DEF TypeOK, Typed, GitTyped, DbTyped, CountTyped, MRRows, Counts

LEMMA FirstTyped ==
  /\ FirstHead \in [Branches -> Heads] /\ FirstHead.target \in Heads
  /\ NoJob \in Jobs /\ NoRow \in OpRows /\ Idle \in Requests
  <1>1. MaxPushes \in Nat
    BY MergeAssumption
  <1>2. Pushed(0) \in Commits /\ Pushed(1) \in Commits
    BY <1>1 DEF Commits
  <1>3. FirstHead.target \in Heads /\ FirstHead.source \in Heads
    BY <1>2 DEF FirstHead, Heads
  <1>4. FirstHead \in [Branches -> Heads]
    BY <1>3 DEF FirstHead, Branches
  <1>5. NoJob \in Jobs
    BY <1>3 DEF NoJob, Jobs, Running, Held
  <1>6. NoRow \in OpRows
    BY DEF NoRow, OpRows
  <1>7. Idle \in Requests
    BY DEF Idle, Requests
  <1>. QED BY <1>3, <1>4, <1>5, <1>6, <1>7

LEMMA InitTyped == Init => Typed
  <1> SUFFICES ASSUME Init PROVE Typed
    OBVIOUS
  <1>1. GitTyped
    BY FirstTyped DEF Init, GitTyped
  <1>2. DbTyped
    BY FirstTyped DEF Init, DbTyped, MRRows
  <1>3. ActTyped /\ JobTyped
    BY FirstTyped DEF Init, ActTyped, JobTyped
  <1>4. CountTyped
    BY DEF Init, CountTyped, Counts
  <1>. QED BY <1>1, <1>2, <1>3, <1>4 DEF Typed

\* What has not changed keeps its type.
LEMMA Unchanged ==
  /\ GitTyped /\ UNCHANGED gitVars => GitTyped'
  /\ DbTyped /\ UNCHANGED dbVars => DbTyped'
  /\ ActTyped /\ UNCHANGED act => ActTyped'
  /\ JobTyped /\ UNCHANGED job => JobTyped'
  /\ CountTyped /\ UNCHANGED count => CountTyped'
  BY DEF gitVars, dbVars, GitTyped, DbTyped, ActTyped, JobTyped, CountTyped

LEMMA CountsOn ==
  ASSUME CountTyped
  PROVE  /\ count.pushes \in Nat
         /\ MayFail => CountTyped'
         /\ count' = [count EXCEPT !.cancels = @ + 1] => CountTyped'
         /\ count' = [count EXCEPT !.pushes = @ + 1] => CountTyped'
         /\ count' = [count EXCEPT !.rewinds = @ + 1] => CountTyped'
  BY DEF CountTyped, Counts, MayFail

\* A request that advances, that starts to execute, that ends.
LEMMA GotoTyped ==
  ASSUME ActTyped, NEW a \in Actors, act[a].pc \notin {"idle", "pin", "claim"},
         NEW pc \in {"reconcile", "execute", "marker", "proof", "git", "deliver",
                     "delivered"},
         Goto(a, pc)
  PROVE  ActTyped'
  <1>1. act[a] \in Requests
    BY DEF ActTyped
  <1>2. [act[a] EXCEPT !.pc = pc] \in Requests
    BY <1>1 DEF Requests
  <1>. QED BY <1>2 DEF Goto, ActTyped

LEMMA ExecuteTyped ==
  ASSUME ActTyped, NEW a \in Actors, NEW o \in Ops, NEW what \in {"merge", "abort"},
         Execute(a, what, o)
  PROVE  ActTyped'
  <1>1. [Idle EXCEPT !.pc = "execute", !.does = what, !.op = o] \in Requests
    BY DEF Requests, Idle
  <1>. QED BY <1>1 DEF Execute, ActTyped

LEMMA EndTyped ==
  ASSUME ActTyped, NEW a \in Actors, End(a)
  PROVE  ActTyped'
  <1>1. act[a].op \in Ops \cup {NoOp}
    BY DEF ActTyped, Requests
  <1>2. [Idle EXCEPT !.op = IF a \in Recoverers THEN act[a].op ELSE NoOp] \in Requests
    BY <1>1 DEF Requests, Idle
  <1>. QED BY <1>2 DEF End, ActTyped

LEMMA JobEndsTyped ==
  ASSUME JobTyped, NEW a \in Actors, NEW pc, NEW out,
         \/ pc = "done" /\ out \in Outcomes
         \/ pc = "failed" /\ out = Nothing,
         JobEnds(a, pc, out)
  PROVE  JobTyped'
  <1>1. [NoJob EXCEPT !.pc = pc, !.out = out] \in Jobs
    BY FirstTyped DEF Jobs, NoJob, Running, Held
  <1>2. \E j \in Jobs : job' = [job EXCEPT ![a] = j]
    BY <1>1, FirstTyped DEF JobEnds
  <1>. QED BY <1>2 DEF JobTyped

\* What the steps of an actor read.
LEMMA Reads ==
  ASSUME Typed, NEW a \in Actors
  PROVE  /\ act[a] \in Requests /\ job[a] \in Jobs
         /\ head.source \in Heads /\ head.target \in Heads
         /\ head.source.tip \in Commits /\ head.target.tip \in Commits
         /\ \A m \in MRs : mr[m] \in MRRows
         /\ \A o \in Ops : /\ op[o] \in OpRows
                           /\ marker[o] \in Outcomes \cup {Nothing}
                           /\ prepared[o] \in Commits \cup {Nothing}
  BY DEF Typed, ActTyped, JobTyped, GitTyped, DbTyped, Branches, Heads

\* The steps that only change the request.
LEMMA RequestTyped ==
  ASSUME Typed, NEW a \in Actors,
         \/ \E m \in MRs : StartMerge(a, m) \/ StartAbort(a, m)
         \/ PinTarget(a) \/ ReuseClaim(a) \/ RefuseClaim(a)
         \/ (\E o \in Ops : RecoverNext(a, o)) \/ RecoverAgain(a)
         \/ FindSettled(a) \/ LockToReconcile(a) \/ ReadMarker(a) \/ ReadProof(a)
  PROVE  Typed'
  <1>1. UNCHANGED gitVars /\ UNCHANGED dbVars /\ UNCHANGED job /\ UNCHANGED count
    BY DEF StartMerge, PinTarget, ReuseClaim, RefuseClaim, StartAbort,
       RecoverNext, RecoverAgain, FindSettled, LockToReconcile, ReadMarker, ReadProof
  <1>2. ActTyped /\ act[a] \in Requests
    BY Reads DEF Typed
  <1>3. ASSUME NEW r \in Requests, act' = [act EXCEPT ![a] = r] PROVE ActTyped'
    BY <1>2, <1>3 DEF ActTyped
  <1>4. ActTyped'
    <2>1. ASSUME NEW m \in MRs, StartMerge(a, m) PROVE ActTyped'
      <3>1. CASE mr[m].active # NoOp
        <4> DEFINE r == [act[a] EXCEPT !.pc = "reconcile", !.does = "merge",
                                       !.op = mr[m].active]
        <4>1. mr[m].active \in Ops
          BY <3>1, Reads DEF MRRows
        <4>2. r \in Requests
          BY <1>2, <4>1 DEF Requests
        <4>3. act' = [act EXCEPT ![a] = r]
          BY <1>2, <2>1, <3>1 DEF StartMerge, ActTyped
        <4>. QED BY <1>3, <4>2, <4>3
      <3>2. CASE mr[m].active = NoOp
        <4> DEFINE r == [act[a] EXCEPT !.pc = "pin", !.does = "merge", !.mr = m,
                                       !.source = head.source.tip]
        <4>1. r \in Requests
          BY <1>2, Reads DEF Requests
        <4>2. act' = [act EXCEPT ![a] = r]
          BY <1>2, <2>1, <3>2 DEF StartMerge, ActTyped
        <4>. QED BY <1>3, <4>1, <4>2
      <3>. QED BY <3>1, <3>2
    <2>2. CASE PinTarget(a)
      <3> DEFINE r == [act[a] EXCEPT !.pc = "claim", !.target = head.target.tip]
      <3>1. r \in Requests
        BY <1>2, <2>2, Reads DEF Requests, PinTarget
      <3>2. act' = [act EXCEPT ![a] = r]
        BY <1>2, <2>2 DEF PinTarget, ActTyped
      <3>. QED BY <1>3, <3>1, <3>2
    <2>3. CASE ReuseClaim(a)
      <3>1. act[a].mr \in MRs
        BY <1>2, <2>3 DEF ReuseClaim, Requests
      <3>2. mr[act[a].mr].active \in Ops
        BY <3>1, <2>3, Reads DEF ReuseClaim, MRRows
      <3>. QED BY <1>2, <2>3, <3>2, ExecuteTyped DEF ReuseClaim
    <2>4. CASE RefuseClaim(a)
      BY <1>2, <2>4, EndTyped DEF RefuseClaim
    <2>5. ASSUME NEW m \in MRs, StartAbort(a, m) PROVE ActTyped'
      <3>1. mr[m].active \in Ops
        BY <2>5, Reads DEF StartAbort, MRRows
      <3>. QED BY <1>2, <2>5, <3>1, ExecuteTyped DEF StartAbort
    <2>6. ASSUME NEW o \in Ops, RecoverNext(a, o) PROVE ActTyped'
      <3> DEFINE r == [act[a] EXCEPT !.op = o, !.does = "recover",
                    !.pc = IF op[o].status = "pending" THEN "reconcile" ELSE "deliver"]
      <3>0. \A pc \in {"reconcile", "deliver"} :
              [act[a] EXCEPT !.op = o, !.does = "recover", !.pc = pc] \in Requests
        BY <1>2 DEF Requests
      <3>1. r \in Requests
        BY <3>0
      <3>2. act' = [act EXCEPT ![a] = r]
        BY <1>2, <2>6 DEF RecoverNext, ActTyped
      <3>. QED BY <1>3, <3>1, <3>2
    <2>7. CASE RecoverAgain(a)
      BY <1>3, <2>7, FirstTyped DEF RecoverAgain
    <2>8. CASE FindSettled(a)
      BY <1>2, <2>8, GotoTyped DEF FindSettled
    <2>9. CASE LockToReconcile(a)
      BY <1>2, <2>9, GotoTyped DEF LockToReconcile
    <2>10. CASE ReadMarker(a)
      <3> DEFINE k == marker[act[a].op]
      <3>1. k \in Outcomes \cup {Nothing} /\ act[a].op \in Ops
        BY <1>2, <2>10, Reads DEF ReadMarker, Requests
      <3>2. CASE k = Nothing
        <4>1. [act[a] EXCEPT !.pc = "proof", !.out = Nothing] \in Requests
          BY <1>2, <3>1 DEF Requests
        <4>. QED BY <1>3, <1>2, <2>10, <3>2, <4>1 DEF ReadMarker, ActTyped
      <3>3. CASE k # Nothing
        <4>1. [act[a] EXCEPT !.pc = "settle", !.out = k] \in Requests
          BY <1>2, <3>1, <3>3 DEF Requests
        <4>. QED BY <1>3, <1>2, <2>10, <3>3, <4>1 DEF ReadMarker, ActTyped
      <3>. QED BY <3>2, <3>3
    <2>11. CASE ReadProof(a)
      <3>1. act[a].op \in Ops /\ act[a].pc = "proof"
        BY <1>2, <2>11 DEF ReadProof, Requests
      <3>2. CASE /\ Landed(act[a].op)
                 /\ act' = [act EXCEPT ![a].pc = "settle", ![a].out = prepared[act[a].op]]
        <4> DEFINE r == [act[a] EXCEPT !.pc = "settle", !.out = prepared[act[a].op]]
        <4>1. prepared[act[a].op] \in Outcomes
          BY <3>1, <3>2, Reads DEF Landed, Outcomes
        <4>2. r \in Requests
          BY <1>2, <3>1, <4>1 DEF Requests
        <4>3. act' = [act EXCEPT ![a] = r]
          BY <1>2, <3>2 DEF ActTyped
        <4>. QED BY <1>3, <4>2, <4>3
      <3>3. CASE Goto(a, "execute")
        BY <1>2, <3>1, <3>3, GotoTyped
      <3>4. CASE End(a)
        BY <1>2, <3>4, EndTyped
      <3>. QED BY <2>11, <3>2, <3>3, <3>4 DEF ReadProof
    <2>. QED BY <2>1, <2>2, <2>3, <2>4, <2>5, <2>6, <2>7, <2>8, <2>9, <2>10, <2>11
  <1>. QED BY <1>1, <1>4, Unchanged DEF Typed

\* The steps on the rows.
LEMMA RowsTyped ==
  ASSUME Typed, NEW a \in Actors,
         (\E o \in Ops : Claim(a, o)) \/ Settle(a) \/ Deliver(a) \/ MarkDelivered(a)
  PROVE  Typed'
  <1>1. UNCHANGED gitVars /\ UNCHANGED job /\ UNCHANGED count
    BY DEF Claim, Settle, Deliver, MarkDelivered
  <1>2. ActTyped /\ DbTyped /\ act[a] \in Requests
    BY Reads DEF Typed
  <1>3. ActTyped' /\ DbTyped'
    <2>1. ASSUME NEW o \in Ops, Claim(a, o) PROVE ActTyped' /\ DbTyped'
      <3> DEFINE row == [status |-> "pending", mr |-> act[a].mr,
                         source |-> act[a].source, target |-> act[a].target,
                         sha |-> Nothing, delivered |-> FALSE]
      <3>1. act[a].mr \in MRs /\ row \in OpRows
        BY <1>2, <2>1 DEF Claim, Requests, OpRows
      <3>2. op' = [op EXCEPT ![o] = row] /\ mr' = [mr EXCEPT ![act[a].mr].active = o]
            /\ UNCHANGED pipelines
        BY <2>1 DEF Claim
      <3>3. DbTyped'
        BY <1>2, <3>1, <3>2 DEF DbTyped, MRRows
      <3>4. ActTyped'
        BY <1>2, <2>1, ExecuteTyped DEF Claim
      <3>. QED BY <3>3, <3>4
    <2>2. CASE Settle(a)
      <3> DEFINE n == act[a].op
      <3>1. n \in Ops /\ act[a].out \in Outcomes /\ op[n] \in OpRows
        BY <1>2, <2>2, Reads DEF Settle, Requests
      <3>2. DbTyped'
        <4>1. CASE /\ op' = [op EXCEPT ![n].status = "rejected"]
                   /\ mr' = [mr EXCEPT ![op[n].mr].active = NoOp]
          <5>1. op' \in [Ops -> OpRows]
            BY <1>2, <3>1, <4>1 DEF DbTyped, OpRows
          <5>2. mr' \in [MRs -> MRRows]
            BY <1>2, <4>1 DEF DbTyped, MRRows
          <5>. QED BY <1>2, <2>2, <5>1, <5>2 DEF DbTyped, Settle
        <4>2. CASE /\ act[a].out # Rejected
                   /\ op' = [op EXCEPT ![n].status = "applied", ![n].sha = act[a].out]
                   /\ mr' = [mr EXCEPT ![op[n].mr] = [state |-> "merged",
                                          active |-> NoOp, sha |-> act[a].out]]
          <5>1. act[a].out \in Commits
            BY <3>1, <4>2 DEF Outcomes
          <5>2. [op[n] EXCEPT !.status = "applied", !.sha = act[a].out] \in OpRows
            BY <3>1, <5>1 DEF OpRows
          <5>3. op' = [op EXCEPT ![n] = [op[n] EXCEPT !.status = "applied",
                                                      !.sha = act[a].out]]
            BY <1>2, <3>1, <4>2 DEF DbTyped
          <5>4. op' \in [Ops -> OpRows]
            BY <1>2, <5>2, <5>3 DEF DbTyped
          <5>5. mr' \in [MRs -> MRRows]
            BY <1>2, <5>1, <4>2 DEF DbTyped, MRRows
          <5>. QED BY <1>2, <2>2, <5>4, <5>5 DEF DbTyped, Settle
        <4>. QED BY <2>2, <4>1, <4>2 DEF Settle
      <3>3. [act[a] EXCEPT !.pc = "deliver", !.out = Nothing] \in Requests
        BY <1>2, <3>1 DEF Requests
      <3>4. ActTyped'
        BY <1>2, <2>2, <3>3 DEF Settle, ActTyped
      <3>. QED BY <3>2, <3>4
    <2>3. CASE Deliver(a)
      <3>1. act[a].op \in Ops /\ act[a].pc = "deliver"
        BY <1>2, <2>3 DEF Deliver, Requests
      <3>2. CASE /\ op[act[a].op].status = "applied"
                 /\ pipelines' = pipelines \cup ({op[act[a].op].sha} \ NoConfig)
                 /\ Goto(a, "delivered")
        <4>1. op[act[a].op].sha \in Commits
          BY <3>1, <3>2, Reads DEF OpRows
        <4>2. DbTyped'
          BY <1>2, <2>3, <3>2, <4>1 DEF DbTyped, Deliver
        <4>. QED BY <1>2, <3>1, <3>2, <4>2, GotoTyped
      <3>3. CASE End(a) /\ UNCHANGED pipelines
        BY <1>2, <2>3, <3>3, EndTyped, Unchanged DEF Deliver, dbVars
      <3>. QED BY <2>3, <3>2, <3>3 DEF Deliver
    <2>4. CASE MarkDelivered(a)
      <3>1. act[a].op \in Ops
        BY <1>2, <2>4 DEF MarkDelivered, Requests
      <3>2. [op[act[a].op] EXCEPT !.delivered = TRUE] \in OpRows
        BY <3>1, Reads DEF OpRows
      <3>3. DbTyped'
        BY <1>2, <2>4, <3>2 DEF MarkDelivered, DbTyped
      <3>. QED BY <1>2, <2>4, <3>3, EndTyped DEF MarkDelivered
    <2>. QED BY <2>1, <2>2, <2>3, <2>4
  <1>. QED BY <1>1, <1>3, Unchanged DEF Typed

\* The steps between a request and its job.
LEMMA CallTyped ==
  ASSUME Typed, NEW a \in Actors,
         LockToExecute(a) \/ Reply(a) \/ Fail(a) \/ Vanish(a)
  PROVE  Typed'
  <1>1. UNCHANGED gitVars /\ UNCHANGED dbVars
    BY DEF LockToExecute, Reply, Fail, Vanish
  <1>2. ActTyped /\ JobTyped /\ CountTyped /\ act[a] \in Requests /\ job[a] \in Jobs
    BY Reads DEF Typed
  <1>3. ActTyped' /\ JobTyped' /\ CountTyped'
    <2>1. CASE LockToExecute(a)
      <3>1. act[a].op \in Ops
        BY <1>2, <2>1 DEF LockToExecute, Requests
      <3>2. [NoJob EXCEPT !.pc = "queued", !.op = act[a].op,
                          !.abort = act[a].does = "abort"] \in Jobs
        BY <3>1, FirstTyped DEF Jobs, NoJob, Running, Held
      <3>3. JobTyped'
        BY <1>2, <2>1, <3>2 DEF LockToExecute, JobTyped
      <3>. QED BY <1>2, <2>1, <3>3, GotoTyped, Unchanged DEF LockToExecute
    <2>2. CASE Reply(a)
      <3>1. JobTyped'
        BY <1>2, <2>2, FirstTyped DEF Reply, JobTyped
      <3>2. CASE /\ job[a].pc = "done"
                 /\ act' = [act EXCEPT ![a].pc = "settle", ![a].out = job[a].out]
        <4>1. [act[a] EXCEPT !.pc = "settle", !.out = job[a].out] \in Requests
          BY <1>2, <2>2, <3>2 DEF Reply, Requests, Jobs
        <4>2. ActTyped'
          BY <1>2, <3>2, <4>1 DEF ActTyped
        <4>. QED BY <1>2, <2>2, <3>1, <4>2, Unchanged DEF Reply
      <3>3. CASE End(a)
        BY <1>2, <2>2, <3>1, <3>3, EndTyped, Unchanged DEF Reply
      <3>. QED BY <2>2, <3>2, <3>3 DEF Reply
    <2>3. CASE Fail(a)
      BY <1>2, <2>3, EndTyped, Unchanged, CountsOn DEF Fail
    <2>4. CASE Vanish(a)
      <3>1. ActTyped'
        BY <1>2, <2>4, FirstTyped DEF Vanish, ActTyped
      <3>2. JobTyped'
        BY <1>2, <2>4, FirstTyped DEF Vanish, JobTyped
      <3>. QED BY <1>2, <2>4, <3>1, <3>2, CountsOn DEF Vanish
    <2>. QED BY <2>1, <2>2, <2>3, <2>4
  <1>. QED BY <1>1, <1>3, Unchanged DEF Typed

LEMMA CandidateTyped ==
  ASSUME Typed, NEW o \in Ops
  PROVE  Candidate(o) \in Heads /\ Candidate(o).tip \in Commits
  <1>1. MergeOf(o) \in Commits
    BY DEF Commits
  <1>2. head.source \in Heads /\ head.target \in Heads
    BY DEF Typed, GitTyped, Branches
  <1>. QED BY <1>1, <1>2 DEF Candidate, Heads

\* The steps of a job.
LEMMA JobStepsTyped ==
  ASSUME Typed, NEW a \in Actors,
         JobStart(a) \/ JobDecide(a) \/ JobLand(a) \/ JobRecord(a) \/ JobFail(a)
  PROVE  Typed'
  <1>1. UNCHANGED dbVars /\ UNCHANGED act
    BY DEF JobStart, JobDecide, JobLand, JobRecord, JobFail
  <1>2. GitTyped /\ JobTyped /\ CountTyped /\ job[a] \in Jobs
    BY Reads DEF Typed
  <1>3. ASSUME NEW j \in Jobs, job' = [job EXCEPT ![a] = j] PROVE JobTyped'
    BY <1>2, <1>3 DEF JobTyped
  <1>4. GitTyped' /\ JobTyped' /\ CountTyped'
    <2>1. CASE JobStart(a)
      <3>1. job[a].op \in Ops
        BY <1>2, <2>1 DEF JobStart, Jobs, Running
      <3>2. marker[job[a].op] # Nothing => marker[job[a].op] \in Outcomes
        BY <3>1, Reads
      <3>3. [job[a] EXCEPT !.pc = "marked"] \in Jobs
        BY <1>2, <3>1 DEF Jobs, Running, Held
      <3>4. job' = [job EXCEPT ![a].pc = "marked"] => JobTyped'
        BY <1>2, <1>3, <3>3 DEF JobTyped
      <3>5. JobTyped'
        BY <1>2, <2>1, <3>2, <3>4, JobEndsTyped DEF JobStart
      <3>. QED BY <1>2, <2>1, <3>5, Unchanged DEF JobStart
    <2>2. CASE JobDecide(a)
      <3> DEFINE o == job[a].op
      <3>1. o \in Ops /\ prepared[o] \in Commits \cup {Nothing}
        BY <1>2, <2>2, Reads DEF JobDecide, Jobs, Running, Held
      <3>2. \A out \in Outcomes : JobConclude(a, out) => JobTyped'
        <4> SUFFICES ASSUME NEW out \in Outcomes, JobConclude(a, out) PROVE JobTyped'
          OBVIOUS
        <4>1. [job[a] EXCEPT !.pc = "settling", !.out = out] \in Jobs
          BY <1>2, <3>1 DEF Jobs, Running, Held
        <4>. QED BY <1>2, <1>3, <4>1 DEF JobConclude, JobTyped
      <3>3. UNCHANGED prepared => GitTyped'
        BY <1>2, <2>2, Unchanged DEF JobDecide, gitVars
      <3>4. CASE JobEnds(a, "failed", Nothing) /\ UNCHANGED prepared
        BY <1>2, <2>2, <3>3, <3>4, JobEndsTyped, Unchanged DEF JobDecide
      <3>5. CASE Landed(o) /\ JobConclude(a, prepared[o])
        <4>1. prepared[o] \in Outcomes
          BY <3>1, <3>5 DEF Landed, Outcomes
        <4>. QED BY <1>2, <2>2, <3>2, <3>3, <3>5, <4>1, Unchanged
             DEF JobDecide, JobConclude
      <3>6. CASE JobConclude(a, Rejected)
        <4>1. Rejected \in Outcomes
          BY DEF Outcomes
        <4>. QED BY <1>2, <2>2, <3>2, <3>3, <3>6, <4>1, Unchanged
             DEF JobDecide, JobConclude
      <3>7. CASE /\ prepared' = [prepared EXCEPT ![o] = Candidate(o).tip]
                 /\ job' = [job EXCEPT ![a].pc = "prepared", ![a].head = Candidate(o),
                                       ![a].out = Candidate(o).tip]
        <4>1. Candidate(o) \in Heads /\ Candidate(o).tip \in Commits
          BY <3>1, CandidateTyped
        <4>2. [job[a] EXCEPT !.pc = "prepared", !.head = Candidate(o),
                             !.out = Candidate(o).tip] \in Jobs
          BY <1>2, <3>1, <4>1 DEF Jobs, Running, Held, Outcomes
        <4>3. JobTyped'
          BY <1>2, <1>3, <3>7, <4>2 DEF JobTyped
        <4>4. GitTyped'
          BY <1>2, <2>2, <3>7, <4>1 DEF GitTyped, JobDecide
        <4>. QED BY <1>2, <2>2, <4>3, <4>4, Unchanged DEF JobDecide
      <3>. QED BY <2>2, <3>4, <3>5, <3>6, <3>7 DEF JobDecide
    <2>3. CASE JobLand(a)
      <3>1. job[a].head \in Heads
        BY <1>2 DEF Jobs
      <3>2. GitTyped'
        BY <1>2, <2>3, <3>1 DEF JobLand, GitTyped, Branches
      <3>3. [job[a] EXCEPT !.pc = "landed"] \in Jobs
        BY <1>2, <2>3 DEF JobLand, Jobs, Running, Held
      <3>4. JobTyped'
        BY <1>2, <1>3, <2>3, <3>3 DEF JobLand, JobTyped
      <3>. QED BY <1>2, <2>3, <3>2, <3>4, Unchanged DEF JobLand
    <2>4. CASE JobRecord(a)
      <3>1. job[a].op \in Ops /\ job[a].out \in Outcomes
        BY <1>2, <2>4 DEF JobRecord, Jobs, Running, Held
      <3>2. GitTyped'
        BY <1>2, <2>4, <3>1 DEF JobRecord, GitTyped
      <3>3. JobTyped'
        BY <1>2, <2>4, <3>1, JobEndsTyped DEF JobRecord
      <3>. QED BY <1>2, <2>4, <3>2, <3>3, Unchanged DEF JobRecord
    <2>5. CASE JobFail(a)
      BY <1>2, <2>5, JobEndsTyped, Unchanged, CountsOn DEF JobFail
    <2>. QED BY <2>1, <2>2, <2>3, <2>4, <2>5
  <1>. QED BY <1>1, <1>4, Unchanged DEF Typed

\* The steps of other writers.
LEMMA WritersTyped ==
  ASSUME Typed, NEW b \in Branches, Push(b) \/ Rewind(b)
  PROVE  Typed'
  <1>1. GitTyped /\ CountTyped /\ count.pushes \in Nat
    BY CountsOn DEF Typed
  <1>2. ASSUME NEW h \in Heads, SetBranch(b, h)
        PROVE  /\ GitTyped' /\ UNCHANGED dbVars /\ UNCHANGED act /\ UNCHANGED job
    BY <1>1, <1>2 DEF SetBranch, GitTyped
  <1>3. CASE Push(b)
    <2>1. count.pushes + 2 \in 0 .. MaxPushes + 1
      BY <1>1, <1>3, MergeAssumption DEF Push
    <2> DEFINE c == Pushed(count.pushes + 2)
    <2>2. c \in Commits
      BY <2>1 DEF Commits
    <2>3. /\ head[b].all \subseteq Commits
          /\ head.source.all \subseteq Commits /\ head.target.all \subseteq Commits
      BY <1>1 DEF GitTyped, Heads, Branches
    <2>4. PICK merged \in {{}, head.source.all, head.target.all} :
            SetBranch(b, [tip |-> c, all |-> head[b].all \cup merged \cup {c}])
      BY <1>3 DEF Push
    <2>5. [tip |-> c, all |-> head[b].all \cup merged \cup {c}] \in Heads
      BY <2>2, <2>3 DEF Heads
    <2>. QED BY <1>1, <1>2, <1>3, <2>4, <2>5, CountsOn, Unchanged DEF Push, Typed
  <1>4. CASE Rewind(b)
    <2>1. PICK h \in past[b] \ {head[b]} : SetBranch(b, h)
      BY <1>4 DEF Rewind
    <2>2. h \in Heads
      BY <1>1 DEF GitTyped
    <2>. QED BY <1>1, <1>2, <1>4, <2>1, <2>2, CountsOn, Unchanged DEF Rewind, Typed
  <1>. QED BY <1>3, <1>4

LEMMA NextTyped == Typed /\ [Next]_vars => Typed'
  <1> SUFFICES ASSUME Typed, [Next]_vars PROVE Typed'
    OBVIOUS
  <1>1. ASSUME NEW a \in Actors, Handles(a) PROVE Typed'
    BY <1>1, RequestTyped, RowsTyped, CallTyped DEF Handles
  <1>2. ASSUME NEW a \in Actors, Recovers(a) PROVE Typed'
    BY <1>2, RequestTyped DEF Recovers
  <1>3. ASSUME NEW a \in Actors, JobRuns(a) \/ JobFail(a) PROVE Typed'
    BY <1>3, JobStepsTyped DEF JobRuns
  <1>4. ASSUME NEW a \in Actors, Fail(a) \/ Vanish(a) PROVE Typed'
    BY <1>4, CallTyped
  <1>5. ASSUME NEW a \in Actors, NEW m \in MRs, StartMerge(a, m) \/ StartAbort(a, m)
        PROVE  Typed'
    BY <1>5, RequestTyped
  <1>6. ASSUME NEW m \in MRs, UpdateState(m) PROVE Typed'
    BY <1>6, Unchanged DEF UpdateState, Typed, DbTyped, MRRows
  <1>7. ASSUME NEW b \in Branches, Push(b) \/ Rewind(b) PROVE Typed'
    BY <1>7, WritersTyped
  <1>8. CASE UNCHANGED vars
    BY <1>8, Unchanged DEF Typed, vars
  <1>. QED BY <1>1, <1>2, <1>3, <1>4, <1>5, <1>6, <1>7, <1>8 DEF Next

\* Every variable of the merge journal keeps its type, for any number of merge
\* requests, instances, pushes and failures: an applied row always names a
\* commit, a request that completes a row always brings an outcome.
THEOREM JournalTypeCorrect == Spec => []TypeOK
  <1>1. Spec => []Typed
    BY InitTyped, NextTyped, PTL DEF Spec
  <1>. QED BY <1>1, TypedIsTypeOK, PTL

-----------------------------------------------------------------------------
\* The fence of an aborted operation.  The reference lock of an outcome is
\* held by one job at a time and only while there is no outcome; whoever
\* carries a rejection, from the job through the reply to the row, carries
\* one that is in the outcome reference.

OneHolder ==
  \A a, b \in Actors :
    job[a].pc \in Held /\ job[b].pc \in Held /\ job[a].op = job[b].op => a = b

HolderUndecided ==
  \A a \in Actors : job[a].pc \in Held => marker[job[a].op] = Nothing

\* The job of a request that waits, and not one it left behind.
CallMatches ==
  \A a \in Actors :
    /\ act[a].pc = "git" /\ job[a].pc \in Running => job[a].op = act[a].op
    /\ job[a].pc = "done" => act[a].pc = "git"

RejectionBacked ==
  /\ \A a \in Actors :
       /\ job[a].pc = "done" /\ job[a].out = Rejected => marker[act[a].op] = Rejected
       /\ act[a].pc = "settle" /\ act[a].out = Rejected => marker[act[a].op] = Rejected
  /\ \A o \in Ops : op[o].status = "rejected" => marker[o] = Rejected

Fence == OneHolder /\ HolderUndecided /\ CallMatches /\ RejectionBacked

LEMMA OutcomesApart ==
  Rejected # Nothing /\ Rejected \notin Commits /\ Nothing \notin Outcomes
  BY DEF Rejected, Nothing, Outcomes, Commits, Pushed, MergeOf

LEMMA InitFence == Init => Fence
  BY DEF Init, Fence, OneHolder, HolderUndecided, CallMatches, RejectionBacked, Idle,
     NoJob, NoRow, Held

\* A request moves that has no answer to wait for.
LEMMA RequestFence ==
  ASSUME Fence, NEW a \in Actors,
         UNCHANGED job, UNCHANGED marker,
         act[a].pc # "git", act'[a].pc # "git",
         \A b \in Actors \ {a} : act'[b] = act[b],
         act'[a].pc = "settle" /\ act'[a].out = Rejected
           => marker[act'[a].op] = Rejected,
         \A o \in Ops : op'[o].status = "rejected" => marker[o] = Rejected
  PROVE  Fence'
  <1>1. OneHolder' /\ HolderUndecided'
    BY DEF Fence, OneHolder, HolderUndecided
  <1>2. CallMatches'
    BY DEF Fence, CallMatches
  <1>3. RejectionBacked'
    BY DEF Fence, RejectionBacked, CallMatches
  <1>. QED BY <1>1, <1>2, <1>3 DEF Fence

\* A job moves and leaves the outcome reference as it is.
LEMMA JobFence ==
  ASSUME Fence, NEW a \in Actors,
         UNCHANGED act, UNCHANGED op, UNCHANGED marker,
         \A b \in Actors \ {a} : job'[b] = job[b],
         job'[a].pc \in Running
           => job[a].pc \in Running /\ job'[a].op = job[a].op,
         job'[a].pc \in Held
           => /\ marker[job[a].op] = Nothing
              /\ \A b \in Actors \ {a} : job[b].pc \in Held => job[b].op # job[a].op,
         job'[a].pc = "done"
           => /\ act[a].pc = "git"
              /\ job'[a].out = Rejected => marker[act[a].op] = Rejected
  PROVE  Fence'
  <1>0. Held \subseteq Running /\ "done" \notin Running
    BY DEF Running, Held
  <1>1. OneHolder'
    BY <1>0 DEF Fence, OneHolder
  <1>2. HolderUndecided'
    BY <1>0 DEF Fence, HolderUndecided
  <1>3. CallMatches'
    BY <1>0 DEF Fence, CallMatches
  <1>4. RejectionBacked'
    BY DEF Fence, RejectionBacked
  <1>. QED BY <1>1, <1>2, <1>3, <1>4 DEF Fence

\* What the steps do to the requests: only one moves.
LEMMA OneMoves ==
  ASSUME ActTyped, NEW a \in Actors
  PROVE  /\ \A pc : Goto(a, pc) =>
              /\ act'[a].pc = pc
              /\ \A b \in Actors \ {a} : act'[b] = act[b]
         /\ End(a) =>
              /\ act'[a].pc = "idle"
              /\ \A b \in Actors \ {a} : act'[b] = act[b]
         /\ \A what, o : Execute(a, what, o) =>
              /\ act'[a].pc = "execute"
              /\ \A b \in Actors \ {a} : act'[b] = act[b]
  <1>1. ASSUME NEW pc, Goto(a, pc)
        PROVE  act'[a].pc = pc /\ \A b \in Actors \ {a} : act'[b] = act[b]
    BY <1>1 DEF ActTyped, Requests, Goto
  <1>2. ASSUME End(a)
        PROVE  act'[a].pc = "idle" /\ \A b \in Actors \ {a} : act'[b] = act[b]
    BY <1>2 DEF ActTyped, Requests, End, Idle
  <1>3. ASSUME NEW what, NEW o, Execute(a, what, o)
        PROVE  act'[a].pc = "execute" /\ \A b \in Actors \ {a} : act'[b] = act[b]
    BY <1>3 DEF ActTyped, Requests, Execute, Idle
  <1>. QED BY <1>1, <1>2, <1>3

\* The steps that only change the request: where they come from, what they
\* bring to a completion, and how they come to know their operation.
Early == {"idle", "pin", "claim"}

LEMMA RequestMoves ==
  ASSUME Typed, NEW a \in Actors,
         \/ \E m \in MRs : StartMerge(a, m) \/ StartAbort(a, m)
         \/ PinTarget(a) \/ ReuseClaim(a) \/ RefuseClaim(a)
         \/ (\E o \in Ops : RecoverNext(a, o)) \/ RecoverAgain(a)
         \/ FindSettled(a) \/ LockToReconcile(a) \/ ReadMarker(a) \/ ReadProof(a)
  PROVE  /\ UNCHANGED <<gitVars, dbVars, job>>
         /\ act[a].pc # "git" /\ act'[a].pc # "git"
         /\ \A b \in Actors \ {a} : act'[b] = act[b]
         /\ act'[a].pc = "settle" =>
              /\ act[a].op \in Ops /\ act'[a].op = act[a].op
              /\ \/ act'[a].out = marker[act[a].op] /\ act'[a].out # Nothing
                 \/ act'[a].out = prepared[act[a].op] /\ Landed(act[a].op)
         /\ act'[a].pc \notin Early =>
              \/ act'[a].op = act[a].op /\ act[a].pc \notin Early
              \/ \E m \in MRs : mr[m].active # NoOp /\ act'[a].op = mr[m].active
              \/ Unfinished(act'[a].op)
  <1>1. UNCHANGED <<gitVars, dbVars, job>>
    BY DEF StartMerge, PinTarget, ReuseClaim, RefuseClaim, StartAbort,
       RecoverNext, RecoverAgain, FindSettled, LockToReconcile, ReadMarker, ReadProof
  <1>2. ActTyped /\ act[a] \in Requests
    BY Reads DEF Typed
  <1>3. act[a].pc # "git"
    BY DEF StartMerge, PinTarget, ReuseClaim, RefuseClaim, StartAbort,
       RecoverNext, RecoverAgain, FindSettled, LockToReconcile, ReadMarker, ReadProof
  <1>4. \A b \in Actors \ {a} : act'[b] = act[b]
    BY <1>2 DEF StartMerge, PinTarget, ReuseClaim, RefuseClaim, StartAbort, ActTyped,
       RecoverNext, RecoverAgain, FindSettled, LockToReconcile, ReadMarker, ReadProof,
       Goto, End, Execute
  <1> DEFINE
        Brings == /\ act[a].op \in Ops /\ act'[a].op = act[a].op
                  /\ \/ act'[a].out = marker[act[a].op] /\ act'[a].out # Nothing
                     \/ act'[a].out = prepared[act[a].op] /\ Landed(act[a].op)
        Knows == \/ act'[a].op = act[a].op /\ act[a].pc \notin Early
                 \/ \E m \in MRs : mr[m].active # NoOp /\ act'[a].op = mr[m].active
                 \/ Unfinished(act'[a].op)
        Goal == /\ act'[a].pc # "git"
                /\ act'[a].pc = "settle" => Brings
                /\ act'[a].pc \notin Early => Knows
  <1>5. ASSUME NEW pc \in {"execute", "marker", "deliver"}, Goto(a, pc),
               act[a].pc \notin Early
        PROVE  Goal
    BY <1>2, <1>5 DEF Goto, ActTyped, Requests
  <1>6. End(a) => Goal
    BY <1>2, OneMoves DEF Early
  <1>7. ASSUME ReadMarker(a) PROVE Goal
    <2> DEFINE k == marker[act[a].op]
    <2>1. act[a].op \in Ops /\ act[a].pc = "marker"
      BY <1>2, <1>7 DEF ReadMarker, Requests
    <2>2. act'[a] = [act[a] EXCEPT !.pc = IF k = Nothing THEN "proof" ELSE "settle",
                                   !.out = k]
      BY <1>2, <1>7 DEF ReadMarker, ActTyped
    <2>3. /\ act'[a].pc = IF k = Nothing THEN "proof" ELSE "settle"
          /\ act'[a].op = act[a].op /\ act'[a].out = k
      BY <1>2, <2>2 DEF Requests
    <2>. QED BY <2>1, <2>3 DEF Early
  <1>8. ASSUME ReadProof(a) PROVE Goal
    <2>1. act[a].op \in Ops /\ act[a].pc = "proof"
      BY <1>2, <1>8 DEF ReadProof, Requests
    <2>2. CASE /\ Landed(act[a].op)
               /\ act' = [act EXCEPT ![a].pc = "settle", ![a].out = prepared[act[a].op]]
      <3>1. /\ act'[a].pc = "settle" /\ act'[a].out = prepared[act[a].op]
            /\ act'[a].op = act[a].op
        BY <1>2, <2>2 DEF ActTyped, Requests
      <3>. QED BY <2>1, <2>2, <3>1 DEF Early
    <2>3. CASE Goto(a, "execute")
      BY <1>5, <2>1, <2>3 DEF Early
    <2>4. CASE End(a)
      BY <1>6, <2>4
    <2>. QED BY <1>8, <2>2, <2>3, <2>4 DEF ReadProof
  <1>9. ASSUME NEW m \in MRs, StartMerge(a, m) PROVE Goal
    <2>1. CASE /\ mr[m].active # NoOp
               /\ act' = [act EXCEPT ![a].pc = "reconcile", ![a].does = "merge",
                                     ![a].op = mr[m].active]
      <3>1. act'[a].pc = "reconcile" /\ act'[a].op = mr[m].active
        BY <1>2, <2>1 DEF ActTyped, Requests
      <3>. QED BY <2>1, <3>1
    <2>2. CASE act' = [act EXCEPT ![a].pc = "pin", ![a].does = "merge",
                                  ![a].mr = m, ![a].source = head.source.tip]
      <3>1. act'[a].pc = "pin"
        BY <1>2, <2>2 DEF ActTyped, Requests
      <3>. QED BY <3>1 DEF Early
    <2>. QED BY <1>9, <2>1, <2>2 DEF StartMerge
  <1>10. ASSUME NEW m \in MRs, NEW what, mr[m].active # NoOp,
                Execute(a, what, mr[m].active)
         PROVE  Goal
    <2>1. act'[a].pc = "execute" /\ act'[a].op = mr[m].active
      BY <1>2, <1>10 DEF Execute, ActTyped, Requests, Idle
    <2>. QED BY <1>10, <2>1
  <1>11. ASSUME ReuseClaim(a) PROVE Goal
    <2>1. act[a].mr \in MRs
      BY <1>2, <1>11 DEF ReuseClaim, Requests
    <2>. QED BY <1>10, <1>11, <2>1 DEF ReuseClaim
  <1>12. ASSUME PinTarget(a) PROVE Goal
    <2>1. act'[a].pc = "claim"
      BY <1>2, <1>12 DEF PinTarget, ActTyped, Requests
    <2>. QED BY <2>1 DEF Early
  <1>13. ASSUME NEW o \in Ops, RecoverNext(a, o) PROVE Goal
    <2>1. /\ act'[a].pc = IF op[o].status = "pending" THEN "reconcile" ELSE "deliver"
          /\ act'[a].op = o
      BY <1>2, <1>13 DEF RecoverNext, ActTyped, Requests
    <2>2. act'[a].pc \in {"reconcile", "deliver"}
      BY <2>1
    <2>3. Unfinished(act'[a].op)
      BY <1>13, <2>1 DEF RecoverNext
    <2>. QED BY <2>2, <2>3
  <1>14. ASSUME RecoverAgain(a) PROVE Goal
    BY <1>2, <1>14 DEF RecoverAgain, ActTyped, Idle, Early
  <1>15. ASSUME FindSettled(a) \/ LockToReconcile(a) PROVE Goal
    <2>1. act[a].pc \notin Early
      BY <1>15 DEF FindSettled, LockToReconcile, Early
    <2>. QED BY <1>5, <1>15, <2>1 DEF FindSettled, LockToReconcile
  <1>16. Goal
    BY <1>6, <1>7, <1>8, <1>9, <1>10, <1>11, <1>12, <1>13, <1>14, <1>15
       DEF StartAbort, RefuseClaim
  <1>. QED BY <1>1, <1>3, <1>4, <1>16

LEMMA RequestsFence ==
  ASSUME Typed, Fence, NEW a \in Actors,
         \/ \E m \in MRs : StartMerge(a, m) \/ StartAbort(a, m)
         \/ PinTarget(a) \/ ReuseClaim(a) \/ RefuseClaim(a)
         \/ (\E o \in Ops : RecoverNext(a, o)) \/ RecoverAgain(a)
         \/ FindSettled(a) \/ LockToReconcile(a) \/ ReadMarker(a) \/ ReadProof(a)
  PROVE  Fence'
  <1>1. UNCHANGED <<job, marker, op>>
    BY RequestMoves DEF gitVars, dbVars
  <1>2. /\ act[a].pc # "git" /\ act'[a].pc # "git"
        /\ \A b \in Actors \ {a} : act'[b] = act[b]
    BY RequestMoves
  <1>3. act'[a].pc = "settle" /\ act'[a].out = Rejected
          => marker[act'[a].op] = Rejected
    <2>1. act[a].op \in Ops /\ Landed(act[a].op) => prepared[act[a].op] \in Commits
      BY Reads DEF Landed
    <2>. QED BY <2>1, RequestMoves, OutcomesApart
  <1>4. \A o \in Ops : op'[o].status = "rejected" => marker[o] = Rejected
    BY <1>1 DEF Fence, RejectionBacked
  <1>. QED BY <1>1, <1>2, <1>3, <1>4, RequestFence

\* The same for the steps on the rows.
LEMMA RowMoves ==
  ASSUME Typed, NEW a \in Actors,
         \/ \E o \in Ops : Claim(a, o)
         \/ Settle(a) \/ Deliver(a) \/ MarkDelivered(a) \/ Fail(a)
  PROVE  /\ UNCHANGED <<gitVars, job>>
         /\ act[a].pc # "git" /\ act'[a].pc \notin {"git", "settle"}
         /\ \A b \in Actors \ {a} : act'[b] = act[b]
         /\ act'[a].pc \notin Early =>
              \/ act'[a].op = act[a].op /\ act[a].pc \notin Early
              \/ \E o \in Ops : Claim(a, o) /\ act'[a].op = o
  <1>1. UNCHANGED <<gitVars, job>> /\ act[a].pc # "git"
    BY DEF Claim, Settle, Deliver, MarkDelivered, Fail
  <1>2. ActTyped /\ act[a] \in Requests
    BY Reads DEF Typed
  <1> DEFINE
        Goal == /\ act'[a].pc \notin {"git", "settle"}
                /\ \A b \in Actors \ {a} : act'[b] = act[b]
                /\ act'[a].pc \notin Early =>
                     \/ act'[a].op = act[a].op /\ act[a].pc \notin Early
                     \/ \E o \in Ops : Claim(a, o) /\ act'[a].op = o
  <1>3. End(a) => Goal
    BY <1>2, OneMoves DEF Early
  <1>4. ASSUME NEW o \in Ops, Claim(a, o) PROVE Goal
    <2>1. act'[a].pc = "execute" /\ act'[a].op = o
      BY <1>2, <1>4 DEF Claim, Execute, ActTyped, Requests, Idle
    <2>. QED BY <1>2, <1>4, <2>1, OneMoves DEF Claim
  <1>5. ASSUME Settle(a) PROVE Goal
    <2>1. act'[a].pc = "deliver" /\ act'[a].op = act[a].op /\ act[a].pc \notin Early
      BY <1>2, <1>5 DEF Settle, ActTyped, Requests, Early
    <2>2. \A b \in Actors \ {a} : act'[b] = act[b]
      BY <1>2, <1>5 DEF Settle, ActTyped
    <2>. QED BY <2>1, <2>2
  <1>6. ASSUME Deliver(a) PROVE Goal
    <2>1. CASE Goto(a, "delivered")
      <3>1. act'[a].pc = "delivered" /\ act'[a].op = act[a].op /\ act[a].pc \notin Early
        BY <1>2, <1>6, <2>1 DEF Goto, Deliver, ActTyped, Requests, Early
      <3>. QED BY <1>2, <2>1, <3>1, OneMoves
    <2>. QED BY <1>3, <1>6, <2>1 DEF Deliver
  <1>7. Goal
    BY <1>3, <1>4, <1>5, <1>6 DEF MarkDelivered, Fail
  <1>. QED BY <1>1, <1>7

\* What a step on the rows does to a row of an operation.
LEMMA SettleMoves ==
  ASSUME Typed, NEW a \in Actors, Settle(a)
  PROVE  /\ act[a].op \in Ops
         /\ \A p \in Ops \ {act[a].op} : op'[p] = op[p]
         /\ op'[act[a].op].mr = op[act[a].op].mr
         /\ \/ /\ act[a].out = Rejected /\ op'[act[a].op].status = "rejected"
               /\ mr' = [mr EXCEPT ![op[act[a].op].mr].active = NoOp]
            \/ /\ act[a].out \in Commits /\ op'[act[a].op].status = "applied"
               /\ op'[act[a].op].sha = act[a].out
               /\ mr' = [mr EXCEPT ![op[act[a].op].mr] =
                           [state |-> "merged", active |-> NoOp, sha |-> act[a].out]]
  <1> DEFINE o == act[a].op
  <1>1. /\ o \in Ops /\ act[a].out \in Outcomes /\ op[o] \in OpRows
        /\ op \in [Ops -> OpRows]
    BY Reads DEF Settle, Requests, Typed, DbTyped
  <1>2. CASE /\ act[a].out = Rejected
             /\ op' = [op EXCEPT ![o].status = "rejected"]
             /\ mr' = [mr EXCEPT ![op[o].mr].active = NoOp]
    <2>1. op' = [op EXCEPT ![o] = [op[o] EXCEPT !.status = "rejected"]]
      BY <1>1, <1>2
    <2>2. op'[o].status = "rejected" /\ op'[o].mr = op[o].mr
      BY <1>1, <2>1 DEF OpRows
    <2>. QED BY <1>1, <1>2, <2>2
  <1>3. CASE /\ act[a].out # Rejected
             /\ op' = [op EXCEPT ![o].status = "applied", ![o].sha = act[a].out]
             /\ mr' = [mr EXCEPT ![op[o].mr] = [state |-> "merged", active |-> NoOp,
                                                sha |-> act[a].out]]
    <2> DEFINE r == [op[o] EXCEPT !.status = "applied", !.sha = act[a].out]
    <2>1. op' = [op EXCEPT ![o] = r]
      BY <1>1, <1>3
    <2>2. r.status = "applied" /\ r.mr = op[o].mr /\ r.sha = act[a].out
      BY <1>1 DEF OpRows
    <2>3. op'[o] = r /\ \A p \in Ops \ {o} : op'[p] = op[p]
      BY <1>1, <2>1
    <2>. QED BY <1>1, <1>3, <2>2, <2>3 DEF Outcomes
  <1>. QED BY <1>2, <1>3 DEF Settle

LEMMA OtherRows ==
  ASSUME Typed, NEW a \in Actors, Deliver(a) \/ MarkDelivered(a) \/ Fail(a)
  PROVE  /\ mr' = mr
         /\ \A o \in Ops : /\ op'[o].status = op[o].status /\ op'[o].mr = op[o].mr
                           /\ op'[o].sha = op[o].sha
  <1>1. CASE MarkDelivered(a)
    <2>1. act[a].op \in Ops /\ op \in [Ops -> OpRows] /\ op[act[a].op] \in OpRows
      BY <1>1, Reads DEF MarkDelivered, Requests, Typed, DbTyped
    <2>2. op' = [op EXCEPT ![act[a].op] = [op[act[a].op] EXCEPT !.delivered = TRUE]]
      BY <1>1, <2>1 DEF MarkDelivered
    <2>3. \A o \in Ops : /\ op'[o].status = op[o].status /\ op'[o].mr = op[o].mr
                         /\ op'[o].sha = op[o].sha
      BY <2>1, <2>2 DEF OpRows
    <2>. QED BY <1>1, <2>3 DEF MarkDelivered
  <1>2. CASE Deliver(a) \/ Fail(a)
    BY <1>2 DEF Deliver, Fail, dbVars
  <1>. QED BY <1>1, <1>2

LEMMA ClaimMoves ==
  ASSUME Typed, NEW a \in Actors, NEW o \in Ops, Claim(a, o)
  PROVE  /\ act[a].mr \in MRs /\ op[o].status = "none"
         /\ op'[o].status = "pending" /\ op'[o].mr = act[a].mr
         /\ \A p \in Ops \ {o} : op'[p] = op[p]
         /\ mr[act[a].mr].active = NoOp /\ mr[act[a].mr].state = "opened"
         /\ mr'[act[a].mr].active = o /\ mr'[act[a].mr].state = "opened"
         /\ \A m \in MRs \ {act[a].mr} : mr'[m] = mr[m]
  <1>1. /\ act[a].mr \in MRs /\ op \in [Ops -> OpRows] /\ mr \in [MRs -> MRRows]
    BY Reads DEF Claim, Requests, Typed, DbTyped
  <1>2. mr' = [mr EXCEPT ![act[a].mr] = [mr[act[a].mr] EXCEPT !.active = o]]
    BY <1>1 DEF Claim
  <1>. QED BY <1>1, <1>2 DEF Claim, MRRows

LEMMA RowsFence ==
  ASSUME Typed, Fence, NEW a \in Actors,
         \/ \E o \in Ops : Claim(a, o)
         \/ Settle(a) \/ Deliver(a) \/ MarkDelivered(a) \/ Fail(a)
  PROVE  Fence'
  <1>1. \A o \in Ops : op[o].status = "rejected" => marker[o] = Rejected
    BY DEF Fence, RejectionBacked
  <1>2. \A o \in Ops : op'[o].status = "rejected" => marker[o] = Rejected
    <2>1. ASSUME NEW o \in Ops, Claim(a, o)
          PROVE  \A p \in Ops : op'[p].status = "rejected" => marker[p] = Rejected
      BY <1>1, <2>1, ClaimMoves
    <2>2. CASE Settle(a)
      <3>1. act[a].out = Rejected => marker[act[a].op] = Rejected
        BY <2>2 DEF Settle, Fence, RejectionBacked
      <3>2. /\ \A p \in Ops \ {act[a].op} : op'[p] = op[p]
            /\ op'[act[a].op].status = "rejected" => act[a].out = Rejected
        BY <2>2, SettleMoves
      <3>. QED BY <1>1, <3>1, <3>2
    <2>3. CASE Deliver(a) \/ MarkDelivered(a) \/ Fail(a)
      BY <1>1, <2>3, OtherRows
    <2>. QED BY <2>1, <2>2, <2>3
  <1>. QED BY <1>2, RowMoves, RequestFence DEF gitVars

\* The call of a job, its answer, and a caller that goes away.
LEMMA CallFence ==
  ASSUME Typed, Fence, NEW a \in Actors,
         LockToExecute(a) \/ Reply(a) \/ Vanish(a)
  PROVE  Fence'
  <1>1. UNCHANGED <<marker, op>>
    BY DEF LockToExecute, Reply, Vanish, gitVars, dbVars
  <1>2. ActTyped /\ JobTyped /\ act[a] \in Requests /\ job[a] \in Jobs
    BY Reads DEF Typed
  <1>3. \A b \in Actors \ {a} : act'[b] = act[b] /\ job'[b] = job[b]
    BY <1>2, OneMoves DEF LockToExecute, Reply, Vanish, ActTyped, JobTyped
  <1>4. NoJob.pc = "none" /\ Idle.pc = "idle"
    BY DEF NoJob, Idle
  <1>5. CASE LockToExecute(a)
    <2>1. /\ act'[a].pc = "git" /\ act'[a].op = act[a].op
          /\ job'[a].pc = "queued" /\ job'[a].op = act[a].op
      BY <1>2, <1>5 DEF LockToExecute, Goto, ActTyped, JobTyped, Requests, Jobs
    <2>2. "queued" \notin Held
      BY DEF Held
    <2>3. OneHolder' /\ HolderUndecided'
      BY <1>1, <1>3, <2>1, <2>2 DEF Fence, OneHolder, HolderUndecided
    <2>4. CallMatches' /\ RejectionBacked'
      BY <1>1, <1>3, <2>1 DEF Fence, CallMatches, RejectionBacked
    <2>. QED BY <2>3, <2>4 DEF Fence
  <1>6. CASE Reply(a)
    <2>1. job'[a] = NoJob /\ act'[a].pc # "git"
      BY <1>2, <1>6, OneMoves DEF Reply, ActTyped, JobTyped, Requests
    <2>2. act'[a].pc = "settle" /\ act'[a].out = Rejected
            => marker[act'[a].op] = Rejected
      <3>1. CASE /\ job[a].pc = "done"
                 /\ act' = [act EXCEPT ![a].pc = "settle", ![a].out = job[a].out]
        <4>1. act'[a].out = job[a].out /\ act'[a].op = act[a].op
          BY <1>2, <3>1 DEF ActTyped, Requests
        <4>. QED BY <3>1, <4>1 DEF Fence, RejectionBacked
      <3>2. CASE End(a)
        BY <1>2, <3>2, OneMoves
      <3>. QED BY <1>6, <3>1, <3>2 DEF Reply
    <2>3. OneHolder' /\ HolderUndecided'
      BY <1>1, <1>3, <1>4, <2>1 DEF Fence, OneHolder, HolderUndecided, Held
    <2>4. CallMatches' /\ RejectionBacked'
      BY <1>1, <1>3, <1>4, <2>1, <2>2 DEF Fence, CallMatches, RejectionBacked
    <2>. QED BY <2>3, <2>4 DEF Fence
  <1>7. CASE Vanish(a)
    <2>1. /\ act'[a] = Idle
          /\ job'[a] = job[a] \/ job'[a] = NoJob
          /\ job'[a].pc # "done"
      BY <1>2, <1>4, <1>7 DEF Vanish, ActTyped, JobTyped
    <2>2. OneHolder' /\ HolderUndecided'
      BY <1>1, <1>3, <1>4, <2>1 DEF Fence, OneHolder, HolderUndecided, Held
    <2>3. CallMatches' /\ RejectionBacked'
      BY <1>1, <1>3, <1>4, <2>1 DEF Fence, CallMatches, RejectionBacked
    <2>. QED BY <2>2, <2>3 DEF Fence
  <1>. QED BY <1>5, <1>6, <1>7

\* What the end of a job leaves to its caller.
LEMMA Ended ==
  ASSUME JobTyped, NEW a \in Actors, NEW pc \in {"done", "failed"}, NEW out,
         JobEnds(a, pc, out)
  PROVE  /\ \A b \in Actors \ {a} : job'[b] = job[b]
         /\ job'[a].pc \notin Running
         /\ job'[a].pc = "done" => act[a].pc = "git" /\ pc = "done" /\ job'[a].out = out
  <1>1. job'[a] = IF act[a].pc = "git" THEN [NoJob EXCEPT !.pc = pc, !.out = out]
                  ELSE NoJob
    BY DEF JobTyped, JobEnds
  <1>2. CASE act[a].pc = "git"
    <2>1. job'[a] = [NoJob EXCEPT !.pc = pc, !.out = out]
      BY <1>1, <1>2
    <2>2. job'[a].pc = pc /\ job'[a].out = out
      BY <2>1 DEF NoJob
    <2>. QED BY <1>2, <2>2 DEF JobTyped, JobEnds, Running, Held
  <1>3. CASE act[a].pc # "git"
    <2>1. job'[a].pc = "none"
      BY <1>1, <1>3 DEF NoJob
    <2>. QED BY <1>3, <2>1 DEF JobTyped, JobEnds, Running, Held
  <1>. QED BY <1>2, <1>3

LEMMA JobsFence ==
  ASSUME Typed, Fence, NEW a \in Actors,
         JobStart(a) \/ JobDecide(a) \/ JobLand(a) \/ JobFail(a)
  PROVE  Fence'
  <1>1. UNCHANGED <<act, op, marker>>
    BY DEF JobStart, JobDecide, JobLand, JobFail, gitVars, dbVars
  <1>2. JobTyped /\ job[a] \in Jobs
    BY Reads DEF Typed
  <1>3. \A out : JobEnds(a, "failed", out) => Fence'
    <2> SUFFICES ASSUME NEW out, JobEnds(a, "failed", out) PROVE Fence'
      OBVIOUS
    <2>1. /\ \A b \in Actors \ {a} : job'[b] = job[b]
          /\ job'[a].pc \notin Running /\ job'[a].pc # "done"
      BY <1>2, Ended
    <2>. QED BY <1>1, <2>1, JobFence DEF Running
  <1>4. ASSUME job[a].pc \in Held, \A b \in Actors \ {a} : job'[b] = job[b],
               job'[a].op = job[a].op, job'[a].pc \in Held
        PROVE  Fence'
    <2>1. marker[job[a].op] = Nothing
      BY <1>4 DEF Fence, HolderUndecided
    <2>2. \A b \in Actors \ {a} : job[b].pc \in Held => job[b].op # job[a].op
      BY <1>4 DEF Fence, OneHolder
    <2>3. job[a].pc \in Running /\ job'[a].pc # "done"
      BY <1>4 DEF Running, Held
    <2>. QED BY <1>1, <1>4, <2>1, <2>2, <2>3, JobFence
  <1>5. CASE JobStart(a)
    <2>1. job[a].pc = "queued" /\ job[a].pc \in Running
      BY <1>5 DEF JobStart, Running
    <2>2. CASE JobEnds(a, "done", marker[job[a].op])
      <3>1. /\ \A b \in Actors \ {a} : job'[b] = job[b]
            /\ job'[a].pc \notin Running
            /\ job'[a].pc = "done" =>
                 act[a].pc = "git" /\ job'[a].out = marker[job[a].op]
        BY <1>2, <2>2, Ended
      <3>2. act[a].pc = "git" => job[a].op = act[a].op
        BY <2>1 DEF Fence, CallMatches
      <3>. QED BY <1>1, <3>1, <3>2, JobFence DEF Running
    <2>3. CASE /\ MarkerFree(job[a].op) /\ marker[job[a].op] = Nothing
               /\ job' = [job EXCEPT ![a].pc = "marked"]
      <3>1. /\ \A b \in Actors \ {a} : job'[b] = job[b]
            /\ job'[a].op = job[a].op /\ job'[a].pc = "marked"
        BY <1>2, <2>3 DEF JobTyped, Jobs
      <3>2. \A b \in Actors \ {a} : job[b].pc \in Held => job[b].op # job[a].op
        BY <2>3 DEF MarkerFree, Held
      <3>. QED BY <1>1, <2>1, <2>3, <3>1, <3>2, JobFence
    <2>. QED BY <1>3, <1>5, <2>2, <2>3 DEF JobStart
  <1>6. CASE JobDecide(a)
    <2>1. job[a].pc \in Held
      BY <1>6 DEF JobDecide, Held
    <2>2. \A out : JobConclude(a, out) => Fence'
      <3> SUFFICES ASSUME NEW out, JobConclude(a, out) PROVE Fence'
        OBVIOUS
      <3>1. /\ \A b \in Actors \ {a} : job'[b] = job[b]
            /\ job'[a].op = job[a].op /\ job'[a].pc = "settling"
        BY <1>2 DEF JobConclude, JobTyped, Jobs
      <3>. QED BY <1>4, <2>1, <3>1 DEF Held
    <2>3. CASE job' = [job EXCEPT ![a].pc = "prepared",
                         ![a].head = Candidate(job[a].op),
                         ![a].out = Candidate(job[a].op).tip]
      <3>1. /\ \A b \in Actors \ {a} : job'[b] = job[b]
            /\ job'[a].op = job[a].op /\ job'[a].pc = "prepared"
        BY <1>2, <2>3 DEF JobTyped, Jobs
      <3>. QED BY <1>4, <2>1, <3>1 DEF Held
    <2>. QED BY <1>3, <1>6, <2>2, <2>3 DEF JobDecide
  <1>7. CASE JobLand(a)
    <2>1. /\ \A b \in Actors \ {a} : job'[b] = job[b]
          /\ job'[a].op = job[a].op /\ job'[a].pc = "landed"
      BY <1>2, <1>7 DEF JobLand, JobTyped, Jobs
    <2>. QED BY <1>4, <1>7, <2>1 DEF JobLand, Held
  <1>8. CASE JobFail(a)
    BY <1>3, <1>8 DEF JobFail
  <1>. QED BY <1>5, <1>6, <1>7, <1>8

\* The outcome reference is written.
LEMMA RecordFence ==
  ASSUME Typed, Fence, NEW a \in Actors, JobRecord(a)
  PROVE  /\ Fence' /\ UNCHANGED prepared
         /\ \A o \in Ops : marker[o] # Nothing => marker'[o] = marker[o]
  <1> DEFINE o == job[a].op
  <1>1. /\ JobTyped /\ job[a] \in Jobs /\ UNCHANGED <<act, op, prepared>>
        /\ GitTyped /\ ActTyped
        /\ job[a].pc \in Held /\ job[a].pc \in Running
    BY Reads DEF Typed, JobRecord, dbVars, Held, Running
  <1>2. o \in Ops /\ marker[o] = Nothing
    BY <1>1 DEF Jobs, Fence, HolderUndecided
  <1>3. marker'[o] = job[a].out /\ \A p \in Ops \ {o} : marker'[p] = marker[p]
    BY <1>1, <1>2 DEF JobRecord, GitTyped
  <1>4. /\ \A b \in Actors \ {a} : job'[b] = job[b]
        /\ job'[a].pc \notin Running
        /\ job'[a].pc = "done" => act[a].pc = "git" /\ job'[a].out = job[a].out
    BY <1>1, Ended DEF JobRecord
  <1>5. \A p \in Ops : marker[p] = Rejected => marker'[p] = Rejected
    BY <1>2, <1>3, OutcomesApart
  <1>6. OneHolder'
    BY <1>4 DEF Fence, OneHolder, Running
  <1>7. HolderUndecided'
    <2> SUFFICES ASSUME NEW b \in Actors, job'[b].pc \in Held
                 PROVE  marker'[job'[b].op] = Nothing
      BY DEF HolderUndecided
    <2>1. b # a /\ job'[b] = job[b]
      BY <1>4 DEF Running
    <2>2. job[b].op # o /\ marker[job[b].op] = Nothing
      BY <1>1, <2>1 DEF Fence, OneHolder, HolderUndecided
    <2>3. job[b].op \in Ops
      BY <1>1, <2>1 DEF JobTyped, Jobs, Running
    <2>. QED BY <1>3, <2>1, <2>2, <2>3
  <1>8. CallMatches'
    BY <1>1, <1>4 DEF Fence, CallMatches
  <1>9. RejectionBacked'
    <2>1. ASSUME NEW b \in Actors, job'[b].pc = "done", job'[b].out = Rejected
          PROVE  marker'[act'[b].op] = Rejected
      <3>1. CASE b = a
        BY <1>1, <1>3, <1>4, <2>1, <3>1 DEF Fence, CallMatches
      <3>2. CASE b # a
        <4>1. marker[act[b].op] = Rejected /\ act[b].pc = "git"
          BY <1>4, <2>1, <3>2 DEF Fence, RejectionBacked, CallMatches
        <4>2. act[b].op \in Ops
          BY <1>1, <4>1 DEF ActTyped, Requests
        <4>. QED BY <1>1, <1>5, <4>1, <4>2
      <3>. QED BY <3>1, <3>2
    <2>2. ASSUME NEW b \in Actors, act'[b].pc = "settle", act'[b].out = Rejected
          PROVE  marker'[act'[b].op] = Rejected
      <3>1. marker[act[b].op] = Rejected
        BY <1>1, <2>2 DEF Fence, RejectionBacked
      <3>2. act[b].op \in Ops
        BY <1>1, <2>2 DEF ActTyped, Requests
      <3>. QED BY <1>1, <1>5, <3>1, <3>2
    <2>3. \A p \in Ops : op'[p].status = "rejected" => marker'[p] = Rejected
      BY <1>1, <1>5 DEF Fence, RejectionBacked
    <2>. QED BY <2>1, <2>2, <2>3 DEF RejectionBacked
  <1>. QED BY <1>1, <1>2, <1>3, <1>6, <1>7, <1>8, <1>9 DEF Fence

LEMMA NextFence == Typed /\ Fence /\ [Next]_vars => Fence'
  <1> SUFFICES ASSUME Typed, Fence, [Next]_vars PROVE Fence'
    OBVIOUS
  <1>1. ASSUME NEW a \in Actors, Handles(a) PROVE Fence'
    BY <1>1, RequestsFence, RowsFence, CallFence DEF Handles
  <1>2. ASSUME NEW a \in Actors, Recovers(a) PROVE Fence'
    BY <1>2, RequestsFence DEF Recovers
  <1>3. ASSUME NEW a \in Actors, JobRuns(a) \/ JobFail(a) PROVE Fence'
    BY <1>3, JobsFence, RecordFence DEF JobRuns
  <1>4. ASSUME NEW a \in Actors, Fail(a) \/ Vanish(a) PROVE Fence'
    BY <1>4, RowsFence, CallFence
  <1>5. ASSUME NEW a \in Actors, NEW m \in MRs, StartMerge(a, m) \/ StartAbort(a, m)
        PROVE  Fence'
    BY <1>5, RequestsFence
  <1>6. ASSUME UNCHANGED <<marker, op, act, job>> PROVE Fence'
    BY <1>6 DEF Fence, OneHolder, HolderUndecided, CallMatches, RejectionBacked
  <1>7. ASSUME NEW m \in MRs, UpdateState(m) PROVE Fence'
    BY <1>6, <1>7 DEF UpdateState, gitVars
  <1>8. ASSUME NEW b \in Branches, Push(b) \/ Rewind(b) PROVE Fence'
    BY <1>6, <1>8 DEF Push, Rewind, SetBranch, dbVars
  <1>9. CASE UNCHANGED vars
    BY <1>6, <1>9 DEF vars, gitVars, dbVars
  <1>. QED BY <1>1, <1>2, <1>3, <1>4, <1>5, <1>7, <1>8, <1>9 DEF Next

LEMMA Fenced == Spec => [](Typed /\ Fence)
  <1>1. Init => Typed /\ Fence
    BY InitTyped, InitFence
  <1>2. Typed /\ Fence /\ [Next]_vars => (Typed /\ Fence)'
    BY NextTyped, NextFence
  <1>. QED BY <1>1, <1>2, PTL DEF Spec

\* An abort fences stale attempts: whatever callers vanished and whatever jobs
\* they left behind, no job moves the target branch for an operation that has
\* an outcome in Git or that the database calls rejected.
THEOREM Fencing == Spec => AbortFences
  <1>1. Typed /\ Fence =>
          \A a \in Actors : Lands(a) =>
            marker[job[a].op] = Nothing /\ op[job[a].op].status # "rejected"
    <2> SUFFICES ASSUME Typed, Fence, NEW a \in Actors, Lands(a)
                 PROVE  marker[job[a].op] = Nothing /\ op[job[a].op].status # "rejected"
      OBVIOUS
    <2>1. job[a].pc \in Held /\ job[a].pc \in Running
      BY DEF Lands, Held, Running
    <2>2. marker[job[a].op] = Nothing /\ job[a].op \in Ops
      BY <2>1, Reads DEF Fence, HolderUndecided, Jobs
    <2>. QED BY <2>2, OutcomesApart DEF Fence, RejectionBacked
  <1>. QED BY <1>1, Fenced, PTL DEF AbortFences

LEMMA NextKeepsReceipts ==
  Typed /\ Fence /\ [Next]_vars =>
    \A o \in Ops : /\ marker[o] # Nothing => marker'[o] = marker[o]
                   /\ prepared[o] # Nothing => prepared'[o] = prepared[o]
  <1> DEFINE Kept == \A o \in Ops : /\ marker[o] # Nothing => marker'[o] = marker[o]
                                    /\ prepared[o] # Nothing => prepared'[o] = prepared[o]
  <1> SUFFICES ASSUME Typed, Fence, [Next]_vars PROVE Kept
    OBVIOUS
  <1>1. ASSUME UNCHANGED <<marker, prepared>> PROVE Kept
    BY <1>1
  <1>2. ASSUME NEW a \in Actors, Handles(a) \/ Recovers(a) \/ Fail(a) \/ Vanish(a)
        PROVE  Kept
    BY <1>1, <1>2 DEF Handles, Recovers, Fail, Vanish, PinTarget, ReuseClaim,
       RefuseClaim, Claim, FindSettled, LockToReconcile, LockToExecute, ReadMarker,
       ReadProof, Reply, Settle, Deliver, MarkDelivered, RecoverAgain, RecoverNext,
       gitVars
  <1>3. ASSUME NEW a \in Actors, JobRuns(a) \/ JobFail(a) PROVE Kept
    <2>1. CASE JobStart(a) \/ JobLand(a) \/ JobFail(a)
      BY <1>1, <2>1 DEF JobStart, JobLand, JobFail, gitVars
    <2>2. CASE JobDecide(a)
      <3>1. UNCHANGED marker /\ prepared \in [Ops -> Commits \cup {Nothing}]
        BY <2>2 DEF JobDecide, Typed, GitTyped
      <3>2. CASE UNCHANGED prepared
        BY <1>1, <3>1, <3>2
      <3>3. CASE /\ prepared[job[a].op] \in {Nothing, Candidate(job[a].op).tip}
                 /\ prepared' = [prepared EXCEPT ![job[a].op] = Candidate(job[a].op).tip]
        BY <3>1, <3>3
      <3>. QED BY <2>2, <3>2, <3>3 DEF JobDecide, JobConclude
    <2>3. CASE JobRecord(a)
      BY <2>3, RecordFence
    <2>. QED BY <1>3, <2>1, <2>2, <2>3 DEF JobRuns
  <1>4. ASSUME NEW a \in Actors, NEW m \in MRs, StartMerge(a, m) \/ StartAbort(a, m)
        PROVE  Kept
    BY <1>1, <1>4 DEF StartMerge, StartAbort, gitVars
  <1>5. ASSUME NEW m \in MRs, UpdateState(m) PROVE Kept
    BY <1>1, <1>5 DEF UpdateState, gitVars
  <1>6. ASSUME NEW b \in Branches, Push(b) \/ Rewind(b) PROVE Kept
    BY <1>1, <1>6 DEF Push, Rewind, SetBranch
  <1>7. CASE UNCHANGED vars
    BY <1>1, <1>7 DEF vars, gitVars
  <1>. QED BY <1>2, <1>3, <1>4, <1>5, <1>6, <1>7 DEF Next

\* The receipt of an operation is written once and its candidate is never
\* replaced by another one, however often a merge or an abort is retried.
THEOREM Receipts == Spec => ReceiptsImmutable
  BY Fenced, NextKeepsReceipts, PTL DEF Spec, ReceiptsImmutable

-----------------------------------------------------------------------------
\* The two rows of a merge.  A request past its claim works on a claimed row,
\* and RowsAgree is written out for one merge request.

RowsClaimed ==
  /\ \A a \in Actors :
       act[a].pc \notin {"idle", "pin", "claim"} => op[act[a].op].status # "none"
  /\ \A o \in Ops : op[o].status # "none" => op[o].mr \in MRs

Of(m, s, o) == op[o].mr = m /\ op[o].status = s

PendingIsActive ==
  \A m \in MRs, o \in Ops : Of(m, "pending", o) <=> mr[m].active = o

MergedHasOne ==
  \A m \in MRs : mr[m].state = "merged" =>
    /\ mr[m].active = NoOp
    /\ \E o \in Ops : /\ Of(m, "applied", o) /\ op[o].sha = mr[m].sha
                      /\ \A p \in Ops : Of(m, "applied", p) => p = o

UnmergedHasNone ==
  \A m \in MRs, o \in Ops : Of(m, "applied", o) => mr[m].state = "merged"

RowsBound == RowsClaimed /\ PendingIsActive /\ MergedHasOne /\ UnmergedHasNone

LEMMA NoOpIsNone == \A o \in Ops : o # NoOp
  BY MergeAssumption DEF Ops, NoOp

LEMMA InitRows == Init => RowsBound
  BY NoOpIsNone DEF Init, RowsBound, RowsClaimed, PendingIsActive, MergedHasOne,
     UnmergedHasNone, Of, Idle, NoRow

\* The rows stay as they are, and one request moves on.
LEMMA QuietRows ==
  ASSUME RowsBound, NEW a \in Actors,
         \A o \in Ops : /\ op'[o].status = op[o].status /\ op'[o].mr = op[o].mr
                        /\ op'[o].sha = op[o].sha,
         mr' = mr,
         \A b \in Actors \ {a} : act'[b] = act[b],
         act'[a].pc \notin Early => act'[a].op \in Ops /\ op[act'[a].op].status # "none",
         Typed
  PROVE  RowsBound'
  <1>1. \A b \in Actors : act[b].pc \notin Early => act[b].op \in Ops
    BY Reads DEF Requests, Early
  <1>2. RowsClaimed'
    BY <1>1 DEF RowsBound, RowsClaimed, Early
  <1>3. PendingIsActive' /\ MergedHasOne' /\ UnmergedHasNone'
    BY DEF RowsBound, PendingIsActive, MergedHasOne, UnmergedHasNone, Of
  <1>. QED BY <1>2, <1>3 DEF RowsBound

LEMMA RequestsRows ==
  ASSUME Typed, RowsBound, NEW a \in Actors,
         \/ \E m \in MRs : StartMerge(a, m) \/ StartAbort(a, m)
         \/ PinTarget(a) \/ ReuseClaim(a) \/ RefuseClaim(a)
         \/ (\E o \in Ops : RecoverNext(a, o)) \/ RecoverAgain(a)
         \/ FindSettled(a) \/ LockToReconcile(a) \/ ReadMarker(a) \/ ReadProof(a)
  PROVE  RowsBound'
  <1>1. ActTyped' /\ op' = op /\ mr' = mr
    BY RequestTyped, RequestMoves DEF dbVars, Typed
  <1>2. act'[a].pc \notin Early => act'[a].op \in Ops
    BY <1>1 DEF ActTyped, Requests, Early
  <1>3. ASSUME act'[a].pc \notin Early PROVE op[act'[a].op].status # "none"
    <2>1. CASE act'[a].op = act[a].op /\ act[a].pc \notin Early
      BY <2>1 DEF RowsBound, RowsClaimed, Early
    <2>2. CASE \E m \in MRs : mr[m].active # NoOp /\ act'[a].op = mr[m].active
      <3>1. \E m \in MRs : Of(m, "pending", act'[a].op)
        BY <1>2, <1>3, <2>2 DEF RowsBound, PendingIsActive
      <3>. QED BY <3>1 DEF Of
    <2>3. CASE Unfinished(act'[a].op)
      BY <2>3 DEF Unfinished
    <2>. QED BY <1>3, <2>1, <2>2, <2>3, RequestMoves
  <1>. QED BY <1>1, <1>2, <1>3, RequestMoves, QuietRows

LEMMA CallRows ==
  ASSUME Typed, RowsBound, NEW a \in Actors,
         LockToExecute(a) \/ Reply(a) \/ Vanish(a)
  PROVE  RowsBound'
  <1>1. ActTyped /\ act[a] \in Requests /\ op' = op /\ mr' = mr
    BY Reads DEF Typed, LockToExecute, Reply, Vanish, dbVars
  <1>2. \A b \in Actors \ {a} : act'[b] = act[b]
    BY <1>1, OneMoves DEF LockToExecute, Reply, Vanish, ActTyped
  <1>3. act'[a].pc \notin Early => act'[a].op = act[a].op /\ act[a].pc \notin Early
    <2>1. CASE LockToExecute(a)
      BY <1>1, <2>1 DEF LockToExecute, Goto, ActTyped, Requests, Early
    <2>2. CASE Reply(a)
      <3>1. CASE act' = [act EXCEPT ![a].pc = "settle", ![a].out = job[a].out]
        BY <1>1, <2>2, <3>1 DEF Reply, ActTyped, Requests, Early
      <3>2. CASE End(a)
        BY <1>1, <3>2, OneMoves DEF Early
      <3>. QED BY <2>2, <3>1, <3>2 DEF Reply
    <2>3. CASE Vanish(a)
      BY <1>1, <2>3 DEF Vanish, ActTyped, Idle, Early
    <2>. QED BY <2>1, <2>2, <2>3
  <1>4. act[a].pc \notin Early => act[a].op \in Ops /\ op[act[a].op].status # "none"
    BY <1>1 DEF RowsBound, RowsClaimed, Requests, Early
  <1>. QED BY <1>1, <1>2, <1>3, <1>4, QuietRows

LEMMA ClaimRows ==
  ASSUME Typed, RowsBound, NEW a \in Actors, NEW o \in Ops, Claim(a, o)
  PROVE  RowsBound'
  <1> DEFINE m == act[a].mr
  <1>1. /\ m \in MRs /\ op[o].status = "none"
        /\ op'[o].status = "pending" /\ op'[o].mr = m
        /\ \A p \in Ops \ {o} : op'[p] = op[p]
        /\ mr[m].active = NoOp /\ mr[m].state = "opened"
        /\ mr'[m].active = o /\ mr'[m].state = "opened"
        /\ \A n \in MRs \ {m} : mr'[n] = mr[n]
    BY ClaimMoves
  <1>2. RowsClaimed'
    <2>1. \A b \in Actors \ {a} : act'[b] = act[b]
      BY RowMoves
    <2>2. act'[a].pc \notin Early => act'[a].op = o
      <3>1. act \in [Actors -> Requests]
        BY DEF Typed, ActTyped
      <3>. QED BY <3>1 DEF Claim, Execute, Idle
    <2>3. \A b \in Actors : act[b].pc \notin Early => act[b].op \in Ops
      BY Reads DEF Requests, Early
    <2>. QED BY <1>1, <2>1, <2>2, <2>3 DEF RowsBound, RowsClaimed, Early
  <1>3. PendingIsActive'
    BY <1>1, NoOpIsNone DEF RowsBound, PendingIsActive, Of
  <1>4. MergedHasOne' /\ UnmergedHasNone'
    BY <1>1 DEF RowsBound, MergedHasOne, UnmergedHasNone, Of
  <1>. QED BY <1>2, <1>3, <1>4 DEF RowsBound

LEMMA SettleRows ==
  ASSUME Typed, RowsBound, NEW a \in Actors, Settle(a)
  PROVE  RowsBound'
  <1> DEFINE o == act[a].op
             m == op[o].mr
  <1>1. /\ o \in Ops /\ op'[o].mr = m
        /\ \A p \in Ops \ {o} : op'[p] = op[p]
        /\ op'[o].status \in {"applied", "rejected"}
    BY SettleMoves
  <1>2. m \in MRs
    BY <1>1 DEF Settle, RowsBound, RowsClaimed
  <1>3. mr[m].active = o /\ op[o].status = "pending" /\ mr[m].state # "merged"
    <2>1. mr[m].active = o
      BY DEF Settle
    <2>2. Of(m, "pending", o)
      BY <1>1, <1>2, <2>1 DEF RowsBound, PendingIsActive
    <2>3. mr[m].state # "merged"
      BY <1>1, <1>2, <2>1, NoOpIsNone DEF RowsBound, MergedHasOne
    <2>. QED BY <2>1, <2>2, <2>3 DEF Of
  <1>4. /\ \A n \in MRs \ {m} : mr'[n] = mr[n]
        /\ mr'[m].active = NoOp
        /\ \/ op'[o].status = "rejected" /\ mr'[m].state = mr[m].state
           \/ /\ op'[o].status = "applied" /\ mr'[m].state = "merged"
              /\ op'[o].sha = mr'[m].sha
    <2>1. mr \in [MRs -> MRRows]
      BY DEF Typed, DbTyped
    <2>2. CASE /\ op'[o].status = "rejected"
               /\ mr' = [mr EXCEPT ![m].active = NoOp]
      BY <1>2, <2>1, <2>2 DEF MRRows
    <2>3. CASE /\ op'[o].status = "applied" /\ op'[o].sha = act[a].out
               /\ mr' = [mr EXCEPT ![m] = [state |-> "merged", active |-> NoOp,
                                           sha |-> act[a].out]]
      BY <1>2, <2>1, <2>3
    <2>. QED BY <2>2, <2>3, SettleMoves
  <1>5. RowsClaimed'
    <2>1. \A b \in Actors : act[b].pc \notin Early => act[b].op \in Ops
      BY Reads DEF Requests, Early
    <2>2. act'[a].pc \notin Early => act'[a].op = o
      BY RowMoves DEF Claim, Settle
    <2>. QED BY <1>1, <1>2, <2>1, <2>2, RowMoves DEF RowsBound, RowsClaimed, Early
  <1>6. PendingIsActive'
    <2> SUFFICES ASSUME NEW n \in MRs, NEW p \in Ops
                 PROVE  Of(n, "pending", p)' <=> mr'[n].active = p
      BY DEF PendingIsActive
    <2>1. Of(n, "pending", p) <=> mr[n].active = p
      BY DEF RowsBound, PendingIsActive
    <2>2. CASE n = m
      BY <1>1, <1>3, <1>4, <2>1, <2>2, NoOpIsNone DEF Of
    <2>3. CASE n # m
      BY <1>1, <1>3, <1>4, <2>1, <2>3 DEF Of
    <2>. QED BY <2>2, <2>3
  <1>7. MergedHasOne'
    <2> SUFFICES ASSUME NEW n \in MRs, mr'[n].state = "merged"
                 PROVE  /\ mr'[n].active = NoOp
                        /\ \E p \in Ops :
                             /\ Of(n, "applied", p)' /\ op'[p].sha = mr'[n].sha
                             /\ \A q \in Ops : Of(n, "applied", q)' => q = p
      BY DEF MergedHasOne
    <2>1. CASE n = m
      <3>1. \A q \in Ops : ~Of(m, "applied", q)
        BY <1>2, <1>3 DEF RowsBound, UnmergedHasNone
      <3>2. op'[o].status = "applied" /\ op'[o].sha = mr'[m].sha
        BY <1>3, <1>4, <2>1
      <3>3. op'[o].mr = n /\ op'[o].status = "applied"
        BY <1>1, <2>1, <3>2
      <3>4. \A q \in Ops : Of(n, "applied", q)' => q = o
        BY <1>1, <2>1, <3>1 DEF Of
      <3>. QED BY <1>1, <1>4, <2>1, <3>2, <3>3, <3>4 DEF Of
    <2>2. CASE n # m
      <3>1. \A q \in Ops : Of(n, "applied", q)' <=> Of(n, "applied", q)
        BY <1>1, <1>3, <2>2 DEF Of
      <3>2. mr'[n] = mr[n]
        BY <1>4, <2>2
      <3>3. PICK p \in Ops : /\ Of(n, "applied", p) /\ op[p].sha = mr[n].sha
                             /\ \A q \in Ops : Of(n, "applied", q) => q = p
        BY <3>2 DEF RowsBound, MergedHasOne
      <3>4. op'[p].sha = op[p].sha
        BY <1>1, <1>3, <3>3 DEF Of
      <3>. QED BY <3>1, <3>2, <3>3, <3>4 DEF RowsBound, MergedHasOne
    <2>. QED BY <2>1, <2>2
  <1>8. UnmergedHasNone'
    <2> SUFFICES ASSUME NEW n \in MRs, NEW p \in Ops, Of(n, "applied", p)'
                 PROVE  mr'[n].state = "merged"
      BY DEF UnmergedHasNone
    <2>1. CASE p = o
      BY <1>1, <1>4, <2>1 DEF Of
    <2>2. CASE p # o
      <3>1. Of(n, "applied", p)
        BY <1>1, <2>2 DEF Of
      <3>2. mr[n].state = "merged"
        BY <3>1 DEF RowsBound, UnmergedHasNone
      <3>. QED BY <1>3, <1>4, <3>2
    <2>. QED BY <2>1, <2>2
  <1>. QED BY <1>5, <1>6, <1>7, <1>8 DEF RowsBound

LEMMA NextRows == Typed /\ RowsBound /\ [Next]_vars => RowsBound'
  <1> SUFFICES ASSUME Typed, RowsBound, [Next]_vars PROVE RowsBound'
    OBVIOUS
  <1>1. ASSUME NEW a \in Actors, Deliver(a) \/ MarkDelivered(a) \/ Fail(a)
        PROVE  RowsBound'
    <2>1. act'[a].pc \notin Early => act'[a].op = act[a].op /\ act[a].pc \notin Early
      BY <1>1, RowMoves DEF Claim, Deliver, MarkDelivered, Fail
    <2>2. act[a].pc \notin Early => act[a].op \in Ops /\ op[act[a].op].status # "none"
      BY Reads DEF RowsBound, RowsClaimed, Requests, Early
    <2>. QED BY <1>1, <2>1, <2>2, RowMoves, OtherRows, QuietRows
  <1>2. ASSUME NEW a \in Actors, Handles(a) PROVE RowsBound'
    BY <1>1, <1>2, RequestsRows, ClaimRows, SettleRows, CallRows DEF Handles
  <1>3. ASSUME NEW a \in Actors, Recovers(a) PROVE RowsBound'
    BY <1>3, RequestsRows DEF Recovers
  <1>4. ASSUME NEW a \in Actors, Fail(a) \/ Vanish(a) PROVE RowsBound'
    BY <1>1, <1>4, CallRows
  <1>5. ASSUME NEW a \in Actors, NEW m \in MRs, StartMerge(a, m) \/ StartAbort(a, m)
        PROVE  RowsBound'
    BY <1>5, RequestsRows
  <1>6. ASSUME UNCHANGED <<mr, op, act>> PROVE RowsBound'
    BY <1>6 DEF RowsBound, RowsClaimed, PendingIsActive, MergedHasOne, UnmergedHasNone, Of
  <1>7. ASSUME NEW a \in Actors, JobRuns(a) \/ JobFail(a) PROVE RowsBound'
    BY <1>6, <1>7 DEF JobRuns, JobStart, JobDecide, JobLand, JobRecord, JobFail, dbVars
  <1>8. ASSUME NEW m \in MRs, UpdateState(m) PROVE RowsBound'
    <2>1. mr \in [MRs -> MRRows] /\ op' = op /\ act' = act
      BY <1>8 DEF UpdateState, Typed, DbTyped
    <2>2. /\ \A n \in MRs \ {m} : mr'[n] = mr[n]
          /\ mr[m].active = NoOp /\ mr'[m].active = NoOp
          /\ mr[m].state # "merged" /\ mr'[m].state # "merged"
      BY <1>8, <2>1 DEF UpdateState, MRRows
    <2>3. RowsClaimed'
      BY <2>1 DEF RowsBound, RowsClaimed
    <2>4. PendingIsActive' /\ MergedHasOne' /\ UnmergedHasNone'
      BY <2>1, <2>2 DEF RowsBound, PendingIsActive, MergedHasOne, UnmergedHasNone, Of
    <2>. QED BY <2>3, <2>4 DEF RowsBound
  <1>9. ASSUME NEW b \in Branches, Push(b) \/ Rewind(b) PROVE RowsBound'
    BY <1>6, <1>9 DEF Push, Rewind, SetBranch, dbVars
  <1>10. CASE UNCHANGED vars
    BY <1>6, <1>10 DEF vars, dbVars
  <1>. QED BY <1>2, <1>3, <1>4, <1>5, <1>7, <1>8, <1>9, <1>10 DEF Next

LEMMA BoundRowsAgree == Typed /\ RowsBound => RowsAgree
  <1> SUFFICES ASSUME Typed, RowsBound, NEW m \in MRs
               PROVE  LET mine(s) == {o \in Ops : op[o].mr = m /\ op[o].status = s} IN
                      /\ mine("pending") = IF mr[m].active = NoOp THEN {}
                                           ELSE {mr[m].active}
                      /\ \/ mr[m].state # "merged" /\ mine("applied") = {}
                         \/ /\ mr[m].state = "merged" /\ mr[m].active = NoOp
                            /\ \E o \in Ops :
                                 mine("applied") = {o} /\ op[o].sha = mr[m].sha
    BY DEF RowsAgree
  <1> DEFINE mine(s) == {o \in Ops : op[o].mr = m /\ op[o].status = s}
  <1>1. mine("pending") = IF mr[m].active = NoOp THEN {} ELSE {mr[m].active}
    <2>1. mr[m].active \in Ops \cup {NoOp}
      BY Reads DEF Typed, DbTyped, MRRows
    <2>. QED BY <2>1, NoOpIsNone DEF RowsBound, PendingIsActive, Of
  <1>2. CASE mr[m].state # "merged"
    <2>1. mine("applied") = {}
      BY <1>2 DEF RowsBound, UnmergedHasNone, Of
    <2>. QED BY <1>1, <1>2, <2>1
  <1>3. CASE mr[m].state = "merged"
    <2>1. PICK o \in Ops : /\ Of(m, "applied", o) /\ op[o].sha = mr[m].sha
                           /\ \A p \in Ops : Of(m, "applied", p) => p = o
      BY <1>3 DEF RowsBound, MergedHasOne
    <2>2. mine("applied") = {o} /\ mr[m].active = NoOp
      BY <1>3, <2>1 DEF Of, RowsBound, MergedHasOne
    <2>. QED BY <1>1, <1>3, <2>1, <2>2
  <1>. QED BY <1>2, <1>3

\* Of all the transactions on the two rows of a merge, interleaved in any way
\* and rolled back at any failure, a merge request is bound to an operation
\* exactly as long as that one is pending, and merged exactly when one of its
\* operations was applied, with the commit of that operation.
THEOREM RowsInStep == Spec => []RowsAgree
  <1>1. Init => Typed /\ RowsBound
    BY InitTyped, InitRows
  <1>2. Typed /\ RowsBound /\ [Next]_vars => (Typed /\ RowsBound)'
    BY NextTyped, NextRows
  <1>. QED BY <1>1, <1>2, BoundRowsAgree, PTL DEF Spec

-----------------------------------------------------------------------------
\* Where the commits come from that the database records.

Reached(c) == \E h \in past.target : c \in h.all
Evidence(o, c) == c = prepared[o] /\ Reached(c)

\* A branch head reaches its own tip, and past heads are remembered.
HeadsSound ==
  /\ \A b \in Branches : head[b] \in past[b] /\ \A h \in past[b] : h.tip \in h.all
  /\ \A a \in Actors : job[a].pc = "prepared" =>
       /\ job[a].out = prepared[job[a].op]
       /\ job[a].out \in job[a].head.all /\ job[a].head.tip \in job[a].head.all

\* Whoever carries a commit as the outcome of an operation has evidence for it.
EvidenceKept ==
  /\ \A a \in Actors :
       /\ job[a].pc \in {"settling", "landed"} /\ job[a].out # Rejected
            => Evidence(job[a].op, job[a].out)
       /\ job[a].pc = "done" /\ job[a].out # Rejected
            => Evidence(act[a].op, job[a].out)
       /\ act[a].pc = "settle" /\ act[a].out # Rejected
            => Evidence(act[a].op, act[a].out)
  /\ \A o \in Ops :
       /\ marker[o] \notin {Nothing, Rejected} => Evidence(o, marker[o])
       /\ op[o].status = "applied" => Evidence(o, op[o].sha)

Evident == HeadsSound /\ EvidenceKept

LEMMA PastGrows ==
  [Next]_vars /\ Typed => past.target \subseteq past'.target
  <1> SUFFICES ASSUME [Next]_vars, Typed PROVE past.target \subseteq past'.target
    OBVIOUS
  <1>1. past \in [Branches -> SUBSET Heads] /\ "target" \in Branches
    BY DEF Typed, GitTyped, Branches
  <1>2. ASSUME NEW a \in Actors,
               Handles(a) \/ Recovers(a) \/ Fail(a) \/ Vanish(a) \/ JobFail(a)
        PROVE  past' = past
    BY <1>2 DEF Handles, Recovers, Fail, Vanish, PinTarget, ReuseClaim, JobFail,
       RefuseClaim, Claim, FindSettled, LockToReconcile, LockToExecute, ReadMarker,
       ReadProof, Reply, Settle, Deliver, MarkDelivered, RecoverAgain, RecoverNext,
       gitVars
  <1>3. ASSUME NEW a \in Actors, JobRuns(a) PROVE past.target \subseteq past'.target
    <2>1. CASE JobLand(a)
      BY <1>1, <2>1 DEF JobLand
    <2>2. CASE JobStart(a) \/ JobDecide(a) \/ JobRecord(a)
      BY <2>2 DEF JobStart, JobDecide, JobRecord, gitVars
    <2>. QED BY <1>3, <2>1, <2>2 DEF JobRuns
  <1>4. ASSUME NEW a \in Actors, NEW m \in MRs, StartMerge(a, m) \/ StartAbort(a, m)
        PROVE  past' = past
    BY <1>4 DEF StartMerge, StartAbort, gitVars
  <1>5. ASSUME NEW m \in MRs, UpdateState(m) PROVE past' = past
    BY <1>5 DEF UpdateState, gitVars
  <1>6. ASSUME NEW b \in Branches, Push(b) \/ Rewind(b)
        PROVE  past.target \subseteq past'.target
    BY <1>1, <1>6 DEF Push, Rewind, SetBranch
  <1>7. CASE UNCHANGED vars
    BY <1>7 DEF vars, gitVars
  <1>. QED BY <1>2, <1>3, <1>4, <1>5, <1>6, <1>7 DEF Next

\* Evidence for a commit lasts: the candidate is not replaced, and a past head
\* stays a past head, also when the branch is forced back.
Later(o, c) == c = prepared'[o] /\ \E h \in past'.target : c \in h.all

LEMMA EvidenceLasts ==
  Typed /\ Fence /\ [Next]_vars =>
    \A o \in Ops, c \in Commits : Evidence(o, c) => Later(o, c)
  <1> SUFFICES ASSUME Typed, Fence, [Next]_vars,
                      NEW o \in Ops, NEW c \in Commits, Evidence(o, c)
               PROVE  Later(o, c)
    OBVIOUS
  <1>1. prepared'[o] = prepared[o]
    BY NextKeepsReceipts, OutcomesApart DEF Evidence, Outcomes
  <1>. QED BY <1>1, PastGrows DEF Evidence, Reached, Later

\* Everything that carries a commit carried it before, or there is evidence.
LEMMA EvidenceStep ==
  ASSUME Typed, Typed', Fence, EvidenceKept, [Next]_vars,
         \A a \in Actors :
           job'[a].pc \in {"settling", "landed"} /\ job'[a].out # Rejected =>
             \/ Later(job'[a].op, job'[a].out)
             \/ /\ job[a].pc \in {"settling", "landed"} /\ job'[a].op = job[a].op
                /\ job'[a].out = job[a].out,
         \A a \in Actors :
           job'[a].pc = "done" /\ job'[a].out # Rejected =>
             \/ Later(act'[a].op, job'[a].out)
             \/ /\ job[a].pc = "done" /\ act'[a].op = act[a].op
                /\ job'[a].out = job[a].out,
         \A a \in Actors :
           act'[a].pc = "settle" /\ act'[a].out # Rejected =>
             \/ Later(act'[a].op, act'[a].out)
             \/ /\ act[a].pc = "settle" /\ act'[a].op = act[a].op
                /\ act'[a].out = act[a].out,
         \A o \in Ops :
           marker'[o] \notin {Nothing, Rejected} =>
             Later(o, marker'[o]) \/ marker'[o] = marker[o],
         \A o \in Ops :
           op'[o].status = "applied" =>
             \/ Later(o, op'[o].sha)
             \/ op[o].status = "applied" /\ op'[o].sha = op[o].sha
  PROVE  EvidenceKept'
  <1>1. ASSUME NEW a \in Actors,
               job'[a].pc \in {"settling", "landed"}, job'[a].out # Rejected
        PROVE  Later(job'[a].op, job'[a].out)
    <2>1. job'[a].op \in Ops /\ job'[a].out \in Commits
      BY <1>1 DEF Typed, JobTyped, Jobs, Running, Held, Outcomes
    <2>. QED BY <1>1, <2>1, EvidenceLasts DEF EvidenceKept
  <1>2. ASSUME NEW a \in Actors, job'[a].pc = "done", job'[a].out # Rejected
        PROVE  Later(act'[a].op, job'[a].out)
    <2>1. job'[a].out \in Commits
      BY <1>2 DEF Typed, JobTyped, Jobs, Outcomes
    <2>2. CASE /\ job[a].pc = "done" /\ act'[a].op = act[a].op
               /\ job'[a].out = job[a].out
      <3>1. act[a].pc = "git" /\ act[a].op \in Ops
        BY <2>2, Reads DEF Fence, CallMatches, Requests
      <3>. QED BY <1>2, <2>1, <2>2, <3>1, EvidenceLasts DEF EvidenceKept
    <2>. QED BY <1>2, <2>2
  <1>3. ASSUME NEW a \in Actors, act'[a].pc = "settle", act'[a].out # Rejected
        PROVE  Later(act'[a].op, act'[a].out)
    <2>1. act'[a].op \in Ops /\ act'[a].out \in Commits
      BY <1>3 DEF Typed, ActTyped, Requests, Outcomes
    <2>. QED BY <1>3, <2>1, EvidenceLasts DEF EvidenceKept
  <1>4. ASSUME NEW o \in Ops, marker'[o] \notin {Nothing, Rejected}
        PROVE  Later(o, marker'[o])
    <2>1. marker'[o] \in Commits
      BY <1>4 DEF Typed, GitTyped, Outcomes
    <2>. QED BY <1>4, <2>1, EvidenceLasts DEF EvidenceKept
  <1>5. ASSUME NEW o \in Ops, op'[o].status = "applied"
        PROVE  Later(o, op'[o].sha)
    <2>1. op'[o].sha \in Commits
      BY <1>5 DEF Typed, DbTyped, OpRows
    <2>. QED BY <1>5, <2>1, EvidenceLasts DEF EvidenceKept
  <1>. QED BY <1>1, <1>2, <1>3, <1>4, <1>5
       DEF EvidenceKept, Evidence, Reached, Later

\* The same when one actor moves.
LEMMA EvidenceMove ==
  ASSUME Typed, Typed', Fence, EvidenceKept, [Next]_vars, NEW a \in Actors,
         \A b \in Actors \ {a} : act'[b] = act[b] /\ job'[b] = job[b],
         job'[a].pc \in {"settling", "landed"} /\ job'[a].out # Rejected =>
           Later(job'[a].op, job'[a].out) \/ job'[a] = job[a],
         job'[a].pc = "done" /\ job'[a].out # Rejected =>
           \/ Later(act'[a].op, job'[a].out)
           \/ job'[a] = job[a] /\ act'[a] = act[a],
         act'[a].pc = "settle" /\ act'[a].out # Rejected =>
           Later(act'[a].op, act'[a].out) \/ act'[a] = act[a],
         \A o \in Ops :
           marker'[o] \notin {Nothing, Rejected} =>
             Later(o, marker'[o]) \/ marker'[o] = marker[o],
         \A o \in Ops :
           op'[o].status = "applied" =>
             \/ Later(o, op'[o].sha)
             \/ op[o].status = "applied" /\ op'[o].sha = op[o].sha
  PROVE  EvidenceKept'
  <1>1. \A b \in Actors :
          job'[b].pc \in {"settling", "landed"} /\ job'[b].out # Rejected =>
            \/ Later(job'[b].op, job'[b].out)
            \/ /\ job[b].pc \in {"settling", "landed"} /\ job'[b].op = job[b].op
               /\ job'[b].out = job[b].out
    OBVIOUS
  <1>2. \A b \in Actors :
          job'[b].pc = "done" /\ job'[b].out # Rejected =>
            \/ Later(act'[b].op, job'[b].out)
            \/ /\ job[b].pc = "done" /\ act'[b].op = act[b].op
               /\ job'[b].out = job[b].out
    OBVIOUS
  <1>3. \A b \in Actors :
          act'[b].pc = "settle" /\ act'[b].out # Rejected =>
            \/ Later(act'[b].op, act'[b].out)
            \/ /\ act[b].pc = "settle" /\ act'[b].op = act[b].op
               /\ act'[b].out = act[b].out
    OBVIOUS
  <1>. QED BY <1>1, <1>2, <1>3, EvidenceStep

LEMMA RequestsEvidence ==
  ASSUME Typed, Typed', Fence, Evident, [Next]_vars, NEW a \in Actors,
         \/ \E m \in MRs : StartMerge(a, m) \/ StartAbort(a, m)
         \/ PinTarget(a) \/ ReuseClaim(a) \/ RefuseClaim(a)
         \/ (\E o \in Ops : RecoverNext(a, o)) \/ RecoverAgain(a)
         \/ FindSettled(a) \/ LockToReconcile(a) \/ ReadMarker(a) \/ ReadProof(a)
  PROVE  EvidenceKept'
  <1>1. /\ UNCHANGED <<head, past, prepared, marker, op, job>>
        /\ act[a].pc # "git"
        /\ \A b \in Actors \ {a} : act'[b] = act[b]
    BY RequestMoves DEF gitVars, dbVars
  <1>2. act'[a].pc = "settle" /\ act'[a].out # Rejected => Later(act'[a].op, act'[a].out)
    <2> SUFFICES ASSUME act'[a].pc = "settle", act'[a].out # Rejected
                 PROVE  Later(act'[a].op, act'[a].out)
      OBVIOUS
    <2>1. /\ act[a].op \in Ops /\ act'[a].op = act[a].op
          /\ \/ act'[a].out = marker[act[a].op] /\ act'[a].out # Nothing
             \/ act'[a].out = prepared[act[a].op] /\ Landed(act[a].op)
      BY RequestMoves
    <2>2. CASE act'[a].out = marker[act[a].op] /\ act'[a].out # Nothing
      BY <1>1, <2>1, <2>2 DEF Evident, EvidenceKept, Evidence, Reached, Later
    <2>3. CASE act'[a].out = prepared[act[a].op] /\ Landed(act[a].op)
      BY <1>1, <2>1, <2>3 DEF Evident, HeadsSound, Branches, Landed, Later
    <2>. QED BY <2>1, <2>2, <2>3
  <1>3. job[a].pc # "done"
    BY <1>1 DEF Fence, CallMatches
  <1>. QED BY <1>1, <1>2, <1>3, EvidenceMove DEF Evident

LEMMA RowsEvidence ==
  ASSUME Typed, Typed', Fence, Evident, [Next]_vars, NEW a \in Actors,
         \/ \E o \in Ops : Claim(a, o)
         \/ Settle(a) \/ Deliver(a) \/ MarkDelivered(a) \/ Fail(a)
  PROVE  EvidenceKept'
  <1>1. /\ UNCHANGED <<head, past, prepared, marker, job>>
        /\ act[a].pc # "git" /\ act'[a].pc # "settle"
        /\ \A b \in Actors \ {a} : act'[b] = act[b]
    BY RowMoves DEF gitVars
  <1>2. job[a].pc # "done"
    BY <1>1 DEF Fence, CallMatches
  <1>3. \A o \in Ops :
          op'[o].status = "applied" =>
            \/ Later(o, op'[o].sha)
            \/ op[o].status = "applied" /\ op'[o].sha = op[o].sha
    <2>1. ASSUME NEW o \in Ops, Claim(a, o)
          PROVE  \A p \in Ops : op'[p].status = "applied" =>
                   op[p].status = "applied" /\ op'[p].sha = op[p].sha
      BY <2>1, ClaimMoves
    <2>2. CASE Settle(a)
      <3>1. act[a].out \in Commits =>
              act[a].out # Rejected /\ Later(act[a].op, act[a].out)
        BY <1>1, <2>2, OutcomesApart
           DEF Settle, Evident, EvidenceKept, Evidence, Reached, Later
      <3>. QED BY <2>2, <3>1, SettleMoves
    <2>3. CASE Deliver(a) \/ MarkDelivered(a) \/ Fail(a)
      BY <2>3, OtherRows
    <2>. QED BY <2>1, <2>2, <2>3
  <1>. QED BY <1>1, <1>2, <1>3, EvidenceMove DEF Evident

LEMMA CallEvidence ==
  ASSUME Typed, Typed', Fence, Evident, [Next]_vars, NEW a \in Actors,
         LockToExecute(a) \/ Reply(a) \/ Vanish(a)
  PROVE  EvidenceKept'
  <1>1. /\ UNCHANGED <<head, past, prepared, marker, op>>
        /\ ActTyped /\ JobTyped /\ act[a] \in Requests /\ job[a] \in Jobs
    BY Reads DEF Typed, LockToExecute, Reply, Vanish, gitVars, dbVars
  <1>2. \A b \in Actors \ {a} : act'[b] = act[b] /\ job'[b] = job[b]
    BY <1>1, OneMoves DEF LockToExecute, Reply, Vanish, ActTyped, JobTyped
  <1>3. NoJob.pc = "none" /\ Idle.pc = "idle"
    BY DEF NoJob, Idle
  <1>4. CASE LockToExecute(a)
    <2>1. act'[a].pc = "git" /\ job'[a].pc = "queued"
      BY <1>1, <1>4 DEF LockToExecute, Goto, ActTyped, JobTyped, Requests, Jobs
    <2>. QED BY <1>1, <1>2, <2>1, EvidenceMove DEF Evident
  <1>5. CASE Reply(a)
    <2>1. job'[a].pc = "none"
      BY <1>1, <1>3, <1>5 DEF Reply, JobTyped
    <2>2. act'[a].pc = "settle" /\ act'[a].out # Rejected
            => Later(act'[a].op, act'[a].out)
      <3>1. CASE /\ job[a].pc = "done"
                 /\ act' = [act EXCEPT ![a].pc = "settle", ![a].out = job[a].out]
        <4>1. act'[a].out = job[a].out /\ act'[a].op = act[a].op
          BY <1>1, <3>1 DEF ActTyped, Requests
        <4>. QED BY <1>1, <3>1, <4>1 DEF Evident, EvidenceKept, Evidence, Reached, Later
      <3>2. CASE End(a)
        BY <1>1, <3>2, OneMoves
      <3>. QED BY <1>5, <3>1, <3>2 DEF Reply
    <2>. QED BY <1>1, <1>2, <2>1, <2>2, EvidenceMove DEF Evident
  <1>6. CASE Vanish(a)
    <2>1. /\ act'[a].pc = "idle" /\ job'[a].pc # "done"
          /\ job'[a] = job[a] \/ job'[a].pc = "none"
      BY <1>1, <1>3, <1>6 DEF Vanish, ActTyped, JobTyped
    <2>. QED BY <1>1, <1>2, <2>1, EvidenceMove DEF Evident
  <1>. QED BY <1>4, <1>5, <1>6

LEMMA JobsEvidence ==
  ASSUME Typed, Typed', Fence, Evident, [Next]_vars, NEW a \in Actors,
         JobStart(a) \/ JobDecide(a) \/ JobLand(a) \/ JobRecord(a) \/ JobFail(a)
  PROVE  EvidenceKept'
  <1>1. /\ UNCHANGED <<act, op>> /\ JobTyped /\ job[a] \in Jobs
    BY Reads DEF Typed, JobStart, JobDecide, JobLand, JobRecord, JobFail, dbVars
  <1>2. CASE JobStart(a)
    <2>1. UNCHANGED <<head, past, prepared, marker>> /\ job[a].pc \in Running
          /\ job[a].op \in Ops
      BY <1>1, <1>2 DEF JobStart, gitVars, Running, Jobs
    <2>2. CASE JobEnds(a, "failed", Nothing)
      BY <1>1, <2>1, <2>2, Ended, EvidenceMove DEF Evident, Running, Held
    <2>3. CASE marker[job[a].op] # Nothing /\ JobEnds(a, "done", marker[job[a].op])
      <3>1. /\ \A b \in Actors \ {a} : job'[b] = job[b]
            /\ job'[a].pc \notin Running
            /\ job'[a].pc = "done" =>
                 act[a].pc = "git" /\ job'[a].out = marker[job[a].op]
        BY <1>1, <2>3, Ended
      <3>2. act[a].pc = "git" => job[a].op = act[a].op
        BY <2>1 DEF Fence, CallMatches
      <3>3. job'[a].pc = "done" /\ job'[a].out # Rejected =>
              Later(act[a].op, job'[a].out)
        BY <2>1, <2>3, <3>1, <3>2 DEF Evident, EvidenceKept, Evidence, Reached, Later
      <3>. QED BY <1>1, <2>1, <3>1, <3>3, EvidenceMove DEF Evident, Running, Held
    <2>4. CASE job' = [job EXCEPT ![a].pc = "marked"]
      <3>1. /\ \A b \in Actors \ {a} : job'[b] = job[b]
            /\ job'[a].pc = "marked"
        BY <1>1, <2>4 DEF JobTyped, Jobs
      <3>. QED BY <1>1, <2>1, <3>1, EvidenceMove DEF Evident
    <2>. QED BY <1>2, <2>2, <2>3, <2>4 DEF JobStart
  <1>3. CASE JobDecide(a)
    <2>1. UNCHANGED <<head, past, marker>> /\ job[a].op \in Ops
      BY <1>1, <1>3 DEF JobDecide, Jobs, Running, Held
    <2>2. CASE JobEnds(a, "failed", Nothing)
      BY <1>1, <2>1, <2>2, Ended, EvidenceMove DEF Evident, Running, Held
    <2>3. ASSUME NEW out, JobConclude(a, out),
                 out = Rejected \/ (out = prepared[job[a].op] /\ Landed(job[a].op))
          PROVE  EvidenceKept'
      <3>1. /\ \A b \in Actors \ {a} : job'[b] = job[b]
            /\ job'[a].pc = "settling" /\ job'[a].op = job[a].op /\ job'[a].out = out
            /\ UNCHANGED prepared
        BY <1>1, <2>3 DEF JobConclude, JobTyped, Jobs
      <3>2. job'[a].out # Rejected => Later(job'[a].op, job'[a].out)
        BY <2>1, <2>3, <3>1 DEF Evident, HeadsSound, Branches, Landed, Later
      <3>. QED BY <1>1, <2>1, <3>1, <3>2, EvidenceMove DEF Evident
    <2>4. CASE job' = [job EXCEPT ![a].pc = "prepared",
                         ![a].head = Candidate(job[a].op),
                         ![a].out = Candidate(job[a].op).tip]
      <3>1. /\ \A b \in Actors \ {a} : job'[b] = job[b]
            /\ job'[a].pc = "prepared"
        BY <1>1, <2>4 DEF JobTyped, Jobs
      <3>. QED BY <1>1, <2>1, <3>1, EvidenceMove DEF Evident
    <2>. QED BY <1>3, <2>2, <2>3, <2>4 DEF JobDecide
  <1>4. CASE JobLand(a)
    <2>1. UNCHANGED <<prepared, marker>> /\ job[a].op \in Ops
      BY <1>1, <1>4 DEF JobLand, Jobs, Running, Held
    <2>2. /\ \A b \in Actors \ {a} : job'[b] = job[b]
          /\ job'[a].pc = "landed" /\ job'[a].op = job[a].op
          /\ job'[a].out = job[a].out
      BY <1>1, <1>4 DEF JobLand, JobTyped, Jobs
    <2>3. job[a].head \in past'.target
      BY <1>4 DEF JobLand, Typed, GitTyped, Branches
    <2>4. Later(job'[a].op, job'[a].out)
      BY <1>4, <2>1, <2>2, <2>3 DEF JobLand, Evident, HeadsSound, Later
    <2>. QED BY <1>1, <2>1, <2>2, <2>4, EvidenceMove DEF Evident
  <1>5. CASE JobRecord(a)
    <2>1. /\ UNCHANGED <<past, prepared>> /\ job[a].op \in Ops
          /\ job[a].pc \in Running
      BY <1>1, <1>5 DEF JobRecord, Jobs, Running, Held
    <2>2. job[a].out # Rejected => Later(job[a].op, job[a].out)
      BY <1>5, <2>1 DEF JobRecord, Evident, EvidenceKept, Evidence, Reached, Later
    <2>3. /\ \A b \in Actors \ {a} : job'[b] = job[b]
          /\ job'[a].pc \notin Running
          /\ job'[a].pc = "done" => act[a].pc = "git" /\ job'[a].out = job[a].out
      BY <1>1, <1>5, Ended DEF JobRecord
    <2>4. act[a].pc = "git" => job[a].op = act[a].op
      BY <2>1 DEF Fence, CallMatches
    <2>5. /\ marker'[job[a].op] = job[a].out
          /\ \A o \in Ops \ {job[a].op} : marker'[o] = marker[o]
      BY <1>5, <2>1 DEF JobRecord, Typed, GitTyped
    <2>6. \A o \in Ops : marker'[o] \notin {Nothing, Rejected} =>
            Later(o, marker'[o]) \/ marker'[o] = marker[o]
      BY <2>2, <2>5
    <2>. QED BY <1>1, <2>2, <2>3, <2>4, <2>6, EvidenceMove DEF Evident, Running, Held
  <1>6. CASE JobFail(a)
    BY <1>1, <1>6, Ended, EvidenceMove DEF JobFail, gitVars, Evident, Running, Held
  <1>. QED BY <1>2, <1>3, <1>4, <1>5, <1>6

\* The branches and the prepared candidates stay as they are.
LEMMA HeadsStay ==
  ASSUME Typed, Fence, [Next]_vars, HeadsSound, head' = head, past' = past,
         \A a \in Actors : job'[a].pc = "prepared" => job'[a] = job[a]
  PROVE  HeadsSound'
  <1>1. ASSUME NEW a \in Actors, job'[a].pc = "prepared"
        PROVE  /\ job'[a].out = prepared'[job'[a].op]
               /\ job'[a].out \in job'[a].head.all
               /\ job'[a].head.tip \in job'[a].head.all
    <2>1. job'[a] = job[a] /\ job[a].op \in Ops /\ job[a].out \in Outcomes
      BY <1>1, Reads DEF Jobs, Running, Held
    <2>2. prepared[job[a].op] # Nothing
      BY <1>1, <2>1, OutcomesApart DEF HeadsSound
    <2>. QED BY <1>1, <2>1, <2>2, NextKeepsReceipts DEF HeadsSound
  <1>. QED BY <1>1 DEF HeadsSound

\* A branch gets a new head.
LEMMA HeadsMove ==
  ASSUME Typed, Fence, [Next]_vars, HeadsSound, NEW b \in Branches, NEW h,
         h.tip \in h.all,
         head' = [head EXCEPT ![b] = h],
         past' = [past EXCEPT ![b] = past[b] \cup {h}],
         \A a \in Actors : job'[a].pc = "prepared" => job'[a] = job[a]
  PROVE  HeadsSound'
  <1>1. ASSUME NEW a \in Actors, job'[a].pc = "prepared"
        PROVE  /\ job'[a].out = prepared'[job'[a].op]
               /\ job'[a].out \in job'[a].head.all
               /\ job'[a].head.tip \in job'[a].head.all
    <2>1. job'[a] = job[a] /\ job[a].op \in Ops /\ job[a].out \in Outcomes
      BY <1>1, Reads DEF Jobs, Running, Held
    <2>2. prepared[job[a].op] # Nothing
      BY <1>1, <2>1, OutcomesApart DEF HeadsSound
    <2>. QED BY <1>1, <2>1, <2>2, NextKeepsReceipts DEF HeadsSound
  <1>2. /\ head \in [Branches -> Heads] /\ past \in [Branches -> SUBSET Heads]
    BY DEF Typed, GitTyped
  <1>3. \A c \in Branches : head'[c] \in past'[c] /\ \A g \in past'[c] : g.tip \in g.all
    BY <1>2 DEF HeadsSound
  <1>. QED BY <1>1, <1>3 DEF HeadsSound

LEMMA JobsHeads ==
  ASSUME Typed, Fence, Evident, [Next]_vars, NEW a \in Actors,
         JobStart(a) \/ JobDecide(a) \/ JobLand(a) \/ JobRecord(a) \/ JobFail(a)
  PROVE  HeadsSound'
  <1>1. JobTyped /\ job[a] \in Jobs
    BY Reads DEF Typed
  <1>2. ASSUME head' = head, past' = past, job'[a].pc # "prepared",
               \A b \in Actors \ {a} : job'[b] = job[b]
        PROVE  HeadsSound'
    BY <1>2, HeadsStay DEF Evident
  <1>3. ASSUME head' = head, past' = past, NEW pc \in {"done", "failed"}, NEW out,
               JobEnds(a, pc, out)
        PROVE  HeadsSound'
    BY <1>1, <1>2, <1>3, Ended DEF Running, Held
  <1>4. CASE JobStart(a)
    <2>1. head' = head /\ past' = past
      BY <1>4 DEF JobStart, gitVars
    <2>2. CASE job' = [job EXCEPT ![a].pc = "marked"]
      <3>1. job'[a].pc = "marked" /\ \A b \in Actors \ {a} : job'[b] = job[b]
        BY <1>1, <2>2 DEF JobTyped, Jobs
      <3>. QED BY <1>2, <2>1, <3>1
    <2>. QED BY <1>3, <1>4, <2>1, <2>2 DEF JobStart
  <1>5. CASE JobDecide(a)
    <2> DEFINE o == job[a].op
    <2>1. head' = head /\ past' = past /\ o \in Ops
      BY <1>1, <1>5 DEF JobDecide, Jobs, Running, Held
    <2>2. ASSUME NEW out, JobConclude(a, out) PROVE HeadsSound'
      <3>1. job'[a].pc = "settling" /\ \A b \in Actors \ {a} : job'[b] = job[b]
        BY <1>1, <2>2 DEF JobConclude, JobTyped, Jobs
      <3>. QED BY <1>2, <2>1, <3>1
    <2>3. CASE /\ prepared' = [prepared EXCEPT ![o] = Candidate(o).tip]
               /\ job' = [job EXCEPT ![a].pc = "prepared", ![a].head = Candidate(o),
                                     ![a].out = Candidate(o).tip]
      <3>1. Candidate(o).tip \in Candidate(o).all
        BY DEF Candidate, Evident, HeadsSound, Branches
      <3>2. /\ \A b \in Actors \ {a} : job'[b] = job[b]
            /\ job'[a].op = o /\ job'[a].head = Candidate(o)
            /\ job'[a].out = Candidate(o).tip
        BY <1>1, <2>3 DEF JobTyped, Jobs
      <3>3. prepared'[o] = Candidate(o).tip
        BY <2>1, <2>3 DEF Typed, GitTyped
      <3>4. ASSUME NEW b \in Actors \ {a}, job[b].pc = "prepared"
            PROVE  job[b].out = prepared'[job[b].op]
        <4>1. job[b].op \in Ops /\ job[b].out \in Outcomes
          BY <3>4, Reads DEF Jobs, Running, Held
        <4>2. prepared[job[b].op] # Nothing /\ job[b].out = prepared[job[b].op]
          BY <3>4, <4>1, OutcomesApart DEF Evident, HeadsSound
        <4>. QED BY <4>1, <4>2, NextKeepsReceipts
      <3>. QED BY <2>1, <3>1, <3>2, <3>3, <3>4 DEF Evident, HeadsSound
    <2>. QED BY <1>3, <1>5, <2>1, <2>2, <2>3 DEF JobDecide
  <1>6. CASE JobLand(a)
    <2>1. /\ job'[a].pc = "landed" /\ \A b \in Actors \ {a} : job'[b] = job[b]
      BY <1>1, <1>6 DEF JobLand, JobTyped, Jobs
    <2>2. /\ head' = [head EXCEPT !["target"] = job[a].head]
          /\ past' = [past EXCEPT !["target"] = past["target"] \cup {job[a].head}]
      BY <1>6 DEF JobLand
    <2>3. job[a].head.tip \in job[a].head.all /\ "target" \in Branches
      BY <1>6 DEF JobLand, Evident, HeadsSound, Branches
    <2>. QED BY <2>1, <2>2, <2>3, HeadsMove DEF Evident
  <1>7. CASE JobRecord(a)
    BY <1>3, <1>7 DEF JobRecord
  <1>8. CASE JobFail(a)
    BY <1>3, <1>8 DEF JobFail, gitVars
  <1>. QED BY <1>4, <1>5, <1>6, <1>7, <1>8

LEMMA NextEvident == Typed /\ Typed' /\ Fence /\ Evident /\ [Next]_vars => Evident'
  <1> SUFFICES ASSUME Typed, Typed', Fence, Evident, [Next]_vars PROVE Evident'
    OBVIOUS
  <1>1. ASSUME UNCHANGED <<head, past, job>> PROVE HeadsSound'
    BY <1>1, HeadsStay DEF Evident
  <1>2. ASSUME UNCHANGED <<marker, op, act, job>> PROVE EvidenceKept'
    BY <1>2, EvidenceStep DEF Evident
  <1>3. ASSUME NEW a \in Actors, LockToExecute(a) \/ Reply(a) \/ Vanish(a)
        PROVE  HeadsSound'
    <2>1. UNCHANGED <<head, past>> /\ JobTyped
      BY <1>3 DEF LockToExecute, Reply, Vanish, gitVars, Typed
    <2>2. /\ \A b \in Actors \ {a} : job'[b] = job[b]
          /\ job'[a] = job[a] \/ job'[a].pc # "prepared"
      BY <1>3, <2>1 DEF LockToExecute, Reply, Vanish, JobTyped, Jobs, NoJob
    <2>. QED BY <2>1, <2>2, HeadsStay DEF Evident
  <1>4. ASSUME NEW a \in Actors, Handles(a) \/ Recovers(a) \/ Fail(a) \/ Vanish(a)
        PROVE  HeadsSound'
    BY <1>1, <1>3, <1>4 DEF Handles, Recovers, Fail, PinTarget, ReuseClaim,
       RefuseClaim, Claim, FindSettled, LockToReconcile, ReadMarker,
       ReadProof, Settle, Deliver, MarkDelivered, RecoverAgain, RecoverNext, gitVars
  <1>5. ASSUME NEW a \in Actors, Handles(a) \/ Recovers(a) \/ Fail(a) \/ Vanish(a)
        PROVE  EvidenceKept'
    BY <1>5, RequestsEvidence, RowsEvidence, CallEvidence DEF Handles, Recovers
  <1>6. ASSUME NEW a \in Actors, JobRuns(a) \/ JobFail(a) PROVE Evident'
    BY <1>6, JobsHeads, JobsEvidence DEF JobRuns, Evident
  <1>7. ASSUME NEW a \in Actors, NEW m \in MRs, StartMerge(a, m) \/ StartAbort(a, m)
        PROVE  Evident'
    BY <1>1, <1>7, RequestsEvidence DEF StartMerge, StartAbort, gitVars, Evident
  <1>8. ASSUME NEW m \in MRs, UpdateState(m) PROVE Evident'
    BY <1>1, <1>2, <1>8 DEF UpdateState, gitVars, Evident
  <1>9. ASSUME NEW b \in Branches, Push(b) \/ Rewind(b) PROVE Evident'
    <2>1. UNCHANGED <<marker, op, act, job>>
      BY <1>9 DEF Push, Rewind, SetBranch, dbVars
    <2>2. PICK h : /\ h.tip \in h.all /\ SetBranch(b, h)
      BY <1>9 DEF Push, Rewind, Evident, HeadsSound
    <2>3. HeadsSound'
      BY <2>1, <2>2, HeadsMove DEF SetBranch, Evident
    <2>. QED BY <1>2, <2>1, <2>3 DEF Evident
  <1>10. CASE UNCHANGED vars
    BY <1>1, <1>2, <1>10 DEF vars, gitVars, dbVars, Evident
  <1>. QED BY <1>4, <1>5, <1>6, <1>7, <1>8, <1>9, <1>10 DEF Next, Evident

LEMMA InitEvident == Init => Evident
  <1>1. FirstHead.source.tip \in FirstHead.source.all
        /\ FirstHead.target.tip \in FirstHead.target.all
    BY DEF FirstHead
  <1>. QED BY <1>1 DEF Init, Evident, HeadsSound, EvidenceKept, Branches, NoJob, Idle,
       NoRow

\* A merged merge request names a commit that the target branch really had, the
\* candidate of its own operation: the database never runs ahead of Git,
\* whatever calls failed, were retried or lost their callers.
THEOREM NeverAhead == Spec => []MergedIsLanded
  <1>1. Init => Typed /\ Fence /\ Evident
    BY InitTyped, InitFence, InitEvident
  <1>2. Typed /\ Fence /\ Evident /\ [Next]_vars => (Typed /\ Fence /\ Evident)'
    BY NextTyped, NextFence, NextEvident
  <1>3. Evident => MergedIsLanded
    BY DEF Evident, EvidenceKept, Evidence, Reached, MergedIsLanded
  <1>. QED BY <1>1, <1>2, <1>3, PTL DEF Spec

=============================================================================
