-------------------------- MODULE MergeContentProofs --------------------------
(***************************************************************************)
(* Theorems about what the branches contain and what was delivered, for    *)
(* any number of merge requests, instances, operations, pushes, failures   *)
(* and vanishing callers.  The locks and the evidence come from            *)
(* MergeJournalProofs.                                                     *)
(***************************************************************************)
EXTENDS MergeJournalProofs

-----------------------------------------------------------------------------
\* The branch locks.  One job at a time has them; a job that has prepared a
\* merge reaches all of the target it is going to replace, because nobody
\* else moves a branch in the meantime.

Settlers == {"prepared", "settling"}

OneSettler ==
  \A a, b \in Actors : job[a].pc \in Settlers /\ job[b].pc \in Settlers => a = b

Ahead ==
  \A a \in Actors :
    job[a].pc = "prepared" => head.target.all \subseteq job[a].head.all

LandedCommit ==
  \A a \in Actors : job[a].pc \in {"prepared", "landed"} => job[a].out # Rejected

Locked == OneSettler /\ Ahead /\ LandedCommit

LEMMA InitLocked == Init => Locked
  BY DEF Init, Locked, OneSettler, Ahead, LandedCommit, NoJob, Settlers

\* The steps that leave the branches alone and bring no job to them.
Still ==
  /\ head' = head /\ prepared' = prepared
  /\ \A a \in Actors :
       job'[a].pc \in Settlers \cup {"landed"} => job'[a] = job[a]

LEMMA StillLocked == Locked /\ Still => Locked'
  <1> SUFFICES ASSUME Locked, Still PROVE Locked'
    OBVIOUS
  <1>1. \A a \in Actors :
          job'[a].pc \in {"prepared", "settling", "landed"} => job'[a] = job[a]
    BY DEF Still, Settlers
  <1>2. OneSettler'
    BY <1>1 DEF Locked, OneSettler, Settlers
  <1>3. Ahead'
    BY <1>1 DEF Locked, Ahead, Still
  <1>4. LandedCommit'
    BY <1>1 DEF Locked, LandedCommit
  <1>. QED BY <1>2, <1>3, <1>4 DEF Locked

\* What a request does never brings a job to the branches.
LEMMA RequestStill ==
  ASSUME Typed, NEW a \in Actors,
         \/ Handles(a) \/ Recovers(a) \/ Fail(a) \/ Vanish(a)
         \/ \E m \in MRs : StartMerge(a, m) \/ StartAbort(a, m)
  PROVE  Still
  <1>1. head' = head /\ prepared' = prepared /\ JobTyped
    BY DEF Handles, Recovers, Fail, Vanish, PinTarget, ReuseClaim, StartMerge,
       StartAbort, RefuseClaim, Claim, FindSettled, LockToReconcile, LockToExecute,
       ReadMarker, ReadProof, Reply, Settle, Deliver, MarkDelivered, RecoverAgain,
       RecoverNext, gitVars, Typed
  <1>2. NoJob.pc = "none"
    BY DEF NoJob
  <1>3. CASE LockToExecute(a) \/ Reply(a) \/ Vanish(a)
    <2>1. /\ \A b \in Actors \ {a} : job'[b] = job[b]
          /\ job'[a] = job[a] \/ job'[a].pc \in {"queued", "none"}
      BY <1>1, <1>2, <1>3 DEF LockToExecute, Reply, Vanish, JobTyped, Jobs
    <2>. QED BY <1>1, <2>1 DEF Still, Settlers
  <1>4. CASE job' = job
    BY <1>1, <1>4 DEF Still
  <1>5. \/ LockToExecute(a) \/ Reply(a) \/ Vanish(a)
        \/ job' = job
    BY DEF Handles, Recovers, Fail, PinTarget, ReuseClaim, StartMerge,
       StartAbort, RefuseClaim, Claim, FindSettled, LockToReconcile,
       ReadMarker, ReadProof, Settle, Deliver, MarkDelivered, RecoverAgain,
       RecoverNext
  <1>. QED BY <1>3, <1>4, <1>5

\* A job that starts, records its outcome or ends.
LEMMA JobStill ==
  ASSUME Typed, NEW a \in Actors, JobStart(a) \/ JobRecord(a) \/ JobFail(a)
  PROVE  Still
  <1>1. head' = head /\ prepared' = prepared /\ JobTyped
    BY DEF JobStart, JobRecord, JobFail, gitVars, Typed
  <1>2. ASSUME NEW pc \in {"done", "failed"}, NEW out, JobEnds(a, pc, out) PROVE Still
    <2>1. /\ \A b \in Actors \ {a} : job'[b] = job[b]
          /\ job'[a].pc \notin Running
      BY <1>1, <1>2, Ended
    <2>. QED BY <1>1, <2>1 DEF Still, Settlers, Running, Held
  <1>3. CASE job' = [job EXCEPT ![a].pc = "marked"]
    <2>1. /\ \A b \in Actors \ {a} : job'[b] = job[b]
          /\ job'[a].pc = "marked"
      BY <1>1, <1>3 DEF JobTyped, Jobs
    <2>. QED BY <1>1, <2>1 DEF Still, Settlers
  <1>. QED BY <1>2, <1>3 DEF JobStart, JobRecord, JobFail

\* The decision under the branch locks: which outcome, and from what.
LEMMA DecideMoves ==
  ASSUME Typed, Evident, NEW a \in Actors, JobDecide(a), ~Still
  PROVE  /\ BranchesFree /\ head' = head /\ marker' = marker
         /\ job[a].op \in Ops /\ job[a].pc \in Held
         /\ \A b \in Actors \ {a} : job'[b] = job[b]
         /\ job'[a].op = job[a].op
         /\ \/ /\ job'[a].pc = "settling" /\ prepared' = prepared
               /\ job'[a].out = Rejected => ~Landed(job[a].op)
            \/ /\ job'[a].pc = "prepared"
               /\ prepared' = [prepared EXCEPT ![job[a].op] = Candidate(job[a].op).tip]
               /\ job'[a].head = Candidate(job[a].op)
               /\ job'[a].out = Candidate(job[a].op).tip
               /\ job'[a].out # Rejected
  <1> DEFINE o == job[a].op
  <1>1. /\ head' = head /\ marker' = marker /\ JobTyped /\ job[a] \in Jobs
        /\ o \in Ops /\ job[a].pc \in Held
    BY Reads DEF JobDecide, Typed, Jobs, Running, Held
  <1>2. ~JobEnds(a, "failed", Nothing) \/ prepared' # prepared
    <2> SUFFICES ASSUME JobEnds(a, "failed", Nothing), prepared' = prepared
                 PROVE  FALSE
      OBVIOUS
    <2>1. /\ \A b \in Actors \ {a} : job'[b] = job[b]
          /\ job'[a].pc \notin Running
      BY <1>1, Ended
    <2>. QED BY <1>1, <2>1 DEF Still, Settlers, Running, Held
  <1>3. ASSUME NEW out, JobConclude(a, out), BranchesFree,
               out = Rejected => ~Landed(o)
        PROVE  /\ \A b \in Actors \ {a} : job'[b] = job[b]
               /\ job'[a].op = o /\ BranchesFree
               /\ job'[a].pc = "settling" /\ prepared' = prepared
               /\ job'[a].out = Rejected => ~Landed(o)
    BY <1>1, <1>3 DEF JobConclude, JobTyped, Jobs
  <1>4. ASSUME Landed(o) PROVE prepared[o] # Rejected
    BY <1>1, <1>4, Reads, OutcomesApart DEF Landed
  <1>5. CASE /\ BranchesFree
             /\ prepared' = [prepared EXCEPT ![o] = Candidate(o).tip]
             /\ job' = [job EXCEPT ![a].pc = "prepared", ![a].head = Candidate(o),
                                   ![a].out = Candidate(o).tip]
    <2>1. Candidate(o).tip \in Commits
      BY <1>1, Reads DEF Candidate, Commits, Heads
    <2>2. /\ \A b \in Actors \ {a} : job'[b] = job[b]
          /\ job'[a].op = o /\ job'[a].pc = "prepared"
          /\ job'[a].head = Candidate(o) /\ job'[a].out = Candidate(o).tip
      BY <1>1, <1>5 DEF JobTyped, Jobs
    <2>. QED BY <1>1, <1>5, <2>1, <2>2, OutcomesApart
  <1>6. \/ \E out : /\ JobConclude(a, out) /\ BranchesFree
                    /\ out = Rejected => ~Landed(o)
        \/ /\ BranchesFree
           /\ prepared' = [prepared EXCEPT ![o] = Candidate(o).tip]
           /\ job' = [job EXCEPT ![a].pc = "prepared", ![a].head = Candidate(o),
                                 ![a].out = Candidate(o).tip]
    BY <1>2, <1>4 DEF JobDecide
  <1>7. CASE \E out : /\ JobConclude(a, out) /\ BranchesFree
                      /\ out = Rejected => ~Landed(o)
    BY <1>1, <1>3, <1>7
  <1>. QED BY <1>5, <1>6, <1>7

LEMMA LandMoves ==
  ASSUME Typed, NEW a \in Actors, JobLand(a)
  PROVE  /\ job[a].pc = "prepared" /\ job'[a].pc = "landed"
         /\ job[a].op \in Ops
         /\ job'[a].op = job[a].op /\ job'[a].out = job[a].out
         /\ \A b \in Actors \ {a} : job'[b] = job[b]
         /\ head'.target = job[a].head /\ head'.source = head.source
         /\ UNCHANGED <<prepared, marker>>
  <1>1. /\ JobTyped /\ job[a] \in Jobs /\ job[a].pc = "prepared"
        /\ head \in [Branches -> Heads]
    BY Reads DEF JobLand, Typed, GitTyped
  <1>2. job[a].op \in Ops
    BY <1>1 DEF Jobs, Running, Held
  <1>3. /\ job'[a].pc = "landed" /\ job'[a].op = job[a].op /\ job'[a].out = job[a].out
        /\ \A b \in Actors \ {a} : job'[b] = job[b]
    BY <1>1 DEF JobLand, JobTyped, Jobs
  <1>4. head'.target = job[a].head /\ head'.source = head.source
    BY <1>1 DEF JobLand, Branches
  <1>. QED BY <1>1, <1>2, <1>3, <1>4 DEF JobLand

\* A writer of a branch, which holds its lock.
LEMMA WriteMoves ==
  ASSUME Typed, NEW b \in Branches, Push(b) \/ Rewind(b)
  PROVE  /\ BranchesFree /\ UNCHANGED <<prepared, marker, act, job, op, pipelines>>
         /\ \A c \in Branches \ {b} : head'[c] = head[c]
         /\ Push(b) =>
              \E merged \in {{}, head.source.all, head.target.all} : \E k :
                head'[b].all = head[b].all \cup merged \cup {Pushed(k)}
  <1>1. head \in [Branches -> Heads]
    BY DEF Typed, GitTyped
  <1>2. PICK h : SetBranch(b, h)
    BY DEF Push, Rewind
  <1>3. ASSUME Push(b)
        PROVE  \E merged \in {{}, head.source.all, head.target.all} : \E k :
                 head'[b].all = head[b].all \cup merged \cup {Pushed(k)}
    <2>1. PICK merged \in {{}, head.source.all, head.target.all} :
            SetBranch(b, [tip |-> Pushed(count.pushes + 2),
                          all |-> head[b].all \cup merged
                                    \cup {Pushed(count.pushes + 2)}])
      BY <1>3 DEF Push
    <2>2. head'[b].all = head[b].all \cup merged \cup {Pushed(count.pushes + 2)}
      BY <1>1, <2>1 DEF SetBranch
    <2>. QED BY <2>2
  <1>. QED BY <1>1, <1>2, <1>3 DEF SetBranch, dbVars

\* Every step is one of these.
LEMMA Steps ==
  ASSUME Typed, [Next]_vars
  PROVE  \/ Still
         \/ \E a \in Actors : JobDecide(a)
         \/ \E a \in Actors : JobLand(a)
         \/ \E b \in Branches : Push(b) \/ Rewind(b)
  <1>1. ASSUME NEW a \in Actors,
               \/ Handles(a) \/ Recovers(a) \/ Fail(a) \/ Vanish(a)
               \/ \E m \in MRs : StartMerge(a, m) \/ StartAbort(a, m)
        PROVE  Still
    BY <1>1, RequestStill
  <1>2. ASSUME NEW a \in Actors, JobStart(a) \/ JobRecord(a) \/ JobFail(a) PROVE Still
    BY <1>2, JobStill
  <1>3. (\E m \in MRs : UpdateState(m)) \/ UNCHANGED vars => Still
    BY DEF UpdateState, vars, gitVars, Still
  <1>. QED BY <1>1, <1>2, <1>3 DEF Next, JobRuns

LEMMA NextLocked == Typed /\ Evident /\ Locked /\ [Next]_vars => Locked'
  <1> SUFFICES ASSUME Typed, Evident, Locked, [Next]_vars PROVE Locked'
    OBVIOUS
  <1>1. ASSUME NEW a \in Actors, JobDecide(a), ~Still PROVE Locked'
    <2>1. /\ BranchesFree /\ head' = head
          /\ \A b \in Actors \ {a} : job'[b] = job[b]
          /\ job'[a].pc \in Settlers
          /\ job'[a].pc = "prepared" =>
               job'[a].head = Candidate(job[a].op) /\ job'[a].out # Rejected
      BY <1>1, DecideMoves DEF Settlers
    <2>2. \A b \in Actors \ {a} : job'[b].pc \notin Settlers
      BY <2>1 DEF BranchesFree, Settlers
    <2>3. OneSettler'
      BY <2>2 DEF OneSettler
    <2>4. head.target.all \subseteq Candidate(job[a].op).all
      BY DEF Candidate
    <2>5. Ahead'
      BY <2>1, <2>2, <2>4 DEF Ahead, Settlers
    <2>6. LandedCommit'
      BY <2>1 DEF Locked, LandedCommit, Settlers
    <2>. QED BY <2>3, <2>5, <2>6 DEF Locked
  <1>2. ASSUME NEW a \in Actors, JobLand(a) PROVE Locked'
    <2>1. /\ job[a].pc = "prepared" /\ job'[a].pc = "landed"
          /\ job'[a].out = job[a].out
          /\ \A b \in Actors \ {a} : job'[b] = job[b]
      BY <1>2, LandMoves
    <2>2. \A b \in Actors : job'[b].pc \notin Settlers
      BY <2>1 DEF Locked, OneSettler, Settlers
    <2>3. OneSettler' /\ Ahead'
      BY <2>2 DEF OneSettler, Ahead, Settlers
    <2>4. LandedCommit'
      BY <2>1 DEF Locked, LandedCommit
    <2>. QED BY <2>3, <2>4 DEF Locked
  <1>3. ASSUME NEW b \in Branches, Push(b) \/ Rewind(b) PROVE Locked'
    <2>1. BranchesFree /\ job' = job
      BY <1>3, WriteMoves
    <2>. QED BY <2>1 DEF Locked, OneSettler, Ahead, LandedCommit, BranchesFree
  <1>. QED BY <1>1, <1>2, <1>3, Steps, StillLocked

LEMMA Sound == Spec => [](Typed /\ Fence /\ Evident /\ Locked)
  <1>1. Init => Typed /\ Fence /\ Evident /\ Locked
    BY InitTyped, InitFence, InitEvident, InitLocked
  <1>2. Typed /\ Fence /\ Evident /\ Locked /\ [Next]_vars
          => (Typed /\ Fence /\ Evident /\ Locked)'
    BY NextTyped, NextFence, NextEvident, NextLocked
  <1>. QED BY <1>1, <1>2, PTL DEF Spec

\* Landing a merge loses no commit of the target, also when the job has lost
\* the request that started it: between the decision and the move the target
\* is the one the merge was made from.
THEOREM NothingLost == Spec => LandingKeepsCommits
  <1>1. Typed /\ Evident /\ Locked /\ [Next]_vars =>
          \A a \in Actors : Lands(a) => head.target.all \subseteq head'.target.all
    <2> SUFFICES ASSUME Typed, Evident, Locked, [Next]_vars, NEW a \in Actors, Lands(a)
                 PROVE  head.target.all \subseteq head'.target.all
      OBVIOUS
    <2>1. ~Still
      BY DEF Lands, Still
    <2>2. ASSUME NEW b \in Actors, JobDecide(b) PROVE FALSE
      BY <2>1, <2>2, DecideMoves DEF Lands
    <2>3. ASSUME NEW b \in Branches, Push(b) \/ Rewind(b) PROVE FALSE
      BY <2>3, WriteMoves DEF Lands
    <2>4. PICK b \in Actors : JobLand(b)
      BY <2>1, <2>2, <2>3, Steps
    <2>. QED BY <2>4, LandMoves DEF Locked, Ahead
  <1>. QED BY <1>1, Sound, PTL DEF Spec, LandingKeepsCommits

-----------------------------------------------------------------------------
\* A rejected merge is not in the target.  Without forced pushes the target
\* only grows.  The merge commit of an operation comes into a branch only when
\* its own job lands it in the target, from where pushes carry it on.

FromTarget ==
  \A o \in Ops : MergeOf(o) \in head.source.all => MergeOf(o) \in head.target.all

CandidateKnown ==
  \A o \in Ops :
    prepared[o] \in {Nothing, MergeOf(o)} \/ prepared[o] \in head.target.all

PreparedFrom ==
  \A a \in Actors : job[a].pc = "prepared" =>
    job[a].head.all
      \subseteq head.source.all \cup head.target.all \cup {MergeOf(job[a].op)}

RejectingAbsent ==
  \A a \in Actors :
    job[a].pc = "settling" /\ job[a].out = Rejected => ~Landed(job[a].op)

ReceiptAbsent == \A o \in Ops : marker[o] = Rejected => ~Landed(o)

AbsentParts ==
  /\ FromTarget /\ CandidateKnown /\ PreparedFrom
  /\ RejectingAbsent /\ ReceiptAbsent

Absent == count.rewinds = 0 => AbsentParts

LEMMA InitAbsent == Init => Absent
  <1>1. \A o \in Ops : \A k : MergeOf(o) # Pushed(k)
    BY DEF MergeOf, Pushed
  <1>2. Init => FromTarget
    BY <1>1 DEF Init, FromTarget, FirstHead
  <1>3. Nothing # Rejected
    BY OutcomesApart
  <1>. QED BY <1>2, <1>3 DEF Init, Absent, AbsentParts, CandidateKnown, PreparedFrom,
       RejectingAbsent, ReceiptAbsent, NoJob

\* No receipt is written in this step but those of jobs that reject.
LEMMA ReceiptFrom ==
  ASSUME Typed, Fence, Evident, Locked, [Next]_vars, NEW o \in Ops,
         marker'[o] = Rejected, marker[o] # Rejected
  PROVE  \E a \in Actors :
           job[a].pc = "settling" /\ job[a].out = Rejected /\ job[a].op = o
  <1>1. PICK a \in Actors : JobRecord(a)
    <2>1. ASSUME NEW a \in Actors,
                 \/ Handles(a) \/ Recovers(a) \/ Fail(a) \/ Vanish(a)
                 \/ \E m \in MRs : StartMerge(a, m) \/ StartAbort(a, m)
          PROVE  marker' = marker
      BY <2>1 DEF Handles, Recovers, Fail, Vanish, PinTarget, ReuseClaim, StartMerge,
         StartAbort, RefuseClaim, Claim, FindSettled, LockToReconcile, LockToExecute,
         ReadMarker, ReadProof, Reply, Settle, Deliver, MarkDelivered, RecoverAgain,
         RecoverNext, gitVars
    <2>2. ASSUME NEW a \in Actors,
                 JobStart(a) \/ JobDecide(a) \/ JobLand(a) \/ JobFail(a)
          PROVE  marker' = marker
      BY <2>2 DEF JobStart, JobDecide, JobLand, JobFail, gitVars
    <2>3. (\E m \in MRs : UpdateState(m)) \/ UNCHANGED vars => marker' = marker
      BY DEF UpdateState, vars, gitVars
    <2>4. ASSUME NEW b \in Branches, Push(b) \/ Rewind(b) PROVE marker' = marker
      BY <2>4, WriteMoves
    <2>. QED BY <2>1, <2>2, <2>3, <2>4 DEF Next, JobRuns
  <1>2. /\ job[a].pc \in {"settling", "landed"}
        /\ marker' = [marker EXCEPT ![job[a].op] = job[a].out]
    BY <1>1 DEF JobRecord
  <1>3. job[a].op = o /\ job[a].out = Rejected
    BY <1>2 DEF Typed, GitTyped
  <1>4. job[a].pc # "landed"
    BY <1>3 DEF Locked, LandedCommit
  <1>. QED BY <1>2, <1>3, <1>4

\* The target grows by nothing that is the candidate of another operation.
Grows(except) ==
  /\ head.target.all \subseteq head'.target.all
  /\ \A p \in Ops \ except :
       MergeOf(p) \in head'.target.all => MergeOf(p) \in head.target.all
  /\ \A p \in Ops :
       MergeOf(p) \in head'.source.all => MergeOf(p) \in head'.target.all

\* A candidate that stays and was absent is absent still.
LEMMA StaysAbsent ==
  ASSUME AbsentParts, NEW except, Grows(except), NEW o \in Ops \ except,
         prepared'[o] = prepared[o], ~Landed(o)
  PROVE  ~Landed(o)'
  <1> SUFFICES ASSUME Landed(o)' PROVE FALSE
    OBVIOUS
  <1>1. prepared[o] # Nothing /\ prepared[o] \in head'.target.all
    BY DEF Landed
  <1>2. prepared[o] \notin head.target.all
    BY <1>1 DEF Landed
  <1>3. prepared[o] = MergeOf(o)
    BY <1>1, <1>2 DEF AbsentParts, CandidateKnown
  <1>. QED BY <1>1, <1>2, <1>3 DEF Grows

LEMMA ReceiptsStayAbsent ==
  ASSUME Typed, Fence, Evident, Locked, [Next]_vars, AbsentParts,
         NEW except, Grows(except),
         \A o \in except : marker'[o] # Rejected,
         \A o \in Ops : marker'[o] = Rejected => prepared'[o] = prepared[o]
  PROVE  ReceiptAbsent'
  <1> SUFFICES ASSUME NEW o \in Ops, marker'[o] = Rejected PROVE ~Landed(o)'
    BY DEF ReceiptAbsent
  <1>1. ~Landed(o)
    BY ReceiptFrom DEF AbsentParts, ReceiptAbsent, RejectingAbsent
  <1>. QED BY <1>1, StaysAbsent

\* Nobody writes a branch.
LEMMA StillAbsent ==
  ASSUME Typed, Fence, Evident, Locked, [Next]_vars, AbsentParts, Still
  PROVE  AbsentParts'
  <1>1. head' = head /\ prepared' = prepared
    BY DEF Still
  <1>2. Grows({})
    BY <1>1 DEF Grows, AbsentParts, FromTarget
  <1>3. ReceiptAbsent'
    BY <1>1, <1>2, ReceiptsStayAbsent
  <1>4. \A a \in Actors :
          job'[a].pc \in {"prepared", "settling"} => job'[a] = job[a]
    BY DEF Still, Settlers
  <1>5. FromTarget' /\ CandidateKnown'
    BY <1>1 DEF AbsentParts, FromTarget, CandidateKnown
  <1>6. PreparedFrom'
    BY <1>1, <1>4 DEF AbsentParts, PreparedFrom
  <1>7. RejectingAbsent'
    BY <1>1, <1>4 DEF AbsentParts, RejectingAbsent, Landed
  <1>. QED BY <1>3, <1>5, <1>6, <1>7 DEF AbsentParts

LEMMA DecideAbsent ==
  ASSUME Typed, Fence, Evident, Locked, [Next]_vars, AbsentParts,
         NEW a \in Actors, JobDecide(a), ~Still
  PROVE  AbsentParts'
  <1> DEFINE o == job[a].op
  <1>1. /\ BranchesFree /\ head' = head /\ marker' = marker /\ o \in Ops
        /\ job[a].pc \in Held /\ job'[a].op = o
        /\ \A b \in Actors \ {a} : job'[b] = job[b]
    BY DecideMoves
  <1>2. \A b \in Actors \ {a} : job'[b].pc \notin {"prepared", "settling"}
    BY <1>1 DEF BranchesFree
  <1>3. marker[o] = Nothing
    BY <1>1 DEF Fence, HolderUndecided
  <1>4. Grows({})
    BY <1>1 DEF Grows, AbsentParts, FromTarget
  <1>5. FromTarget'
    BY <1>1 DEF AbsentParts, FromTarget
  <1>6. CASE /\ job'[a].pc = "settling" /\ prepared' = prepared
             /\ job'[a].out = Rejected => ~Landed(o)
    <2>1. ReceiptAbsent'
      BY <1>4, <1>6, ReceiptsStayAbsent
    <2>2. CandidateKnown'
      BY <1>1, <1>6 DEF AbsentParts, CandidateKnown
    <2>3. PreparedFrom'
      BY <1>2, <1>6 DEF PreparedFrom
    <2>4. RejectingAbsent'
      BY <1>1, <1>2, <1>6 DEF RejectingAbsent, Landed
    <2>. QED BY <1>5, <2>1, <2>2, <2>3, <2>4 DEF AbsentParts
  <1>7. CASE /\ job'[a].pc = "prepared"
             /\ prepared' = [prepared EXCEPT ![o] = Candidate(o).tip]
             /\ job'[a].head = Candidate(o)
    <2>1. \A p \in Ops \ {o} : prepared'[p] = prepared[p]
      BY <1>7 DEF Typed, GitTyped
    <2>2. prepared'[o] = Candidate(o).tip
      BY <1>1, <1>7 DEF Typed, GitTyped
    <2>3. marker'[o] # Rejected
      BY <1>1, <1>3, OutcomesApart
    <2>4. ReceiptAbsent'
      BY <1>4, <2>1, <2>3, ReceiptsStayAbsent
    <2>5. Candidate(o).tip = MergeOf(o) \/ Candidate(o).tip \in head.target.all
      BY DEF Candidate, Evident, HeadsSound, Branches
    <2>6. CandidateKnown'
      BY <1>1, <2>1, <2>2, <2>5 DEF AbsentParts, CandidateKnown
    <2>7. Candidate(o).all \subseteq head.source.all \cup head.target.all \cup {MergeOf(o)}
      BY DEF Candidate
    <2>8. PreparedFrom'
      BY <1>1, <1>2, <1>7, <2>7 DEF PreparedFrom
    <2>9. RejectingAbsent'
      BY <1>2, <1>7 DEF RejectingAbsent
    <2>. QED BY <1>5, <2>4, <2>6, <2>8, <2>9 DEF AbsentParts
  <1>. QED BY <1>6, <1>7, DecideMoves

LEMMA LandAbsent ==
  ASSUME Typed, Fence, Evident, Locked, [Next]_vars, AbsentParts,
         NEW a \in Actors, JobLand(a)
  PROVE  AbsentParts'
  <1> DEFINE o == job[a].op
  <1>1. /\ job[a].pc = "prepared" /\ job'[a].pc = "landed" /\ o \in Ops
        /\ \A b \in Actors \ {a} : job'[b] = job[b]
        /\ head'.target = job[a].head /\ head'.source = head.source
        /\ UNCHANGED <<prepared, marker>>
    BY LandMoves
  <1>2. \A b \in Actors : job'[b].pc \notin {"prepared", "settling"}
    BY <1>1 DEF Locked, OneSettler, Settlers
  <1>3. head.target.all \subseteq head'.target.all
    BY <1>1 DEF Locked, Ahead
  <1>4. head'.target.all \subseteq head.source.all \cup head.target.all \cup {MergeOf(o)}
    BY <1>1 DEF AbsentParts, PreparedFrom
  <1>5. \A p \in Ops \ {o} : MergeOf(p) # MergeOf(o)
    BY DEF MergeOf
  <1>6. Grows({o})
    BY <1>1, <1>3, <1>4, <1>5 DEF Grows, AbsentParts, FromTarget
  <1>7. marker'[o] # Rejected
    BY <1>1, OutcomesApart DEF Fence, HolderUndecided, Held
  <1>8. ReceiptAbsent'
    BY <1>1, <1>6, <1>7, ReceiptsStayAbsent
  <1>9. FromTarget'
    BY <1>6 DEF Grows, FromTarget
  <1>10. CandidateKnown'
    BY <1>1, <1>3 DEF AbsentParts, CandidateKnown
  <1>11. PreparedFrom' /\ RejectingAbsent'
    BY <1>2 DEF PreparedFrom, RejectingAbsent
  <1>. QED BY <1>8, <1>9, <1>10, <1>11 DEF AbsentParts

LEMMA PushAbsent ==
  ASSUME Typed, Fence, Evident, Locked, [Next]_vars, AbsentParts,
         NEW b \in Branches, Push(b)
  PROVE  AbsentParts'
  <1>1. /\ BranchesFree /\ UNCHANGED <<prepared, marker, job>>
        /\ \A c \in Branches \ {b} : head'[c] = head[c]
    BY WriteMoves
  <1>0. PICK merged \in {{}, head.source.all, head.target.all} :
          \E k : head'[b].all = head[b].all \cup merged \cup {Pushed(k)}
    BY WriteMoves
  <1>2. PICK k : head'[b].all = head[b].all \cup merged \cup {Pushed(k)}
    BY <1>0
  <1>3. \A p \in Ops : MergeOf(p) # Pushed(k)
    BY DEF MergeOf, Pushed
  <1>4. head.target.all \subseteq head'.target.all
    BY <1>1, <1>2 DEF Branches
  <1>5. Grows({})
    BY <1>1, <1>2, <1>3, <1>4 DEF Grows, AbsentParts, FromTarget, Branches
  <1>6. ReceiptAbsent'
    BY <1>1, <1>5, ReceiptsStayAbsent
  <1>7. FromTarget'
    BY <1>5 DEF Grows, FromTarget
  <1>8. CandidateKnown'
    BY <1>1, <1>4 DEF AbsentParts, CandidateKnown
  <1>9. PreparedFrom' /\ RejectingAbsent'
    BY <1>1 DEF PreparedFrom, RejectingAbsent, BranchesFree
  <1>. QED BY <1>6, <1>7, <1>8, <1>9 DEF AbsentParts

\* Forced pushes are counted.
LEMMA RewindsCount ==
  ASSUME Typed, [Next]_vars, count'.rewinds = 0
  PROVE  count.rewinds = 0 /\ \A b \in Branches : ~Rewind(b)
  <1>1. /\ count \in [{"pushes", "rewinds", "fails", "cancels"} -> Nat]
        /\ count.rewinds \in Nat
    BY DEF Typed, CountTyped, Counts
  <1>2. ASSUME NEW b \in Branches, Rewind(b) PROVE FALSE
    <2>1. count'.rewinds = count.rewinds + 1
      BY <1>1, <1>2 DEF Rewind
    <2>. QED BY <1>1, <2>1
  <1>3. MayFail => count'.rewinds = count.rewinds
    BY <1>1 DEF MayFail
  <1>4. ASSUME NEW a \in Actors,
               \/ Handles(a) \/ Recovers(a) \/ JobRuns(a)
               \/ \E m \in MRs : StartMerge(a, m) \/ StartAbort(a, m)
        PROVE  count' = count
    BY <1>4 DEF Handles, Recovers, JobRuns, PinTarget, ReuseClaim, StartMerge,
       StartAbort, RefuseClaim, Claim, FindSettled, LockToReconcile, LockToExecute,
       ReadMarker, ReadProof, Reply, Settle, Deliver, MarkDelivered, RecoverAgain,
       RecoverNext, JobStart, JobDecide, JobLand, JobRecord
  <1>5. ASSUME NEW a \in Actors, Fail(a) \/ Vanish(a) \/ JobFail(a)
        PROVE  count'.rewinds = count.rewinds
    BY <1>1, <1>3, <1>5 DEF Fail, Vanish, JobFail
  <1>6. ASSUME NEW b \in Branches, Push(b) PROVE count'.rewinds = count.rewinds
    BY <1>1, <1>6 DEF Push
  <1>7. (\E m \in MRs : UpdateState(m)) \/ UNCHANGED vars => count' = count
    BY DEF UpdateState, vars
  <1>. QED BY <1>2, <1>4, <1>5, <1>6, <1>7 DEF Next

LEMMA NextAbsent ==
  Typed /\ Fence /\ Evident /\ Locked /\ Absent /\ [Next]_vars => Absent'
  <1> SUFFICES ASSUME Typed, Fence, Evident, Locked, Absent, [Next]_vars,
                      count'.rewinds = 0
               PROVE  AbsentParts'
    BY DEF Absent
  <1>1. AbsentParts /\ \A b \in Branches : ~Rewind(b)
    BY RewindsCount DEF Absent
  <1>2. CASE Still
    BY <1>1, <1>2, StillAbsent
  <1>3. CASE ~Still
    BY <1>1, <1>3, Steps, DecideAbsent, LandAbsent, PushAbsent
  <1>. QED BY <1>2, <1>3

\* A rejected operation has not moved the target: as long as nobody forces an
\* earlier head on a branch, no candidate of an operation that the receipt or
\* the database calls rejected is in the target branch.
THEOREM RejectionMeansAbsence == Spec => []RejectedIsAbsent
  <1>1. Init => Absent
    BY InitAbsent
  <1>2. Typed /\ Fence /\ Evident /\ Locked /\ Absent /\ [Next]_vars => Absent'
    BY NextAbsent
  <1>3. Fence /\ Absent => RejectedIsAbsent
    BY DEF Fence, RejectionBacked, Absent, AbsentParts, ReceiptAbsent, RejectedIsAbsent
  <1>. QED BY <1>1, <1>2, <1>3, Sound, PTL DEF Spec

-----------------------------------------------------------------------------
\* Without forced pushes the target still reaches every head it ever had.

Grown ==
  count.rewinds = 0 => \A h \in past.target : h.all \subseteq head.target.all

LEMMA InitGrown == Init => Grown
  BY DEF Init, Grown, Branches

\* A head becomes a past one when it becomes the head.
LEMMA PastMoves ==
  [Next]_vars /\ Typed => past'.target \subseteq past.target \cup {head'.target}
  <1> SUFFICES ASSUME [Next]_vars, Typed
               PROVE  past'.target \subseteq past.target \cup {head'.target}
    OBVIOUS
  <1>1. /\ past \in [Branches -> SUBSET Heads] /\ head \in [Branches -> Heads]
        /\ "target" \in Branches
    BY DEF Typed, GitTyped, Branches
  <1>2. ASSUME NEW a \in Actors,
               \/ Handles(a) \/ Recovers(a) \/ Fail(a) \/ Vanish(a) \/ JobFail(a)
               \/ \E m \in MRs : StartMerge(a, m) \/ StartAbort(a, m)
        PROVE  past' = past
    BY <1>2 DEF Handles, Recovers, Fail, Vanish, PinTarget, ReuseClaim, JobFail,
       RefuseClaim, Claim, FindSettled, LockToReconcile, LockToExecute, ReadMarker,
       ReadProof, Reply, Settle, Deliver, MarkDelivered, RecoverAgain, RecoverNext,
       StartMerge, StartAbort, gitVars
  <1>3. ASSUME NEW a \in Actors, JobRuns(a)
        PROVE  past'.target \subseteq past.target \cup {head'.target}
    <2>1. CASE JobLand(a)
      BY <1>1, <2>1 DEF JobLand
    <2>2. CASE JobStart(a) \/ JobDecide(a) \/ JobRecord(a)
      BY <2>2 DEF JobStart, JobDecide, JobRecord, gitVars
    <2>. QED BY <1>3, <2>1, <2>2 DEF JobRuns
  <1>4. ASSUME NEW b \in Branches, Push(b) \/ Rewind(b)
        PROVE  past'.target \subseteq past.target \cup {head'.target}
    <2>1. PICK h : SetBranch(b, h)
      BY <1>4 DEF Push, Rewind
    <2>. QED BY <1>1, <2>1 DEF SetBranch
  <1>5. (\E m \in MRs : UpdateState(m)) \/ UNCHANGED vars => past' = past
    BY DEF UpdateState, vars, gitVars
  <1>. QED BY <1>2, <1>3, <1>4, <1>5 DEF Next

LEMMA TargetGrows ==
  ASSUME Typed, Evident, Locked, [Next]_vars, count'.rewinds = 0
  PROVE  head.target.all \subseteq head'.target.all
  <1>1. CASE Still
    BY <1>1 DEF Still
  <1>2. ASSUME NEW a \in Actors, JobDecide(a), ~Still
        PROVE  head.target.all \subseteq head'.target.all
    BY <1>2, DecideMoves
  <1>3. ASSUME NEW a \in Actors, JobLand(a)
        PROVE  head.target.all \subseteq head'.target.all
    BY <1>3, LandMoves DEF Locked, Ahead
  <1>4. ASSUME NEW b \in Branches, Push(b)
        PROVE  head.target.all \subseteq head'.target.all
    <2>1. CASE b = "target"
      BY <1>4, <2>1, WriteMoves
    <2>2. CASE b # "target"
      BY <1>4, <2>2, WriteMoves DEF Branches
    <2>. QED BY <2>1, <2>2
  <1>. QED BY <1>1, <1>2, <1>3, <1>4, Steps, RewindsCount

LEMMA NextGrown == Typed /\ Evident /\ Locked /\ Grown /\ [Next]_vars => Grown'
  <1> SUFFICES ASSUME Typed, Evident, Locked, Grown, [Next]_vars, count'.rewinds = 0,
                      NEW h \in past'.target
               PROVE  h.all \subseteq head'.target.all
    BY DEF Grown
  <1>1. head.target.all \subseteq head'.target.all
    BY TargetGrows
  <1>2. h \in past.target => h.all \subseteq head.target.all
    BY RewindsCount DEF Grown
  <1>. QED BY <1>1, <1>2, PastMoves

\* What has evidence has landed.
LEMMA EvidenceLanded ==
  ASSUME Grown, count.rewinds = 0, NEW o \in Ops, NEW c, Evidence(o, c), c # Nothing
  PROVE  Landed(o)
  BY DEF Grown, Evidence, Reached, Landed

\* As long as nobody forces an earlier head on a branch, the target branch
\* contains the commit of every merge the database has recorded, not only a
\* past head of it: pushes and later merges only add to it, also those whose
\* callers vanished.
THEOREM MergedStaysLanded ==
  Spec => [](count.rewinds = 0 =>
               \A o \in Ops : op[o].status = "applied" => op[o].sha \in head.target.all)
  <1>1. Init => Grown
    BY InitGrown
  <1>2. Typed /\ Evident /\ Locked /\ Grown /\ [Next]_vars => Grown'
    BY NextGrown
  <1>3. Typed /\ Evident /\ Grown =>
          (count.rewinds = 0 =>
             \A o \in Ops : op[o].status = "applied" => op[o].sha \in head.target.all)
    <2> SUFFICES ASSUME Typed, Evident, Grown, count.rewinds = 0,
                        NEW o \in Ops, op[o].status = "applied"
                 PROVE  op[o].sha \in head.target.all
      OBVIOUS
    <2>1. Evidence(o, op[o].sha)
      BY DEF Evident, EvidenceKept
    <2>. QED BY <2>1 DEF Grown, Evidence, Reached
  <1>. QED BY <1>1, <1>2, <1>3, Sound, PTL DEF Spec

-----------------------------------------------------------------------------
\* Deliveries.  An applied row keeps its commit, and pipelines are kept; so
\* a request that has created the pipeline may be overtaken by another one,
\* and the pipeline may be due or not when that one marks the row.

HasPipeline(o) ==
  op[o].status = "applied" /\ op[o].sha \in pipelines \cup NoConfig
HasPipelineNext(o) ==
  op'[o].status = "applied" /\ op'[o].sha \in pipelines' \cup NoConfig

Delivering ==
  /\ \A a \in Actors : act[a].pc = "delivered" => HasPipeline(act[a].op)
  /\ \A o \in Ops : op[o].delivered => HasPipeline(o)

LEMMA InitDelivering == Init => Delivering
  BY DEF Init, Delivering, Idle, NoRow

\* A row that has its pipeline keeps it, and none is marked in this step.
Keeps ==
  \A o \in Ops :
    /\ HasPipeline(o) => HasPipelineNext(o)
    /\ op'[o].delivered => op[o].delivered

LEMMA KeepsDelivering ==
  ASSUME Typed, Delivering, Keeps,
         \A a \in Actors : act'[a].pc = "delivered" =>
           \/ act[a].pc = "delivered" /\ act'[a].op = act[a].op
           \/ HasPipelineNext(act'[a].op)
  PROVE  Delivering'
  <1>1. \A a \in Actors : act[a].pc = "delivered" => act[a].op \in Ops
    BY Reads DEF Requests
  <1>2. \A a \in Actors : act'[a].pc = "delivered" => HasPipelineNext(act'[a].op)
    BY <1>1 DEF Delivering, Keeps
  <1>3. \A o \in Ops : op'[o].delivered => HasPipelineNext(o)
    BY DEF Delivering, Keeps
  <1>4. Delivering' <=> /\ \A a \in Actors :
                             act'[a].pc = "delivered" => HasPipelineNext(act'[a].op)
                        /\ \A o \in Ops : op'[o].delivered => HasPipelineNext(o)
    BY DEF Delivering, HasPipeline, HasPipelineNext
  <1>. QED BY <1>2, <1>3, <1>4

LEMMA RowsStayKeeps == UNCHANGED <<op, pipelines>> => Keeps
  BY DEF Keeps, HasPipeline, HasPipelineNext

\* The steps that never come to the mark.
LEMMA OtherDelivering ==
  ASSUME Typed, Delivering, UNCHANGED <<op, pipelines>>, NEW a \in Actors,
         \A b \in Actors \ {a} : act'[b] = act[b],
         act'[a].pc # "delivered"
  PROVE  Delivering'
  BY RowsStayKeeps, KeepsDelivering

LEMMA ClaimDelivering ==
  ASSUME Typed, Delivering, NEW a \in Actors, NEW o \in Ops, Claim(a, o)
  PROVE  Delivering'
  <1>1. op \in [Ops -> OpRows] /\ pipelines' = pipelines /\ ActTyped
    BY DEF Claim, Typed, DbTyped
  <1>2. op[o].status = "none" /\ ~op'[o].delivered
        /\ \A p \in Ops \ {o} : op'[p] = op[p]
    BY <1>1 DEF Claim
  <1>3. Keeps
    BY <1>1, <1>2 DEF Keeps, HasPipeline, HasPipelineNext
  <1>4. act'[a].pc = "execute" /\ \A b \in Actors \ {a} : act'[b] = act[b]
    BY <1>1, OneMoves DEF Claim
  <1>. QED BY <1>3, <1>4, KeepsDelivering

\* The completion of an operation that is still bound to its row.
LEMMA SettleDelivering ==
  ASSUME Typed, RowsBound, Delivering, NEW a \in Actors, Settle(a)
  PROVE  Delivering'
  <1> DEFINE o == act[a].op
  <1>1. /\ op \in [Ops -> OpRows] /\ o \in Ops /\ op[o] \in OpRows
        /\ pipelines' = pipelines /\ act[a] \in Requests /\ ActTyped
    BY Reads, SettleMoves DEF Settle, Typed, DbTyped
  <1>2. op[o].status # "applied"
    <2>1. op[o].mr \in MRs
      BY <1>1 DEF Settle, RowsBound, RowsClaimed
    <2>2. Of(op[o].mr, "pending", o)
      BY <1>1, <2>1 DEF Settle, RowsBound, PendingIsActive
    <2>. QED BY <2>2 DEF Of
  <1>3. op'[o].delivered <=> op[o].delivered
    <2>1. CASE op' = [op EXCEPT ![o].status = "rejected"]
      BY <1>1, <2>1 DEF OpRows
    <2>2. CASE op' = [op EXCEPT ![o].status = "applied", ![o].sha = act[a].out]
      <3>1. op' = [op EXCEPT ![o] = [op[o] EXCEPT !.status = "applied",
                                                  !.sha = act[a].out]]
        BY <1>1, <2>2
      <3>. QED BY <1>1, <3>1 DEF OpRows
    <2>. QED BY <2>1, <2>2 DEF Settle
  <1>4. Keeps
    BY <1>1, <1>2, <1>3, SettleMoves DEF Keeps, HasPipeline, HasPipelineNext
  <1>5. act'[a].pc = "deliver" /\ \A b \in Actors \ {a} : act'[b] = act[b]
    BY <1>1 DEF Settle, ActTyped, Requests
  <1>. QED BY <1>4, <1>5, KeepsDelivering

LEMMA DeliverDelivering ==
  ASSUME Typed, Delivering, NEW a \in Actors, Deliver(a)
  PROVE  Delivering'
  <1> DEFINE o == act[a].op
  <1>1. /\ op' = op /\ act[a] \in Requests /\ ActTyped /\ pipelines \subseteq pipelines'
    BY Reads DEF Deliver, Typed
  <1>2. Keeps
    BY <1>1 DEF Keeps, HasPipeline, HasPipelineNext
  <1>3. CASE /\ op[o].status = "applied"
             /\ pipelines' = pipelines \cup ({op[o].sha} \ NoConfig)
             /\ Goto(a, "delivered")
    <2>1. act'[a].op = o
      BY <1>1, <1>3 DEF Goto, ActTyped, Requests
    <2>2. HasPipelineNext(act'[a].op)
      BY <1>1, <1>3, <2>1 DEF HasPipelineNext
    <2>3. \A b \in Actors \ {a} : act'[b] = act[b]
      BY <1>1, <1>3, OneMoves
    <2>. QED BY <1>2, <2>2, <2>3, KeepsDelivering
  <1>4. CASE End(a)
    <2>1. act'[a].pc = "idle" /\ \A b \in Actors \ {a} : act'[b] = act[b]
      BY <1>1, <1>4, OneMoves
    <2>. QED BY <1>2, <2>1, KeepsDelivering
  <1>. QED BY <1>3, <1>4 DEF Deliver

LEMMA MarkDelivering ==
  ASSUME Typed, Delivering, NEW a \in Actors, MarkDelivered(a)
  PROVE  Delivering'
  <1> DEFINE o == act[a].op
  <1>1. /\ op \in [Ops -> OpRows] /\ act[a] \in Requests /\ ActTyped
        /\ pipelines' = pipelines /\ act[a].pc = "delivered"
    BY Reads DEF MarkDelivered, Typed, DbTyped
  <1>2. o \in Ops /\ op[o] \in OpRows /\ HasPipeline(o)
    BY <1>1 DEF Requests, Delivering
  <1>3. op' = [op EXCEPT ![o] = [op[o] EXCEPT !.delivered = TRUE]]
    BY <1>1, <1>2 DEF MarkDelivered
  <1>4. /\ op'[o].status = op[o].status /\ op'[o].sha = op[o].sha
        /\ \A p \in Ops \ {o} : op'[p] = op[p]
    BY <1>1, <1>2, <1>3 DEF OpRows
  <1>5. \A p \in Ops : HasPipeline(p) => op'[p].status = "applied"
                                         /\ op'[p].sha \in pipelines' \cup NoConfig
    BY <1>1, <1>4 DEF HasPipeline
  <1>6. /\ act'[a].pc = "idle" /\ \A b \in Actors \ {a} : act'[b] = act[b]
    BY <1>1, OneMoves DEF MarkDelivered
  <1>7. \A b \in Actors : act'[b].pc = "delivered" =>
          /\ act'[b].op \in Ops /\ HasPipeline(act'[b].op)
    BY <1>6, Reads DEF Delivering, Requests
  <1>8. \A p \in Ops : op'[p].delivered => HasPipeline(p)
    BY <1>2, <1>4 DEF Delivering
  <1>9. Delivering' <=>
          /\ \A b \in Actors : act'[b].pc = "delivered" =>
               /\ op'[act'[b].op].status = "applied"
               /\ op'[act'[b].op].sha \in pipelines' \cup NoConfig
          /\ \A p \in Ops : op'[p].delivered =>
               op'[p].status = "applied" /\ op'[p].sha \in pipelines' \cup NoConfig
    BY DEF Delivering, HasPipeline
  <1>. QED BY <1>5, <1>7, <1>8, <1>9

LEMMA NextDelivering == Typed /\ RowsBound /\ Delivering /\ [Next]_vars => Delivering'
  <1> SUFFICES ASSUME Typed, RowsBound, Delivering, [Next]_vars PROVE Delivering'
    OBVIOUS
  <1>0. ActTyped
    BY DEF Typed
  <1>1. ASSUME UNCHANGED <<op, pipelines, act>> PROVE Delivering'
    BY <1>1, RowsStayKeeps, KeepsDelivering
  <1>2. ASSUME NEW a \in Actors,
               \/ \E m \in MRs : StartMerge(a, m) \/ StartAbort(a, m)
               \/ PinTarget(a) \/ ReuseClaim(a) \/ RefuseClaim(a)
               \/ (\E o \in Ops : RecoverNext(a, o)) \/ RecoverAgain(a)
               \/ FindSettled(a) \/ LockToReconcile(a) \/ ReadMarker(a) \/ ReadProof(a)
        PROVE  Delivering'
    <2>1. UNCHANGED <<op, pipelines>> /\ \A b \in Actors \ {a} : act'[b] = act[b]
      BY <1>2, RequestMoves DEF dbVars
    <2>2. act'[a].pc # "delivered"
      <3>1. Idle.pc = "idle" /\ act[a] \in Requests
        BY Reads DEF Idle
      <3>2. CASE \/ ReuseClaim(a) \/ RefuseClaim(a) \/ FindSettled(a)
                 \/ LockToReconcile(a) \/ \E m \in MRs : StartAbort(a, m)
        BY <1>0, <3>2, OneMoves DEF ReuseClaim, RefuseClaim, FindSettled,
           LockToReconcile, StartAbort
      <3>3. CASE PinTarget(a) \/ RecoverAgain(a)
        BY <1>0, <3>1, <3>3 DEF PinTarget, RecoverAgain, ActTyped, Requests
      <3>4. ASSUME NEW m \in MRs, StartMerge(a, m) PROVE act'[a].pc # "delivered"
        BY <1>0, <3>1, <3>4 DEF StartMerge, ActTyped, Requests
      <3>5. ASSUME NEW o \in Ops, RecoverNext(a, o) PROVE act'[a].pc # "delivered"
        BY <1>0, <3>1, <3>5 DEF RecoverNext, ActTyped, Requests
      <3>6. CASE ReadMarker(a)
        BY <1>0, <3>1, <3>6 DEF ReadMarker, ActTyped, Requests
      <3>7. CASE ReadProof(a)
        <4>1. CASE act' = [act EXCEPT ![a].pc = "settle", ![a].out = prepared[act[a].op]]
          BY <1>0, <3>1, <4>1 DEF ActTyped, Requests
        <4>. QED BY <1>0, <3>7, <4>1, OneMoves DEF ReadProof
      <3>. QED BY <1>2, <3>2, <3>3, <3>4, <3>5, <3>6, <3>7
    <2>. QED BY <2>1, <2>2, OtherDelivering
  <1>3. ASSUME NEW a \in Actors, LockToExecute(a) \/ Reply(a) \/ Vanish(a) \/ Fail(a)
        PROVE  Delivering'
    <2>1. UNCHANGED <<op, pipelines>>
      BY <1>3 DEF LockToExecute, Reply, Vanish, Fail, dbVars
    <2>2. Idle.pc = "idle" /\ act[a] \in Requests
      BY Reads DEF Idle
    <2>3. act'[a].pc # "delivered" /\ \A b \in Actors \ {a} : act'[b] = act[b]
      BY <1>0, <1>3, <2>2, OneMoves DEF LockToExecute, Reply, Vanish, Fail, ActTyped,
         Requests
    <2>. QED BY <2>1, <2>3, OtherDelivering
  <1>4. ASSUME NEW a \in Actors, Handles(a) \/ Recovers(a) PROVE Delivering'
    BY <1>2, <1>3, <1>4, ClaimDelivering, SettleDelivering, DeliverDelivering,
       MarkDelivering DEF Handles, Recovers
  <1>5. ASSUME NEW a \in Actors, JobRuns(a) \/ JobFail(a) PROVE Delivering'
    BY <1>1, <1>5 DEF JobRuns, JobStart, JobDecide, JobLand, JobRecord, JobFail, dbVars
  <1>6. ASSUME NEW m \in MRs, UpdateState(m) PROVE Delivering'
    BY <1>1, <1>6 DEF UpdateState
  <1>7. ASSUME NEW b \in Branches, Push(b) \/ Rewind(b) PROVE Delivering'
    BY <1>1, <1>7, WriteMoves
  <1>8. CASE UNCHANGED vars
    BY <1>1, <1>8 DEF vars, dbVars
  <1>. QED BY <1>2, <1>3, <1>4, <1>5, <1>6, <1>7, <1>8 DEF Next

\* A delivered merge has its push pipeline, or no .gity-ci.yml to make one
\* from, whoever created it and whichever of several requests marked the row.
THEOREM PipelineBeforeMark == Spec => []DeliveredHasPipeline
  <1>1. Init => Typed /\ RowsBound /\ Delivering
    BY InitTyped, InitRows, InitDelivering
  <1>2. Typed /\ RowsBound /\ Delivering /\ [Next]_vars
          => (Typed /\ RowsBound /\ Delivering)'
    BY NextTyped, NextRows, NextDelivering
  <1>3. Delivering => DeliveredHasPipeline
    BY DEF Delivering, HasPipeline, DeliveredHasPipeline
  <1>. QED BY <1>1, <1>2, <1>3, PTL DEF Spec

=============================================================================
