--------------------------- MODULE GitClusterProofs ---------------------------
(***************************************************************************)
(* Theorems about GitCluster for any number of nodes, writers, replication *)
(* workers and promotions.                                                 *)
(***************************************************************************)
EXTENDS GitCluster, TLAPS

(***************************************************************************)
(* The inductive invariant.  A call is engaged while it names a node: from *)
(* its first remote request to the moment its caller has returned and the  *)
(* node has nothing left to execute for it.                                *)
(***************************************************************************)
Engaged(c) == call[c].node # None
Active == {"waiting", "claimed", "copying", "fencing", "frozen", "syncing", "activating"}

\* A caller that waits, and a job that exists, know the nodes they talk to.
Routed ==
  \A c \in Callers :
    /\ ~Engaged(c) => call[c].phase \notin Active /\ job[c].stage = "none"
    /\ call[c].phase = "idle" => ~Engaged(c)
    /\ Engaged(c) /\ c \notin Writers => call[c].src \in Nodes

\* The repository lock of a node is held by one job at a time, and only by the
\* operations that are more than one step long.
LockExclusive ==
  \A c \in Callers : Holding(c) =>
    /\ job[c].kind \in {"init", "write", "sync"}
    /\ \A d \in Callers : Holding(d) /\ JobNode(d) = JobNode(c) => d = c

\* While a synchronization or an initialization holds the lock, the role and
\* the epoch it checked when it started still are what it checked.
CheckedStateHolds ==
  \A c \in Callers : Holding(c) =>
    /\ job[c].kind = "sync" =>
         /\ role[call[c].node] \in {"replica", "fenced", "initReplica"}
         /\ epoch[call[c].node] <= call[c].epoch
    /\ job[c].kind = "init" => role[call[c].node] = "initPrimary"

\* The old primary has answered the fence of the transition under way.
PrimaryFenced ==
  /\ epoch[row.primary] = row.epoch + 1
  /\ role[row.primary] = "fenced" \/ row.target = row.primary

PastFence(p) ==
  \/ call[p].phase \in {"frozen", "syncing", "activating"}
  \/ job[p].kind \in {"sync", "activate"}
  \/ job[p].stage = "done"

\* No request is ahead of the row, except those of the transition under way; a
\* request behind it finds a node that has already stored a later epoch.
NoneAhead ==
  \A c \in Callers : Engaged(c) =>
    /\ c \in Writers \cup Syncs => call[c].epoch <= row.epoch
    /\ c \in Promoters => call[c].epoch <= row.epoch + 1
    /\ c \notin Syncs /\ call[c].epoch < row.epoch
         => epoch[call[c].node] > call[c].epoch
    /\ c \notin Syncs /\ call[c].epoch = row.epoch => call[c].node = row.primary

Transition ==
  \A p \in Promoters : Engaged(p) =>
    /\ call[p].epoch = row.epoch + 1 =>
         /\ row.state = "moving" /\ row.target = call[p].node
         /\ row.primary = call[p].src
         /\ PastFence(p) => PrimaryFenced
    /\ job[p].kind = "sync" => call[p].node # call[p].src
    /\ p \in row.latest /\ call[p].phase \in Active => call[p].epoch = row.epoch + 1

\* Who may say it is the primary: the node of the row, or the target of the
\* transition once the old primary is fenced.  Creation happens at epoch 1.
OwnersKnown ==
  \A n \in Nodes :
    /\ role[n] = "primary" =>
         \/ n = row.primary /\ epoch[n] = row.epoch
         \/ /\ row.state = "moving" /\ n = row.target /\ epoch[n] = row.epoch + 1
            /\ PrimaryFenced
    /\ role[n] = "absent" => epoch[n] = 0
    /\ role[n] = "initPrimary" => n = row.primary /\ epoch[n] = 1 /\ row.epoch = 1

OwnershipInv ==
  /\ TypeOK /\ Routed /\ LockExclusive /\ CheckedStateHolds
  /\ row.epoch > 0 /\ NoneAhead /\ Transition /\ OwnersKnown

\* What the type of each record-valued variable says of its fields.
LEMMA CallFields ==
  ASSUME TypeOK, NEW c \in Callers
  PROVE  /\ call[c].phase \in Phases
         /\ call[c].node \in Nodes \cup {None} /\ call[c].src \in Nodes \cup {None}
         /\ call[c].epoch \in Nat /\ call[c].mark \in Nat
         /\ call[c].snap \in SUBSET Writers
         /\ job[c].kind \in Kinds /\ job[c].stage \in Stages
         /\ job[c].got \in SUBSET Writers
BY DEF TypeOK, Call, Job

LEMMA RowFields ==
  ASSUME TypeOK
  PROVE  /\ row.primary \in Nodes /\ row.target \in Nodes \cup {None}
         /\ row.epoch \in Nat /\ row.generation \in Nat /\ row.pending \in Nat
         /\ row.state \in {"ready", "moving"}
         /\ row.replicas \in [Nodes -> Replica]
         /\ row.latest \in SUBSET Promoters
BY DEF TypeOK, Placement

LEMMA RowType == TypeOK => row \in Placement
BY DEF TypeOK

LEMMA CallType == TypeOK => call \in [Callers -> Call]
BY DEF TypeOK

\* The updates of the row that count.
LEMMA PendingType ==
  ASSUME TypeOK, NEW i \in Nat, row' = [row EXCEPT !.pending = i, !.latest = {}]
  PROVE  row' \in Placement
BY RowType DEF Placement

LEMMA SettledType ==
  ASSUME TypeOK, NEW i \in Nat, NEW g \in Nat,
         row' = [row EXCEPT !.pending = i, !.generation = g, !.latest = {}]
  PROVE  row' \in Placement
BY RowType DEF Placement

LEMMA CompletedType ==
  ASSUME TypeOK, NEW n \in Nodes, NEW e \in Nat, NEW g \in Nat,
         NEW R \in [Nodes -> Replica],
         row' = [row EXCEPT !.primary = n, !.target = None, !.epoch = e,
                   !.generation = g, !.pending = 0, !.state = "ready",
                   !.replicas = R, !.latest = {}]
  PROVE  row' \in Placement
BY RowType DEF Placement

LEMMA WaitingType ==
  ASSUME TypeOK, NEW c \in Callers, NEW n \in Nodes, NEW e \in Nat,
         call' = [call EXCEPT ![c].phase = "waiting", ![c].node = n, ![c].epoch = e]
  PROVE  call' \in [Callers -> Call]
<1>1. [call[c] EXCEPT !.phase = "waiting", !.node = n, !.epoch = e] \in Call
  BY CallType DEF Call, Phases
<1>2. call' = [call EXCEPT ![c] =
                [call[c] EXCEPT !.phase = "waiting", !.node = n, !.epoch = e]]
  BY CallType
<1>3. QED
  BY <1>1, <1>2, CallType

\* A caller that remembers a set of references keeps its type.
LEMMA CopyingType ==
  ASSUME TypeOK, NEW c \in Callers, NEW phase \in {"copying", "frozen"},
         NEW S \in SUBSET Writers,
         call' = [call EXCEPT ![c].phase = phase, ![c].snap = S]
  PROVE  call' \in [Callers -> Call]
<1>1. [call[c] EXCEPT !.phase = phase, !.snap = S] \in Call
  BY ZenonT(30), CallType DEF Call, Phases
<1>2. call' = [call EXCEPT ![c] = [call[c] EXCEPT !.phase = phase, !.snap = S]]
  BY CallType
<1>3. QED
  BY <1>1, <1>2, CallType

LEMMA SmallTypes ==
  /\ IdleCall \in Call /\ NoJob \in Job
  /\ Unassigned \in Replica /\ Pending \in Replica
  /\ \A S : Assign(S) \in [Nodes -> Replica]
  /\ \A kind \in Kinds : Ask(kind) \in Job
BY DEF IdleCall, NoJob, Unassigned, Pending, Assign, Ask, Call, Job, Replica,
       Phases, Kinds, Stages

\* Changing the stage of one job, or the phase of one caller, keeps the types.
LEMMA StageType ==
  ASSUME TypeOK, NEW c \in Callers, NEW stage \in Stages, SetStage(c, stage)
  PROVE  job' \in [Callers -> Job]
BY DEF TypeOK, SetStage, Job

LEMMA PhaseType ==
  ASSUME TypeOK, NEW c \in Callers, NEW phase \in Phases, SetPhase(c, phase)
  PROVE  call' \in [Callers -> Call]
BY SMTT(30) DEF TypeOK, SetPhase, Call

LEMMA ReturnType ==
  ASSUME TypeOK, NEW c \in Callers, NEW phase \in Phases, Return(c, phase)
  PROVE  call' \in [Callers -> Call] /\ job' \in [Callers -> Job]
<1>1. CASE job[c].stage \in Ended
  <2>1. [IdleCall EXCEPT !.phase = phase] \in Call
    BY SmallTypes DEF Call
  <2>2. QED
    BY <1>1, <2>1, SmallTypes DEF TypeOK, Return
<1>2. CASE job[c].stage \notin Ended
  BY <1>2, PhaseType DEF TypeOK, Return
<1>3. QED
  BY <1>1, <1>2

LEMMA RoutedNodes ==
  ASSUME TypeOK, Routed, NEW c \in Callers,
         call[c].phase \in Active \/ job[c].stage # "none"
  PROVE  call[c].node \in Nodes /\ (c \notin Writers => call[c].src \in Nodes)
BY CallFields DEF Routed, Engaged

\* The numbers that are compared with each other are numbers.
LEMMA EpochsAreNumbers ==
  ASSUME TypeOK
  PROVE  /\ row.epoch \in Nat
         /\ \A n \in Nodes : epoch[n] \in Nat
         /\ \A c \in Callers : call[c].epoch \in Nat
BY RowFields, CallFields DEF TypeOK

LEMMA Disjoint ==
  /\ Writers \cap (Syncs \cup Promoters) = {} /\ Syncs \cap Promoters = {}
  /\ None \notin Nodes
BY ClusterAssumption DEF ClusterAssumption

LEMMA WriteStepType == ASSUME TypeOK, NEW w \in Writers, WriteStep(w) PROVE TypeOK'
<1>0. w \in Callers
  BY DEF Callers
<1>1. CASE BeginWrite(w)
  <2>1. row' \in Placement
    <3>1. row' = [row EXCEPT !.pending = row.pending + 1, !.latest = {}]
      BY <1>1 DEF BeginWrite
    <3>2. row.pending + 1 \in Nat
      BY RowFields
    <3>3. QED
      BY <3>1, <3>2, PendingType
  <2>2. call' \in [Callers -> Call]
    <3>1. call' = [call EXCEPT ![w].phase = "waiting", ![w].node = row.primary,
                               ![w].epoch = row.epoch]
      BY <1>1 DEF BeginWrite
    <3>2. row.primary \in Nodes /\ row.epoch \in Nat
      BY RowFields
    <3>3. QED
      BY <1>0, <3>1, <3>2, WaitingType
  <2>3. job' \in [Callers -> Job]
    BY <1>0, <1>1, SmallTypes DEF BeginWrite, TypeOK, Kinds
  <2>4. QED
    BY <1>1, <2>1, <2>2, <2>3 DEF BeginWrite, TypeOK, nodeVars
<1>2. CASE StartWrite(w)
  BY <1>0, <1>2, StageType DEF StartWrite, TypeOK, nodeVars, Stages
<1>3. CASE StartInit(w)
  BY <1>0, <1>3, StageType DEF StartInit, TypeOK, Stages, Roles
<1>4. CASE RunWrite(w)
  BY <1>0, <1>4, StageType DEF RunWrite, TypeOK, Stages, Roles
<1>5. CASE FinishWrite(w)
  <2>1. row' \in Placement
    <3>1. \/ row' = row
          \/ /\ row.pending > 0
             /\ row' = [row EXCEPT !.pending = row.pending - 1,
                                   !.generation = row.generation + 1, !.latest = {}]
      BY <1>5 DEF FinishWrite
    <3>2. row.generation + 1 \in Nat /\ (row.pending > 0 => row.pending - 1 \in Nat)
      BY RowFields
    <3>3. QED
      BY <3>1, <3>2, RowType, SettledType
  <2>2. \E phase \in Phases : Return(w, phase)
    BY <1>5 DEF FinishWrite, Phases
  <2>3. QED
    BY <1>0, <1>5, <2>1, <2>2, ReturnType DEF FinishWrite, TypeOK, nodeVars
<1>6. CASE GiveUp(w)
  BY <1>0, <1>6, ReturnType DEF GiveUp, TypeOK, nodeVars, Phases
<1>7. CASE LandOrphan(w)
  BY <1>0, <1>7, StageType DEF LandOrphan, TypeOK, Stages
<1>8. CASE RejectStopping(w)
  BY <1>0, <1>8, StageType DEF RejectStopping, TypeOK, nodeVars, Stages
<1>9. QED
  BY <1>1, <1>2, <1>3, <1>4, <1>5, <1>6, <1>7, <1>8 DEF WriteStep

LEMMA RecordSyncType ==
  ASSUME TypeOK, Routed, NEW s \in Syncs, NEW ready \in BOOLEAN,
         call[s].phase \in Active, RecordSync(s, ready)
  PROVE  row' \in Placement
<1>0. s \in Callers
  BY DEF Callers
<1>1. [status |-> "ready", generation |-> call[s].mark, sync |-> None] \in Replica
  BY <1>0, CallFields DEF Replica
<1>2. ASSUME NEW n \in Nodes, NEW r \in Replica,
             row' = [row EXCEPT !.latest = {}, !.replicas[n] = r]
      PROVE  row' \in Placement
  BY <1>2, RowFields DEF TypeOK, Placement
<1>3. CASE row' = row
  BY <1>3, RowType
<1>4. CASE row' # row
  <2>1. call[s].node \in Nodes
    BY <1>0, RoutedNodes DEF Active
  <2>2. PICK r \in Replica :
          row' = [row EXCEPT !.latest = {}, !.replicas[call[s].node] = r]
    BY <1>1, <1>4, SmallTypes DEF RecordSync
  <2>3. QED
    BY <1>2, <2>1, <2>2
<1>5. QED
  BY <1>3, <1>4

LEMMA ReplicateStepType ==
  ASSUME TypeOK, Routed, NEW s \in Syncs, ReplicateStep(s)
  PROVE  TypeOK'
<1>0. s \in Callers
  BY DEF Callers
<1>1. CASE \E n \in Nodes : ClaimSync(s, n)
  <2>1. PICK n \in Nodes : ClaimSync(s, n)
    BY <1>1
  <2>2. [row.replicas[n] EXCEPT !.status = "syncing", !.sync = s] \in Replica
    BY RowFields DEF Replica
  <2>3. row' \in Placement
    BY <2>1, <2>2, RowFields DEF ClaimSync, TypeOK, Placement
  <2>4. call' \in [Callers -> Call]
    BY <1>0, <2>1, RowFields DEF ClaimSync, TypeOK, Call, Phases
  <2>5. QED
    BY <2>1, <2>3, <2>4 DEF ClaimSync, TypeOK, nodeVars
<1>2. CASE SnapshotSource(s)
  <2>1. call' \in [Callers -> Call]
    <3>1. refs[call[s].src] \in SUBSET Writers
      BY <1>0, <1>2, RoutedNodes, Disjoint DEF SnapshotSource, TypeOK, Active
    <3>2. QED
      BY <1>0, <1>2, <3>1, CopyingType DEF SnapshotSource
  <2>2. job' \in [Callers -> Job]
    BY <1>0, <1>2 DEF SnapshotSource, TypeOK, Job, Ask, Kinds, Stages
  <2>3. QED
    BY <1>2, <2>1, <2>2 DEF SnapshotSource, TypeOK, nodeVars
<1>3. CASE FinishSync(s)
  BY <1>0, <1>3, RecordSyncType, ReturnType DEF FinishSync, Active, TypeOK, nodeVars,
     Phases
<1>4. CASE AbortSync(s)
  BY <1>0, <1>4, RecordSyncType, ReturnType DEF AbortSync, Active, TypeOK, nodeVars,
     Phases
<1>5. CASE LoseSync(s)
  BY <1>0, <1>5, ReturnType DEF LoseSync, TypeOK, nodeVars, Phases
<1>6. CASE NextTick(s)
  BY <1>0, <1>6, ReturnType DEF NextTick, TypeOK, nodeVars, Phases
<1>7. QED
  BY <1>1, <1>2, <1>3, <1>4, <1>5, <1>6 DEF ReplicateStep

LEMMA CopyStepType ==
  ASSUME TypeOK, Routed, NEW c \in Syncs \cup Promoters, CopyStep(c) PROVE TypeOK'
<1>0. c \in Callers
  BY DEF Callers
<1>1. CASE StartSync(c)
  BY <1>0, <1>1, CallFields, StageType DEF StartSync, Copyable, TypeOK, Stages, Roles
<1>2. CASE FetchBundle(c)
  <2>1. refs[call[c].src] \in SUBSET Writers
    BY <1>0, <1>2, RoutedNodes, Disjoint DEF FetchBundle, TypeOK
  <2>2. job' \in [Callers -> Job]
    BY ZenonT(30), <1>0, <1>2, <2>1 DEF FetchBundle, TypeOK, Job, Stages
  <2>3. QED
    BY <1>2, <2>2 DEF FetchBundle, TypeOK, nodeVars
<1>3. CASE ApplyBundle(c)
  BY <1>0, <1>3, CallFields, StageType DEF ApplyBundle, TypeOK, Stages
<1>4. CASE SaveReplica(c)
  BY <1>0, <1>4, CallFields, StageType DEF SaveReplica, TypeOK, Stages, Roles
<1>5. CASE FailSync(c)
  BY <1>0, <1>5, StageType DEF FailSync, TypeOK, nodeVars, Stages
<1>6. QED
  BY <1>1, <1>2, <1>3, <1>4, <1>5 DEF CopyStep

LEMMA PromoteStepType ==
  ASSUME TypeOK, Routed, NEW p \in Promoters, PromoteStep(p) PROVE TypeOK'
<1>0. p \in Callers
  BY DEF Callers
<1>1. CASE \E t \in Nodes : StartPromote(p, t)
  <2>1. PICK t \in Nodes : StartPromote(p, t)
    BY <1>1
  <2>2. row' \in Placement
    <3>1. \E S \in SUBSET Promoters :
             row' = [row EXCEPT !.state = "moving", !.target = t, !.latest = S]
      <4>1. CASE row' = [row EXCEPT !.state = "moving", !.target = t, !.latest = {p}]
        BY <4>1
      <4>2. CASE /\ row.state = "moving" /\ row.target = t
                 /\ row' = [row EXCEPT !.latest = row.latest \cup {p}]
        <5>1. row' = [row EXCEPT !.state = "moving", !.target = t,
                                 !.latest = row.latest \cup {p}]
          BY <4>2, RowType DEF Placement
        <5>2. QED
          BY <5>1, RowFields
      <4>3. QED
        BY <2>1, <4>1, <4>2 DEF StartPromote
    <3>2. QED
      BY <3>1, RowType DEF Placement
  <2>3. call' \in [Callers -> Call]
    BY <1>0, <2>1, RowFields DEF StartPromote, TypeOK, Call, Phases
  <2>4. job' \in [Callers -> Job]
    BY <1>0, <2>1, SmallTypes DEF StartPromote, TypeOK, Kinds
  <2>5. QED
    BY <2>1, <2>2, <2>3, <2>4 DEF StartPromote, TypeOK, nodeVars
<1>2. CASE ExecFence(p)
  <2>1. refs[call[p].src] \in SUBSET Writers
    BY <1>0, <1>2, RoutedNodes, Disjoint DEF ExecFence, AlreadyFenced, Fenceable,
       Queued, TypeOK
  <2>2. job' \in [Callers -> Job]
    BY <1>0, <1>2, <2>1 DEF ExecFence, AlreadyFenced, Fenceable, SetStage, TypeOK, Job,
       Stages
  <2>3. QED
    BY <1>0, <1>2, <2>2, CallFields DEF ExecFence, AlreadyFenced, Fenceable, TypeOK, Roles
<1>3. CASE Frozen(p)
  <2>1. job[p].got \in SUBSET Writers
    BY <1>0, CallFields
  <2>2. QED
    BY <1>0, <1>3, <2>1, CopyingType DEF Frozen, TypeOK, nodeVars, Phases
<1>4. CASE CheckTarget(p)
  BY <1>0, <1>4, PhaseType, SmallTypes DEF CheckTarget, TypeOK, nodeVars, Phases, Kinds
<1>5. CASE TargetSynced(p)
  BY <1>0, <1>5, PhaseType, SmallTypes DEF TargetSynced, TypeOK, nodeVars, Phases, Kinds
<1>6. CASE ExecActivate(p)
  <2>1. refs[call[p].node] \in SUBSET Writers
    BY <1>0, <1>6, RoutedNodes DEF ExecActivate, Activatable, Queued, TypeOK
  <2>2. job' \in [Callers -> Job]
    BY SMTT(30), <1>0, <1>6, <2>1 DEF ExecActivate, Activatable, SetStage, TypeOK, Job,
       Stages
  <2>3. QED
    BY <1>0, <1>6, <2>2, CallFields DEF ExecActivate, Activatable, TypeOK, Roles
<1>7. CASE CompletePromote(p)
  <2>1. \E phase \in Phases : Return(p, phase)
    BY <1>7 DEF CompletePromote, Phases
  <2>2. row' \in Placement
    <3>1. CASE p \in row.latest
      <4>1. PICK S \in SUBSET Nodes :
              row' = [row EXCEPT !.primary = call[p].node, !.target = None,
                        !.epoch = call[p].epoch,
                        !.generation = row.generation + 1,
                        !.pending = 0, !.state = "ready",
                        !.replicas = Assign(S), !.latest = {}]
        <5>1. \E S \in Assignments(
                    (({row.primary} \ {call[p].node})
                      \cup {n \in Nodes : row.replicas[n].status # "none"})
                    \ {call[p].node}, {row.primary} \ {call[p].node}) :
                row' = [row EXCEPT !.primary = call[p].node, !.target = None,
                          !.epoch = call[p].epoch,
                        !.generation = row.generation + 1,
                          !.pending = 0, !.state = "ready",
                          !.replicas = Assign(S), !.latest = {}]
          BY <1>7, <3>1 DEF CompletePromote
        <5>2. QED
          BY <5>1, RowFields DEF Assignments
      <4>2. call[p].node \in Nodes
        BY <1>0, <1>7, RoutedNodes DEF CompletePromote, Active
      <4>3. QED
        <5>1. call[p].epoch \in Nat /\ Assign(S) \in [Nodes -> Replica]
          BY <1>0, CallFields, SmallTypes
        <5>2. row.generation + 1 \in Nat
          BY RowFields
        <5>3. QED
          BY <4>1, <4>2, <5>1, <5>2, CompletedType
    <3>2. QED
      BY <1>7, <3>1 DEF CompletePromote, TypeOK
  <2>3. QED
    BY <1>0, <1>7, <2>1, <2>2, ReturnType DEF CompletePromote, TypeOK, nodeVars
<1>8. CASE FailPromote(p)
  BY <1>0, <1>8, ReturnType DEF FailPromote, TypeOK, nodeVars, Phases
<1>9. QED
  BY <1>1, <1>2, <1>3, <1>4, <1>5, <1>6, <1>7, <1>8 DEF PromoteStep

LEMMA NodeStepType == ASSUME TypeOK, NEW n \in Nodes, NodeStep(n) PROVE TypeOK'
<1>1. CASE Crash(n)
  BY <1>1 DEF Crash, TypeOK, nodeVars, Job, Stages
<1>2. CASE Stop(n)
  BY <1>2 DEF Stop, TypeOK, nodeVars, Job, Stages
<1>3. CASE Restart(n)
  BY <1>3 DEF Restart, TypeOK, nodeVars, Job, Stages
<1>4. QED
  BY <1>1, <1>2, <1>3 DEF NodeStep

LEMMA InitType == Init => TypeOK
<1> SUFFICES ASSUME Init PROVE TypeOK
  OBVIOUS
<1>1. row \in Placement
  BY SmallTypes DEF Init, Placement, Assignments
<1>2. role \in [Nodes -> Roles] /\ epoch \in [Nodes -> Nat]
  BY DEF Init, Roles
<1>3. reader \in [Readers -> Handle]
  BY DEF Init, Handle
<1>4. QED
  BY <1>1, <1>2, <1>3, SmallTypes DEF Init, TypeOK

LEMMA NextType == TypeOK /\ Routed /\ [Next]_vars => TypeOK'
<1> SUFFICES ASSUME TypeOK, Routed, [Next]_vars PROVE TypeOK'
  OBVIOUS
<1>1. CASE \E r \in Readers : RouteRead(r)
  <2>1. PICK r \in Readers : RouteRead(r)
    BY <1>1
  <2>2. Readable \subseteq Nodes /\ Acked \subseteq Writers
    BY RowFields DEF Readable, Acked
  <2>3. reader' \in [Readers -> Handle]
    BY <2>1, <2>2, RowFields DEF RouteRead, TypeOK, Handle
  <2>4. QED
    BY <2>1, <2>3 DEF RouteRead, TypeOK, nodeVars
<1>2. CASE UNCHANGED vars
  BY <1>2 DEF TypeOK, vars
<1>3. QED
  BY <1>1, <1>2, WriteStepType, ReplicateStepType, CopyStepType, PromoteStepType,
     NodeStepType DEF Next

\* Every reachable state has the types of the records the code stores: in
\* particular the count of pending writes never becomes negative.

(***************************************************************************)
(* Steps that change neither ownership nor the lock.                       *)
(***************************************************************************)
Disengaged(c) == ~Engaged(c) /\ call[c].phase \notin Active /\ job[c].stage = "none"

Carried(c) ==
  /\ Engaged(c)
  /\ call'[c].node = call[c].node /\ call'[c].src = call[c].src
  /\ call'[c].epoch = call[c].epoch
  /\ call'[c].phase \in Active => call[c].phase \in Active
  /\ call'[c].phase # "idle"
  /\ Holding(c)' => Holding(c) /\ job'[c].kind = job[c].kind
  /\ PastFence(c)' => PastFence(c) \/ c \notin Promoters
  /\ job'[c].kind = "sync" => \/ job[c].kind = "sync" \/ call[c].node # call[c].src
                              \/ c \notin Promoters

SameOwner ==
  /\ row'.primary = row.primary /\ row'.target = row.target
  /\ row'.epoch = row.epoch /\ row'.state = row.state
  /\ row'.latest \subseteq row.latest

Quiet ==
  /\ role' = role /\ epoch' = epoch /\ SameOwner
  /\ \A c \in Callers : Disengaged(c)' \/ Carried(c)

LEMMA QuietStep == ASSUME OwnershipInv, TypeOK', Quiet PROVE OwnershipInv'
<1>1. Routed'
  BY DEF OwnershipInv, Quiet, Disengaged, Carried, Routed, Engaged
<1>2. ASSUME NEW c \in Callers, Holding(c)'
      PROVE  /\ Holding(c) /\ Engaged(c) /\ job'[c].kind = job[c].kind
             /\ call'[c].node = call[c].node /\ call'[c].epoch = call[c].epoch
             /\ JobNode(c)' = JobNode(c)
  BY <1>2 DEF OwnershipInv, Quiet, Disengaged, Carried, Holding, JobNode, LockExclusive
<1>3. LockExclusive'
  BY <1>2 DEF OwnershipInv, LockExclusive
<1>4. CheckedStateHolds'
  BY <1>2 DEF OwnershipInv, CheckedStateHolds, Quiet
<1>5. row'.epoch > 0
  BY DEF OwnershipInv, Quiet, SameOwner
<1>6. NoneAhead'
  BY DEF OwnershipInv, NoneAhead, Quiet, SameOwner, Disengaged, Carried, Engaged
<1>7. PrimaryFenced => PrimaryFenced'
  BY DEF PrimaryFenced, Quiet, SameOwner
<1>8. Transition'
  <2> SUFFICES ASSUME NEW p \in Promoters, Engaged(p)'
               PROVE  /\ call'[p].epoch = row'.epoch + 1 =>
                           /\ row'.state = "moving" /\ row'.target = call'[p].node
                           /\ row'.primary = call'[p].src
                           /\ PastFence(p)' => PrimaryFenced'
                      /\ job'[p].kind = "sync" => call'[p].node # call'[p].src
                      /\ p \in row'.latest /\ call'[p].phase \in Active
                           => call'[p].epoch = row'.epoch + 1
    BY DEF Transition
  <2>1. Carried(p)
    BY DEF Quiet, Disengaged, Callers
  <2>2. QED
    BY <1>7, <2>1 DEF OwnershipInv, Transition, Carried, Quiet, SameOwner
<1>9. OwnersKnown'
  BY <1>7 DEF OwnershipInv, OwnersKnown, Quiet, SameOwner
<1>10. QED
  BY <1>1, <1>3, <1>4, <1>5, <1>6, <1>8, <1>9 DEF OwnershipInv

\* A caller that a step does not touch is carried, or stays disengaged.
LEMMA Untouched ==
  ASSUME OwnershipInv, NEW c \in Callers, call'[c] = call[c], job'[c] = job[c]
  PROVE  Disengaged(c)' \/ Carried(c)
BY DEF OwnershipInv, Routed, Disengaged, Carried, Engaged, Holding, PastFence

LEMMA SetStageEffect ==
  ASSUME TypeOK, NEW c \in Callers, NEW stage \in Stages, SetStage(c, stage)
  PROVE  /\ job'[c].kind = job[c].kind /\ job'[c].stage = stage
         /\ \A d \in Callers : d # c => job'[d] = job[d]
BY DEF TypeOK, SetStage, Job

LEMMA SetPhaseEffect ==
  ASSUME TypeOK, NEW c \in Callers, NEW phase \in Phases, SetPhase(c, phase)
  PROVE  /\ call'[c].node = call[c].node /\ call'[c].src = call[c].src
         /\ call'[c].epoch = call[c].epoch /\ call'[c].phase = phase
         /\ \A d \in Callers : d # c => call'[d] = call[d]
BY DEF TypeOK, SetPhase, Call

\* A job that makes progress or ends without touching the ownership state.
LEMMA QuietStage ==
  ASSUME OwnershipInv, NEW c \in Callers, NEW stage \in Stages \ {"none"},
         job[c].stage # "none", call'[c] = call[c],
         job'[c].kind = job[c].kind, job'[c].stage = stage,
         stage \in {"running", "fetched", "applied"} => Holding(c),
         stage = "done" => c \notin Promoters
  PROVE  Carried(c)
BY DEF OwnershipInv, Routed, Carried, Engaged, Holding, PastFence

\* A caller that returns leaves nothing behind, or only what the node still has.
LEMMA QuietReturn ==
  ASSUME OwnershipInv, NEW c \in Callers, NEW phase \in Phases \ Active,
         call[c].phase \in Active \/ call[c].phase = "finished", Return(c, phase),
         phase = "idle" => job[c].stage \in Ended
  PROVE  \A d \in Callers : Disengaged(d)' \/ Carried(d)
<1> TypeOK
  BY DEF OwnershipInv
<1>1. ASSUME NEW d \in Callers, d # c PROVE Disengaged(d)' \/ Carried(d)
  <2>1. call'[d] = call[d] /\ job'[d] = job[d]
    BY <1>1, SetPhaseEffect DEF Return, TypeOK
  <2>2. QED
    BY <2>1, Untouched
<1>2. CASE job[c].stage \in Ended
  <2>1. call'[c] = [IdleCall EXCEPT !.phase = phase] /\ job'[c] = NoJob
    BY <1>2 DEF Return, TypeOK
  <2>2. call'[c].node = None /\ call'[c].phase = phase /\ job'[c].stage = "none"
    BY <2>1 DEF IdleCall, NoJob
  <2>3. QED
    BY <1>1, <2>2 DEF Disengaged, Engaged
<1>3. CASE job[c].stage \notin Ended
  <2>1. SetPhase(c, phase) /\ job' = job
    BY <1>3 DEF Return
  <2>2. Engaged(c)
    BY <1>3 DEF OwnershipInv, Routed, Ended
  <2>3. phase \notin {"frozen", "syncing", "activating"}
    BY DEF Active
  <2>4. Carried(c)
    BY <1>3, <2>1, <2>2, <2>3, SetPhaseEffect DEF Carried, Holding, PastFence
  <2>5. QED
    BY <1>1, <2>4
<1>4. QED
  BY <1>2, <1>3

LEMMA QuietOneStage ==
  ASSUME OwnershipInv, NEW c \in Callers, NEW stage \in Stages \ {"none"},
         SetStage(c, stage), call' = call, job[c].stage # "none",
         stage \in {"running", "fetched", "applied"} => Holding(c),
         stage = "done" => c \notin Promoters
  PROVE  \A d \in Callers : Disengaged(d)' \/ Carried(d)
<1> TypeOK
  BY DEF OwnershipInv
<1>1. Carried(c)
  BY SetStageEffect, QuietStage
<1>2. ASSUME NEW d \in Callers, d # c PROVE Disengaged(d)' \/ Carried(d)
  BY <1>2, SetStageEffect, Untouched
<1>3. QED
  BY <1>1, <1>2

LEMMA QuietWriters ==
  ASSUME OwnershipInv, NEW w \in Writers,
         \/ FinishWrite(w) \/ GiveUp(w) \/ LandOrphan(w) \/ RejectStopping(w)
         \/ StartWrite(w) /\ ~Writable(call[w].node, call[w].epoch)
         \/ RunWrite(w) /\ role' = role
  PROVE  Quiet
<1>0. w \in Callers /\ TypeOK
  BY DEF Callers, OwnershipInv
<1>1. CASE FinishWrite(w)
  <2>1. SameOwner
    <3>1. \/ row' = row
          \/ row' = [row EXCEPT !.pending = row.pending - 1,
                                !.generation = row.generation + 1, !.latest = {}]
      BY <1>1 DEF FinishWrite
    <3>2. QED
      BY <1>0, <3>1, RowType DEF SameOwner, Placement
  <2>2. \E phase \in Phases \ Active : phase # "idle" /\ Return(w, phase)
    BY <1>1 DEF FinishWrite, Phases, Active
  <2>3. QED
    BY <1>0, <1>1, <2>1, <2>2, QuietReturn DEF FinishWrite, Quiet, Active, nodeVars
<1>2. CASE GiveUp(w)
  <2>1. "uncertain" \in Phases \ Active /\ call[w].phase \in Active
    BY <1>2 DEF GiveUp, Phases, Active
  <2>2. QED
    BY <1>0, <1>2, <2>1, QuietReturn DEF GiveUp, Quiet, SameOwner, nodeVars
<1>3. CASE LandOrphan(w)
  BY <1>0, <1>3, QuietOneStage DEF LandOrphan, Quiet, SameOwner, Stages
<1>4. CASE RejectStopping(w)
  BY <1>0, <1>4, QuietOneStage DEF RejectStopping, Quiet, SameOwner, Stages, nodeVars
<1>5. CASE StartWrite(w) /\ ~Writable(call[w].node, call[w].epoch)
  BY <1>0, <1>5, QuietOneStage
     DEF StartWrite, Queued, Quiet, SameOwner, Stages, nodeVars
<1>6. CASE RunWrite(w) /\ role' = role
  <2>1. \E stage \in {"done", "rejected"} : SetStage(w, stage)
    BY <1>6 DEF RunWrite
  <2>2. w \notin Promoters /\ job[w].stage # "none"
    BY <1>6, Disjoint DEF RunWrite
  <2>3. QED
    BY <1>0, <1>6, <2>1, <2>2, QuietOneStage DEF RunWrite, Quiet, SameOwner, Stages
<1>7. QED
  BY <1>1, <1>2, <1>3, <1>4, <1>5, <1>6

LEMMA QuietReplication ==
  ASSUME OwnershipInv, NEW s \in Syncs,
         SnapshotSource(s) \/ FinishSync(s) \/ AbortSync(s) \/ LoseSync(s) \/ NextTick(s)
  PROVE  Quiet
<1>0. s \in Callers /\ s \notin Promoters /\ TypeOK /\ Routed
  BY Disjoint DEF Callers, OwnershipInv
<1>1. ASSUME NEW ready \in BOOLEAN, RecordSync(s, ready) PROVE SameOwner
  <2>1. \/ row' = row
        \/ \E r : row' = [row EXCEPT !.latest = {}, !.replicas[call[s].node] = r]
    BY <1>1 DEF RecordSync
  <2>2. QED
    BY <1>0, <2>1, RowType DEF SameOwner, Placement
<1>2. "finished" \in Phases \ Active /\ "idle" \in Phases \ Active
  BY DEF Phases, Active
<1>3. CASE SnapshotSource(s)
  <2>1. Carried(s)
    <3>1. /\ call'[s].node = call[s].node /\ call'[s].src = call[s].src
          /\ call'[s].epoch = call[s].epoch /\ call'[s].phase = "copying"
      BY <1>0, <1>3, CallType DEF SnapshotSource, Call
    <3>2. job'[s].kind = "sync" /\ job'[s].stage \in {"queued", "rejected"}
      BY <1>0, <1>3 DEF SnapshotSource, Ask, TypeOK
    <3>3. QED
      BY <1>0, <1>3, <3>1, <3>2
         DEF Carried, Engaged, Routed, Active, Holding, SnapshotSource
  <2>2. ASSUME NEW d \in Callers, d # s PROVE call'[d] = call[d] /\ job'[d] = job[d]
    BY <1>3, <2>2, <1>0 DEF SnapshotSource, TypeOK
  <2>3. QED
    BY <1>3, <2>1, <2>2, Untouched DEF SnapshotSource, Quiet, SameOwner, nodeVars
<1>4. CASE FinishSync(s)
  BY <1>0, <1>1, <1>2, <1>4, QuietReturn DEF FinishSync, Quiet, Active, nodeVars
<1>5. CASE AbortSync(s)
  BY <1>0, <1>1, <1>2, <1>5, QuietReturn DEF AbortSync, Quiet, Active, nodeVars
<1>6. CASE LoseSync(s)
  BY <1>0, <1>2, <1>6, QuietReturn DEF LoseSync, Quiet, SameOwner, Active, nodeVars
<1>7. CASE NextTick(s)
  BY <1>0, <1>2, <1>7, QuietReturn DEF NextTick, Quiet, SameOwner, nodeVars
<1>8. QED
  BY <1>3, <1>4, <1>5, <1>6, <1>7

LEMMA QuietCopies ==
  ASSUME OwnershipInv, NEW c \in Syncs \cup Promoters,
         \/ FetchBundle(c) \/ ApplyBundle(c) \/ FailSync(c)
         \/ StartSync(c) /\ SetStage(c, "rejected") /\ UNCHANGED <<role, epoch>>
  PROVE  Quiet
<1>0. c \in Callers /\ TypeOK
  BY DEF Callers, OwnershipInv
<1>1. CASE FetchBundle(c)
  <2>1. \E stage \in {"fetched", "rejected"} :
           /\ job'[c].stage = stage /\ job'[c].kind = job[c].kind
           /\ \A d \in Callers : d # c => job'[d] = job[d]
    BY <1>0, <1>1 DEF FetchBundle, TypeOK, Job
  <2>2. Holding(c) /\ job[c].stage # "none" /\ call' = call
    BY <1>1 DEF FetchBundle, Holding
  <2>3. Carried(c)
    BY <1>0, <2>1, <2>2, QuietStage DEF Stages
  <2>4. QED
    BY <1>1, <2>1, <2>2, <2>3, Untouched DEF FetchBundle, Quiet, SameOwner, nodeVars
<1>2. CASE ApplyBundle(c)
  BY <1>0, <1>2, QuietOneStage DEF ApplyBundle, Quiet, SameOwner, Stages, Holding
<1>3. CASE FailSync(c)
  BY <1>0, <1>3, QuietOneStage
     DEF FailSync, Quiet, SameOwner, Stages, Holding, nodeVars
<1>4. CASE StartSync(c) /\ SetStage(c, "rejected") /\ UNCHANGED <<role, epoch>>
  BY <1>0, <1>4, QuietOneStage DEF StartSync, Copyable, Queued, Quiet, SameOwner, Stages
<1>5. QED
  BY <1>1, <1>2, <1>3, <1>4

\* A fence or an activation that is executed answers with the references.
LEMMA AnsweredJob ==
  ASSUME TypeOK, NEW c \in Callers, NEW S,
         job' = [job EXCEPT ![c].stage = "done", ![c].got = S]
  PROVE  /\ job'[c].kind = job[c].kind /\ job'[c].stage = "done"
         /\ \A d \in Callers : d # c => job'[d] = job[d]
<1>1. job \in [Callers -> Job]
  BY DEF TypeOK
<1>2. job' = [job EXCEPT ![c] = [job[c] EXCEPT !.stage = "done", !.got = S]]
  BY <1>1
<1>3. QED
  BY <1>1, <1>2 DEF Job

LEMMA QuietPromotion ==
  ASSUME OwnershipInv, NEW p \in Promoters,
         \/ Frozen(p) \/ CheckTarget(p) \/ TargetSynced(p) \/ FailPromote(p)
         \/ CompletePromote(p) /\ p \notin row.latest
         \/ ExecFence(p) /\ SetStage(p, "rejected")
         \/ ExecActivate(p) /\ SetStage(p, "rejected")
  PROVE  Quiet
<1>0. p \in Callers /\ TypeOK /\ Routed
  BY DEF Callers, OwnershipInv
<1>1. CASE Frozen(p)
  <2>1. /\ call'[p].node = call[p].node /\ call'[p].src = call[p].src
        /\ call'[p].epoch = call[p].epoch /\ call'[p].phase = "frozen"
        /\ \A d \in Callers : d # p => call'[d] = call[d]
    BY <1>0, <1>1, CallType DEF Frozen, Call
  <2>2. Carried(p)
    <3>1. Engaged(p) /\ call[p].phase \in Active
      BY <1>0, <1>1 DEF Frozen, Routed, Active
    <3>2. PastFence(p)
      BY <1>1 DEF Frozen, PastFence
    <3>3. QED
      BY <1>1, <2>1, <3>1, <3>2 DEF Frozen, Carried, Holding
  <2>3. QED
    BY <1>1, <2>1, <2>2, Untouched DEF Frozen, Quiet, SameOwner, nodeVars
<1>2. ASSUME call[p].phase \in {"frozen", "syncing"},
             SetPhase(p, "activating") \/ SetPhase(p, "syncing"),
             \/ job' = [job EXCEPT ![p] = Ask("activate")]
             \/ job' = [job EXCEPT ![p] = Ask("sync")] /\ call[p].node # call[p].src,
             UNCHANGED <<row, nodeVars>>
      PROVE  Quiet
  <2>1. /\ call'[p].node = call[p].node /\ call'[p].src = call[p].src
        /\ call'[p].epoch = call[p].epoch
        /\ call'[p].phase \in {"activating", "syncing"}
        /\ \A d \in Callers : d # p => call'[d] = call[d]
    BY <1>0, <1>2, SetPhaseEffect DEF Phases
  <2>2. /\ job'[p].stage = "queued"
        /\ job'[p].kind = "sync" => call[p].node # call[p].src
        /\ \A d \in Callers : d # p => job'[d] = job[d]
    BY <1>0, <1>2 DEF Ask, TypeOK
  <2>3. Carried(p)
    BY <1>0, <1>2, <2>1, <2>2 DEF Carried, Engaged, Routed, Active, Holding, PastFence
  <2>4. QED
    BY <1>2, <2>1, <2>2, <2>3, Untouched DEF Quiet, SameOwner, nodeVars
<1>3. CASE CheckTarget(p)
  BY <1>2, <1>3 DEF CheckTarget
<1>4. CASE TargetSynced(p)
  BY <1>2, <1>4 DEF TargetSynced
<1>5. "failed" \in Phases \ Active
  BY DEF Phases, Active
<1>6. CASE FailPromote(p)
  BY <1>0, <1>5, <1>6, QuietReturn DEF FailPromote, Quiet, SameOwner, Active, nodeVars
<1>7. CASE CompletePromote(p) /\ p \notin row.latest
  BY <1>0, <1>5, <1>7, QuietReturn DEF CompletePromote, Quiet, SameOwner, Active, nodeVars
<1>8. CASE ExecFence(p) /\ SetStage(p, "rejected")
  <2>1. job'[p].stage = "rejected"
    BY <1>0, <1>8, SetStageEffect DEF Stages
  <2>2. UNCHANGED <<role, epoch>>
    BY <1>0, <1>8, <2>1, AnsweredJob DEF ExecFence, AlreadyFenced, Fenceable
  <2>3. QED
    BY <1>0, <1>8, <2>2, QuietOneStage DEF ExecFence, AlreadyFenced, Fenceable, Queued,
       Quiet, SameOwner, Stages
<1>9. CASE ExecActivate(p) /\ SetStage(p, "rejected")
  <2>1. job'[p].stage = "rejected"
    BY <1>0, <1>9, SetStageEffect DEF Stages
  <2>2. UNCHANGED <<role, epoch>>
    BY <1>0, <1>9, <2>1, AnsweredJob DEF ExecActivate, Activatable
  <2>3. QED
    BY <1>0, <1>9, <2>2, QuietOneStage DEF ExecActivate, Activatable, Queued, Quiet,
       SameOwner, Stages
<1>10. QED
  BY <1>1, <1>3, <1>4, <1>6, <1>7, <1>8, <1>9

LEMMA QuietNodes ==
  ASSUME OwnershipInv,
         \/ \E n \in Nodes : NodeStep(n)
         \/ \E r \in Readers : RouteRead(r)
         \/ UNCHANGED vars
  PROVE  Quiet
<1>0. TypeOK
  BY DEF OwnershipInv
<1>1. /\ UNCHANGED <<row, role, epoch, call>>
      /\ \A c \in Callers :
           \/ job'[c] = job[c]
           \/ /\ job[c].stage \notin Ended
              /\ job'[c].kind = job[c].kind
              /\ job'[c].stage \in {"lost", "orphan", "rejected"}
  BY SMTT(30), <1>0 DEF NodeStep, Crash, Stop, Restart, RouteRead, nodeVars, vars,
     Holding, TypeOK,
     Job, Ended
<1>2. ASSUME NEW c \in Callers PROVE Disengaged(c)' \/ Carried(c)
  BY <1>1, Untouched, QuietStage DEF Stages, Ended
<1>3. QED
  BY <1>1, <1>2 DEF Quiet, SameOwner

(***************************************************************************)
(* Steps that engage a caller.                                             *)
(***************************************************************************)
\* A new request of the current row: nothing is ahead of it and nothing holds
\* a lock because of it.
LEMMA EngageStep ==
  ASSUME OwnershipInv, TypeOK', NEW c \in Writers \cup Syncs,
         role' = role, epoch' = epoch, SameOwner,
         call'[c].node \in Nodes, call'[c].src \in Nodes \cup {None},
         c \in Syncs => call'[c].src \in Nodes,
         c \in Writers => call'[c].node = row.primary,
         call'[c].epoch = row.epoch,
         call'[c].phase # "idle", job'[c].stage \in {"none", "queued"},
         \A d \in Callers : d # c => call'[d] = call[d] /\ job'[d] = job[d]
  PROVE  OwnershipInv'
<1> USE Disjoint
<1>0. c \in Callers /\ c \notin Promoters /\ call'[c].node # None
  BY DEF Callers
<1>1. Routed'
  BY <1>0 DEF OwnershipInv, Routed, Engaged
<1>2. ASSUME NEW d \in Callers, Holding(d)'
      PROVE  /\ d # c /\ Holding(d) /\ job'[d].kind = job[d].kind
             /\ call'[d] = call[d] /\ JobNode(d)' = JobNode(d)
  BY <1>0, <1>2 DEF Holding, JobNode
<1>3. LockExclusive'
  BY <1>2 DEF OwnershipInv, LockExclusive
<1>4. CheckedStateHolds'
  BY <1>2 DEF OwnershipInv, CheckedStateHolds
<1>5. NoneAhead'
  BY <1>0, EpochsAreNumbers DEF OwnershipInv, NoneAhead, SameOwner, Engaged
<1>6. Transition'
  <2>1. ASSUME NEW p \in Promoters
        PROVE  call'[p] = call[p] /\ job'[p] = job[p] /\ PastFence(p)' = PastFence(p)
    BY <1>0, <2>1 DEF Callers, PastFence
  <2>2. QED
    BY <2>1 DEF OwnershipInv, Transition, Engaged, SameOwner, PrimaryFenced
<1>7. OwnersKnown'
  BY DEF OwnershipInv, OwnersKnown, SameOwner, PrimaryFenced
<1>8. QED
  BY <1>1, <1>3, <1>4, <1>5, <1>6, <1>7 DEF OwnershipInv, SameOwner

LEMMA BeginWriteOwnership ==
  ASSUME OwnershipInv, TypeOK', NEW w \in Writers, BeginWrite(w) PROVE OwnershipInv'
<1>0. w \in Callers /\ TypeOK
  BY DEF Callers, OwnershipInv
<1>1. SameOwner
  BY <1>0, RowType DEF BeginWrite, SameOwner, Placement
<1>2. /\ call'[w].node = row.primary /\ call'[w].epoch = row.epoch
      /\ call'[w].src = call[w].src /\ call'[w].phase = "waiting"
      /\ \A d \in Callers : d # w => call'[d] = call[d]
  BY <1>0, CallType DEF BeginWrite, Call
<1>3. job'[w].stage = "queued" /\ \A d \in Callers : d # w => job'[d] = job[d]
  BY <1>0 DEF BeginWrite, Ask, TypeOK
<1>4. row.primary \in Nodes /\ call[w].src \in Nodes \cup {None}
  BY <1>0, RowFields, CallFields
<1>5. QED
  BY ZenonT(30), <1>1, <1>2, <1>3, <1>4, EngageStep, Disjoint DEF BeginWrite, nodeVars

LEMMA ClaimSyncOwnership ==
  ASSUME OwnershipInv, TypeOK', NEW s \in Syncs, NEW n \in Nodes, ClaimSync(s, n)
  PROVE  OwnershipInv'
<1>0. s \in Callers /\ TypeOK
  BY DEF Callers, OwnershipInv
<1>1. SameOwner
  BY <1>0, RowType DEF ClaimSync, SameOwner, Placement
<1>2. /\ call'[s].node = n /\ call'[s].epoch = row.epoch
      /\ call'[s].src = row.primary
      /\ \A d \in Callers : d # s => call'[d] = call[d]
  BY <1>0 DEF ClaimSync, TypeOK
<1>3. job' = job /\ role' = role /\ epoch' = epoch
  BY DEF ClaimSync, nodeVars
<1>4. row.primary \in Nodes
  BY <1>0, RowFields
<1>5. job[s].stage = "none" /\ call'[s].phase = "claimed"
  BY <1>0 DEF ClaimSync, OwnershipInv, Routed, TypeOK
<1>6. QED
  BY <1>1, <1>2, <1>3, <1>4, <1>5, EngageStep, Disjoint

\* Stored epochs that only grow keep old requests old.
LEMMA NoneAheadGrows ==
  ASSUME OwnershipInv, TypeOK', row' = row, call' = call,
         \A n \in Nodes : epoch'[n] >= epoch[n]
  PROVE  NoneAhead'
<1> SUFFICES ASSUME NEW c \in Callers, Engaged(c)
             PROVE  /\ c \in Writers \cup Syncs => call[c].epoch <= row.epoch
                    /\ c \in Promoters => call[c].epoch <= row.epoch + 1
                    /\ c \notin Syncs /\ call[c].epoch < row.epoch
                         => epoch'[call[c].node] > call[c].epoch
                    /\ c \notin Syncs /\ call[c].epoch = row.epoch
                         => call[c].node = row.primary
  BY DEF NoneAhead, Engaged
<1>1. call[c].node \in Nodes /\ call[c].epoch \in Nat
  BY CallFields DEF OwnershipInv, Engaged
<1>2. epoch[call[c].node] \in Nat /\ epoch'[call[c].node] \in Nat
  BY <1>1 DEF OwnershipInv, TypeOK
<1>3. epoch'[call[c].node] >= epoch[call[c].node]
  BY <1>1
<1>4. QED
  BY <1>1, <1>2, <1>3 DEF OwnershipInv, NoneAhead

(***************************************************************************)
(* Steps that take the lock or hold it.                                    *)
(***************************************************************************)
LEMMA TakeLock ==
  ASSUME OwnershipInv, NEW c \in Callers, SetStage(c, "running"), call' = call, row' = row,
         job[c].stage = "queued", job[c].kind \in {"init", "write", "sync"},
         LockFree(JobNode(c))
  PROVE  /\ Routed' /\ LockExclusive'
         /\ Engaged(c) /\ job'[c].kind = job[c].kind
         /\ \A d \in Callers : d # c =>
              /\ job'[d] = job[d] /\ Holding(d)' = Holding(d)
              /\ Holding(d) => call[d].node # call[c].node
<1>0. TypeOK
  BY DEF OwnershipInv
<1>1. job'[c].kind = job[c].kind /\ job'[c].stage = "running"
  BY <1>0, SetStageEffect DEF Stages
<1>2. ASSUME NEW d \in Callers, d # c PROVE job'[d] = job[d] /\ Holding(d)' = Holding(d)
  BY <1>0, <1>2, SetStageEffect DEF Stages, Holding
<1>3. Engaged(c)
  BY DEF OwnershipInv, Routed
<1>4. Routed'
  BY <1>2, <1>3 DEF OwnershipInv, Routed, Engaged
<1>5. ASSUME NEW d \in Callers PROVE JobNode(d)' = JobNode(d)
  BY <1>1, <1>2 DEF JobNode
<1>6. LockExclusive'
  BY <1>1, <1>2, <1>5 DEF OwnershipInv, LockExclusive, LockFree
<1>7. ASSUME NEW d \in Callers, Holding(d) PROVE call[d].node # call[c].node
  BY <1>7 DEF OwnershipInv, LockExclusive, LockFree, JobNode
<1>8. QED
  BY <1>1, <1>2, <1>3, <1>4, <1>6, <1>7

LEMMA StartWriteOwnership ==
  ASSUME OwnershipInv, TypeOK', NEW w \in Writers, StartWrite(w) PROVE OwnershipInv'
<1>0. w \in Callers /\ w \notin Promoters
  BY Disjoint DEF Callers
<1>1. CASE ~Writable(call[w].node, call[w].epoch)
  BY <1>1, QuietWriters, QuietStep
<1>2. CASE Writable(call[w].node, call[w].epoch)
  <2>1. /\ Routed' /\ LockExclusive' /\ job'[w].kind = "write"
        /\ \A d \in Callers : d # w => job'[d] = job[d] /\ Holding(d)' = Holding(d)
    BY <1>0, <1>2, TakeLock DEF StartWrite, Queued
  <2>2. UNCHANGED <<row, role, epoch, call>>
    BY DEF StartWrite, nodeVars
  <2>3. CheckedStateHolds'
    BY <2>1, <2>2 DEF OwnershipInv, CheckedStateHolds
  <2>4. NoneAhead' /\ OwnersKnown'
    BY <2>2 DEF OwnershipInv, NoneAhead, Engaged, OwnersKnown, PrimaryFenced
  <2>5. Transition'
    BY <1>0, <2>1, <2>2
       DEF OwnershipInv, Transition, Engaged, PastFence, PrimaryFenced, Callers
  <2>6. QED
    BY <2>1, <2>2, <2>3, <2>4, <2>5 DEF OwnershipInv
<1>3. QED
  BY <1>1, <1>2

LEMMA StartInitOwnership ==
  ASSUME OwnershipInv, TypeOK', NEW w \in Writers, StartInit(w) PROVE OwnershipInv'
<1> DEFINE n == call[w].node
<1>0. w \in Callers /\ w \notin Promoters /\ w \notin Syncs /\ TypeOK
  BY Disjoint DEF Callers, OwnershipInv
<1>1. CASE call[w].epoch = 1 /\ role[n] \in {"absent", "initPrimary"}
  <2>1. /\ Routed' /\ LockExclusive' /\ Engaged(w) /\ job'[w].kind = "init"
        /\ \A d \in Callers : d # w =>
             /\ job'[d] = job[d] /\ Holding(d)' = Holding(d)
             /\ Holding(d) => call[d].node # n
    BY <1>0, <1>1, TakeLock DEF StartInit, Queued
  <2>2. UNCHANGED <<row, call>>
    BY DEF StartInit
  <2>3. n \in Nodes
    BY <1>0, <2>1, CallFields DEF Engaged
  <2>4. /\ role'[n] = "initPrimary" /\ epoch'[n] = 1
        /\ \A m \in Nodes : m # n => role'[m] = role[m] /\ epoch'[m] = epoch[m]
    BY <1>0, <1>1, <2>3 DEF StartInit, TypeOK
  <2>5. epoch[n] <= 1 /\ n = row.primary /\ row.epoch = 1
    <3>1. epoch[n] <= 1
      BY <1>1, <2>3 DEF OwnershipInv, OwnersKnown
    <3>2. QED
      BY <1>0, <1>1, <2>1, <3>1, <2>3, EpochsAreNumbers DEF OwnershipInv, NoneAhead
  <2>6. ASSUME NEW m \in Nodes PROVE epoch'[m] >= epoch[m]
    BY <1>0, <2>4, <2>5, EpochsAreNumbers
  <2>7. ~PrimaryFenced
    BY <2>5, <1>0, EpochsAreNumbers DEF PrimaryFenced
  <2>8. CheckedStateHolds'
    <3>1. ASSUME NEW d \in Callers, Holding(d)', d # w
          PROVE  call[d].node \in Nodes /\ call[d].node # n
      BY <1>0, <2>1, <3>1, RoutedNodes DEF OwnershipInv, Holding
    <3>2. QED
      BY <2>1, <2>2, <2>4, <3>1 DEF OwnershipInv, CheckedStateHolds
  <2>9. NoneAhead'
    BY <2>2, <2>6, NoneAheadGrows
  <2>10. Transition'
    BY <1>0, <2>1, <2>2, <2>7
       DEF OwnershipInv, Transition, Engaged, PastFence, Callers
  <2>11. OwnersKnown'
    BY <2>2, <2>3, <2>4, <2>5, <2>7 DEF OwnershipInv, OwnersKnown
  <2>12. QED
    BY <2>1, <2>2, <2>8, <2>9, <2>10, <2>11 DEF OwnershipInv
<1>2. CASE ~(call[w].epoch = 1 /\ role[n] \in {"absent", "initPrimary"})
  <2>1. Quiet
    BY <1>0, <1>2, QuietOneStage
       DEF StartInit, Queued, Quiet, SameOwner, Stages
  <2>2. QED
    BY <2>1, QuietStep
<1>3. QED
  BY <1>1, <1>2

\* The job that holds the lock ends and stores the role it was started for.
LEMMA RunWriteOwnership ==
  ASSUME OwnershipInv, TypeOK', NEW w \in Writers, RunWrite(w) PROVE OwnershipInv'
<1> DEFINE n == call[w].node
<1>0. w \in Callers /\ w \notin Promoters /\ TypeOK /\ Routed /\ Holding(w)
  BY Disjoint DEF Callers, OwnershipInv, RunWrite, Holding
<1>1. CASE role' = role
  BY <1>1, QuietWriters, QuietStep
<1>2. CASE role' # role
  <2>1. /\ job[w].kind = "init" /\ SetStage(w, "done")
        /\ role' = [role EXCEPT ![n] = "primary"]
        /\ UNCHANGED <<row, epoch, call>>
    BY <1>2 DEF RunWrite
  <2>2. /\ job'[w].stage = "done"
        /\ \A d \in Callers : d # w => job'[d] = job[d]
    BY <1>0, <2>1, SetStageEffect DEF Stages
  <2>3. n \in Nodes /\ Engaged(w)
    BY <1>0, RoutedNodes, Disjoint DEF Holding, Engaged
  <2>4. /\ role[n] = "initPrimary" /\ n = row.primary /\ epoch[n] = 1 /\ row.epoch = 1
    BY <1>0, <2>1, <2>3 DEF OwnershipInv, CheckedStateHolds, OwnersKnown
  <2>5. ~PrimaryFenced
    BY <2>4 DEF PrimaryFenced
  <2>6. Routed'
    BY <2>1, <2>2, <2>3 DEF OwnershipInv, Routed, Engaged
  <2>7. ASSUME NEW d \in Callers, Holding(d)'
        PROVE  /\ d # w /\ Holding(d) /\ job'[d] = job[d] /\ JobNode(d)' = JobNode(d)
               /\ call[d].node \in Nodes /\ call[d].node # n
    <3>1. d # w /\ Holding(d) /\ job'[d] = job[d] /\ JobNode(d)' = JobNode(d)
      BY <2>1, <2>2, <2>7 DEF Holding, JobNode
    <3>2. call[d].node \in Nodes
      BY <1>0, <3>1, RoutedNodes DEF Holding
    <3>3. QED
      BY <1>0, <2>1, <3>1, <3>2 DEF OwnershipInv, LockExclusive, JobNode
  <2>8. LockExclusive'
    BY <2>7 DEF OwnershipInv, LockExclusive
  <2>9. CheckedStateHolds'
    BY <1>0, <2>1, <2>7 DEF OwnershipInv, CheckedStateHolds, TypeOK
  <2>10. NoneAhead'
    BY <2>1 DEF OwnershipInv, NoneAhead, Engaged
  <2>11. Transition'
    BY <1>0, <2>1, <2>2, <2>5
       DEF OwnershipInv, Transition, Engaged, PastFence, Callers
  <2>12. OwnersKnown'
    BY <1>0, <2>1, <2>3, <2>4, <2>5 DEF OwnershipInv, OwnersKnown, TypeOK
  <2>13. QED
    BY <2>1, <2>6, <2>8, <2>9, <2>10, <2>11, <2>12 DEF OwnershipInv
<1>3. QED
  BY <1>1, <1>2

\* A synchronization at the destination never meets the fenced primary: its
\* epoch is too old, or it belongs to the transition and goes to the target.
LEMMA SyncAvoidsPrimary ==
  ASSUME OwnershipInv, NEW c \in Syncs \cup Promoters, job[c].kind = "sync",
         Engaged(c), PrimaryFenced, epoch[call[c].node] <= call[c].epoch
  PROVE  call[c].node # row.primary
<1>0. c \in Callers /\ TypeOK
  BY DEF Callers, OwnershipInv
<1>1. SUFFICES ASSUME call[c].node = row.primary PROVE FALSE
  OBVIOUS
<1>2. call[c].epoch >= row.epoch + 1
  BY <1>1 DEF PrimaryFenced
<1>3. c \in Promoters /\ call[c].epoch = row.epoch + 1
  BY <1>0, <1>2, EpochsAreNumbers DEF OwnershipInv, NoneAhead
<1>4. QED
  BY <1>1, <1>3 DEF OwnershipInv, Transition

LEMMA StartSyncOwnership ==
  ASSUME OwnershipInv, TypeOK', NEW c \in Syncs \cup Promoters, StartSync(c)
  PROVE  OwnershipInv'
<1> DEFINE n == call[c].node
           e == call[c].epoch
<1>0. c \in Callers /\ c \notin Writers /\ TypeOK
  BY Disjoint DEF Callers, OwnershipInv
<1>1. CASE /\ role[n] \in {"absent", "replica", "fenced", "initReplica"}
           /\ e >= epoch[n]
  <2>1. /\ Routed' /\ LockExclusive' /\ Engaged(c) /\ job'[c].kind = "sync"
        /\ \A d \in Callers : d # c =>
             /\ job'[d] = job[d] /\ Holding(d)' = Holding(d)
             /\ Holding(d) => call[d].node # n
    BY <1>0, <1>1, TakeLock DEF StartSync, Copyable, Queued
  <2>2. UNCHANGED <<row, call>> /\ job[c].kind = "sync"
    BY DEF StartSync, Copyable, Queued
  <2>3. n \in Nodes /\ e \in Nat
    BY <1>0, <2>1, CallFields DEF Engaged
  <2>4. /\ \/ role'[n] = "initReplica" /\ epoch'[n] = e
           \/ /\ role'[n] = role[n] /\ epoch'[n] = epoch[n]
              /\ role[n] \in {"replica", "fenced"}
        /\ \A m \in Nodes : m # n => role'[m] = role[m] /\ epoch'[m] = epoch[m]
    BY <1>0, <1>1, <2>3 DEF StartSync, Copyable, TypeOK
  <2>5. ASSUME NEW m \in Nodes PROVE epoch'[m] >= epoch[m]
    BY <1>0, <1>1, <2>3, <2>4, EpochsAreNumbers
  <2>6. PrimaryFenced => PrimaryFenced'
    <3>1. CASE PrimaryFenced
      <4>1. epoch[n] <= e
        BY <1>0, <1>1, <2>3, EpochsAreNumbers
      <4>2. n # row.primary /\ row.primary \in Nodes
        BY <1>0, <2>1, <2>2, <3>1, <4>1, SyncAvoidsPrimary, RowFields
      <4>3. QED
        BY <2>2, <2>4, <3>1, <4>2 DEF PrimaryFenced
    <3>2. QED
      BY <3>1
  <2>7. CheckedStateHolds'
    <3>1. ASSUME NEW d \in Callers, Holding(d)', d # c
          PROVE  call[d].node \in Nodes /\ call[d].node # n
      BY <1>0, <2>1, <3>1, RoutedNodes DEF OwnershipInv, Holding
    <3>2. epoch'[n] <= e /\ role'[n] \in {"replica", "fenced", "initReplica"}
      BY <1>0, <1>1, <2>3, <2>4, EpochsAreNumbers
    <3>3. QED
      BY <2>1, <2>2, <2>4, <3>1, <3>2 DEF OwnershipInv, CheckedStateHolds
  <2>8. NoneAhead'
    BY <2>2, <2>5, NoneAheadGrows
  <2>9. Transition'
    <3>1. ASSUME NEW p \in Promoters, PastFence(p)' PROVE PastFence(p)
      BY <2>1, <2>2, <3>1 DEF PastFence, Callers
    <3>2. ASSUME NEW p \in Promoters PROVE job'[p].kind = job[p].kind
      BY <2>1, <2>2, <3>2 DEF Callers
    <3>3. QED
      BY <2>2, <2>6, <3>1, <3>2 DEF OwnershipInv, Transition, Engaged
  <2>10. OwnersKnown'
    BY <2>2, <2>3, <2>4, <2>6 DEF OwnershipInv, OwnersKnown
  <2>11. QED
    BY <2>1, <2>2, <2>7, <2>8, <2>9, <2>10 DEF OwnershipInv
<1>2. CASE ~(/\ role[n] \in {"absent", "replica", "fenced", "initReplica"}
             /\ e >= epoch[n])
  BY <1>2, QuietCopies, QuietStep DEF StartSync, Copyable
<1>3. QED
  BY <1>1, <1>2

LEMMA SaveReplicaOwnership ==
  ASSUME OwnershipInv, TypeOK', NEW c \in Syncs \cup Promoters, SaveReplica(c)
  PROVE  OwnershipInv'
<1> DEFINE n == call[c].node
           e == call[c].epoch
<1>0. c \in Callers /\ c \notin Writers /\ TypeOK /\ Routed /\ Holding(c)
  BY Disjoint DEF Callers, OwnershipInv, SaveReplica, Holding
<1>1. UNCHANGED <<row, call>> /\ job[c].kind = "sync" /\ SetStage(c, "done")
  BY DEF SaveReplica
<1>2. /\ job'[c].stage = "done" /\ job'[c].kind = "sync"
      /\ \A d \in Callers : d # c => job'[d] = job[d]
  BY <1>0, <1>1, SetStageEffect DEF Stages
<1>3. n \in Nodes /\ Engaged(c) /\ e \in Nat
  BY <1>0, RoutedNodes, Disjoint, EpochsAreNumbers DEF Holding, Engaged
<1>4. /\ role'[n] = "replica" /\ epoch'[n] = e
      /\ \A m \in Nodes : m # n => role'[m] = role[m] /\ epoch'[m] = epoch[m]
  BY <1>0, <1>3 DEF SaveReplica, TypeOK
<1>5. epoch[n] <= e /\ role[n] \in {"replica", "fenced", "initReplica"}
  BY <1>0, <1>1 DEF OwnershipInv, CheckedStateHolds
<1>6. ASSUME NEW m \in Nodes PROVE epoch'[m] >= epoch[m]
  BY <1>0, <1>3, <1>4, <1>5, EpochsAreNumbers
<1>7. PrimaryFenced => PrimaryFenced'
  <2>1. CASE PrimaryFenced
    <3>1. n # row.primary /\ row.primary \in Nodes
      BY <1>0, <1>1, <1>3, <1>5, <2>1, SyncAvoidsPrimary, RowFields
    <3>2. QED
      BY <1>1, <1>4, <2>1, <3>1 DEF PrimaryFenced
  <2>2. QED
    BY <2>1
<1>8. ASSUME NEW d \in Callers, Holding(d)'
      PROVE  /\ d # c /\ Holding(d) /\ job'[d] = job[d] /\ JobNode(d)' = JobNode(d)
             /\ call[d].node \in Nodes /\ call[d].node # n
  <2>1. d # c /\ Holding(d) /\ job'[d] = job[d] /\ JobNode(d)' = JobNode(d)
    BY <1>1, <1>2, <1>8 DEF Holding, JobNode
  <2>2. call[d].node \in Nodes
    BY <1>0, <2>1, RoutedNodes DEF Holding
  <2>3. QED
    BY <1>0, <1>1, <2>1, <2>2 DEF OwnershipInv, LockExclusive, JobNode
<1>9. Routed'
  BY <1>1, <1>2, <1>3 DEF OwnershipInv, Routed, Engaged
<1>10. LockExclusive'
  BY <1>8 DEF OwnershipInv, LockExclusive
<1>11. CheckedStateHolds'
  BY <1>1, <1>4, <1>8 DEF OwnershipInv, CheckedStateHolds
<1>12. NoneAhead'
  BY <1>1, <1>6, NoneAheadGrows
<1>13. Transition'
  <2>1. ASSUME NEW p \in Promoters, PastFence(p)' PROVE PastFence(p)
    BY <1>1, <1>2, <2>1 DEF PastFence, Callers
  <2>2. ASSUME NEW p \in Promoters PROVE job'[p].kind = job[p].kind
    BY <1>1, <1>2, <2>2 DEF Callers
  <2>3. QED
    BY <1>1, <1>7, <2>1, <2>2 DEF OwnershipInv, Transition, Engaged
<1>14. OwnersKnown'
  BY <1>1, <1>3, <1>4, <1>7 DEF OwnershipInv, OwnersKnown
<1>15. QED
  BY <1>1, <1>9, <1>10, <1>11, <1>12, <1>13, <1>14 DEF OwnershipInv

(***************************************************************************)
(* Steps of a transition.                                                  *)
(***************************************************************************)
LEMMA MovingRow ==
  ASSUME TypeOK, NEW t \in Nodes, NEW S,
         row' = [row EXCEPT !.state = "moving", !.target = t, !.latest = S]
  PROVE  /\ row'.primary = row.primary /\ row'.epoch = row.epoch
         /\ row'.target = t /\ row'.state = "moving" /\ row'.latest = S
BY RowType DEF Placement

LEMMA StartPromoteOwnership ==
  ASSUME OwnershipInv, TypeOK', NEW p \in Promoters, NEW t \in Nodes, StartPromote(p, t)
  PROVE  OwnershipInv'
<1>0. p \in Callers /\ p \notin Writers \cup Syncs /\ TypeOK
  BY Disjoint DEF Callers, OwnershipInv
<1>1. /\ row'.primary = row.primary /\ row'.epoch = row.epoch
      /\ row'.target = t /\ row'.state = "moving" /\ row'.latest \subseteq row.latest \cup {p}
      /\ row.state = "ready" \/ (row.state = "moving" /\ row.target = t)
  <2>1. CASE /\ row.state = "ready"
             /\ row' = [row EXCEPT !.state = "moving", !.target = t, !.latest = {p}]
    BY ZenonT(30), <1>0, <2>1, MovingRow
  <2>2. CASE /\ row.state = "moving" /\ row.target = t
             /\ row' = [row EXCEPT !.latest = @ \cup {p}]
    <3>1. row' = [row EXCEPT !.latest = row.latest \cup {p}]
      BY <1>0, <2>2, RowType DEF Placement
    <3>2. QED
      BY <1>0, <2>2, <3>1, RowType DEF Placement
  <2>3. QED
    BY <2>1, <2>2 DEF StartPromote
<1>2. /\ call'[p].node = t /\ call'[p].src = row.primary
      /\ call'[p].epoch = row.epoch + 1 /\ call'[p].phase = "fencing"
      /\ \A d \in Callers : d # p => call'[d] = call[d]
  BY <1>0 DEF StartPromote, TypeOK
<1>3. /\ job'[p].kind = "fence" /\ job'[p].stage = "queued"
      /\ \A d \in Callers : d # p => job'[d] = job[d]
  BY <1>0 DEF StartPromote, TypeOK, Ask
<1>4. UNCHANGED <<role, epoch>> /\ row.primary \in Nodes /\ t # None
  BY <1>0, RowFields, Disjoint DEF StartPromote, nodeVars
<1>5. Routed'
  BY <1>2, <1>3, <1>4 DEF OwnershipInv, Routed, Engaged
<1>6. ASSUME NEW d \in Callers, Holding(d)'
      PROVE  /\ d # p /\ Holding(d) /\ job'[d] = job[d] /\ call'[d] = call[d]
             /\ JobNode(d)' = JobNode(d)
  BY <1>2, <1>3, <1>6 DEF Holding, JobNode
<1>7. LockExclusive'
  BY <1>6 DEF OwnershipInv, LockExclusive
<1>8. CheckedStateHolds'
  BY <1>4, <1>6 DEF OwnershipInv, CheckedStateHolds
<1>9. NoneAhead'
  BY <1>0, <1>1, <1>2, <1>4, EpochsAreNumbers DEF OwnershipInv, NoneAhead, Engaged
<1>10. row.state = "moving" => PrimaryFenced' = PrimaryFenced
  BY <1>1, <1>4 DEF PrimaryFenced
<1>11. Transition'
  <2> SUFFICES ASSUME NEW q \in Promoters, Engaged(q)'
               PROVE  /\ call'[q].epoch = row'.epoch + 1 =>
                           /\ row'.state = "moving" /\ row'.target = call'[q].node
                           /\ row'.primary = call'[q].src
                           /\ PastFence(q)' => PrimaryFenced'
                      /\ job'[q].kind = "sync" => call'[q].node # call'[q].src
                      /\ q \in row'.latest /\ call'[q].phase \in Active
                           => call'[q].epoch = row'.epoch + 1
    BY DEF Transition
  <2>1. CASE q = p
    BY <1>1, <1>2, <1>3, <2>1 DEF PastFence
  <2>2. CASE q # p
    <3>1. call'[q] = call[q] /\ job'[q] = job[q] /\ Engaged(q)
      BY <1>2, <1>3, <2>2 DEF Engaged, Callers
    <3>2. PastFence(q)' => PastFence(q)
      BY <3>1 DEF PastFence
    <3>3. q \in row'.latest => q \in row.latest
      BY <1>1, <2>2
    <3>4. QED
      BY <1>1, <1>10, <3>1, <3>2, <3>3 DEF OwnershipInv, Transition
  <2>3. QED
    BY <2>1, <2>2
<1>12. OwnersKnown'
  BY <1>1, <1>4, <1>10 DEF OwnershipInv, OwnersKnown
<1>13. QED
  BY <1>1, <1>5, <1>7, <1>8, <1>9, <1>11, <1>12 DEF OwnershipInv

\* No job takes a lock, and the node of a job that keeps one is not written.
LEMMA LocksKept ==
  ASSUME LockExclusive, CheckedStateHolds, UNCHANGED call,
         \A d \in Callers : Holding(d)' =>
           /\ Holding(d) /\ job'[d] = job[d] /\ JobNode(d)' = JobNode(d)
           /\ role'[call[d].node] = role[call[d].node]
           /\ epoch'[call[d].node] = epoch[call[d].node]
  PROVE  LockExclusive' /\ CheckedStateHolds'
BY DEF LockExclusive, CheckedStateHolds

\* What a fence or an activation that is executed at node n leaves as it was.
LEMMA AnswerStep ==
  ASSUME OwnershipInv, NEW p \in Promoters, NEW n \in Nodes, NEW S,
         job[p].stage = "queued", LockFree(n), UNCHANGED <<row, call>>,
         \A m \in Nodes : m # n => role'[m] = role[m] /\ epoch'[m] = epoch[m],
         job' = [job EXCEPT ![p].stage = "done", ![p].got = S]
  PROVE  /\ Routed' /\ LockExclusive' /\ CheckedStateHolds' /\ Engaged(p)
         /\ \A q \in Promoters : job'[q].kind = job[q].kind
         /\ \A q \in Promoters : q # p => PastFence(q)' = PastFence(q)
<1>0. p \in Callers /\ TypeOK /\ Routed
  BY DEF Callers, OwnershipInv
<1>1. /\ job'[p].kind = job[p].kind /\ job'[p].stage = "done"
      /\ \A d \in Callers : d # p => job'[d] = job[d]
  BY <1>0, AnsweredJob
<1>2. Engaged(p)
  BY <1>0 DEF Routed
<1>3. Routed'
  BY <1>0, <1>1, <1>2 DEF Routed, Engaged
<1>4. ASSUME NEW d \in Callers, Holding(d)'
      PROVE  /\ Holding(d) /\ job'[d] = job[d] /\ JobNode(d)' = JobNode(d)
             /\ role'[call[d].node] = role[call[d].node]
             /\ epoch'[call[d].node] = epoch[call[d].node]
  <2>1. Holding(d) /\ job'[d] = job[d] /\ JobNode(d)' = JobNode(d)
    BY <1>1, <1>4 DEF Holding, JobNode
  <2>2. call[d].node \in Nodes
    BY <1>0, <2>1, RoutedNodes DEF Holding
  <2>3. JobNode(d) = call[d].node
    BY <2>1 DEF OwnershipInv, LockExclusive, JobNode
  <2>4. QED
    BY <2>1, <2>2, <2>3 DEF LockFree
<1>5. UNCHANGED call /\ LockExclusive /\ CheckedStateHolds
  BY DEF OwnershipInv
<1>6. LockExclusive' /\ CheckedStateHolds'
  BY ONLY <1>4, <1>5, LocksKept
<1>7. ASSUME NEW q \in Promoters
      PROVE  job'[q].kind = job[q].kind /\ (q # p => PastFence(q)' = PastFence(q))
  BY <1>1 DEF PastFence, Callers
<1>8. QED
  BY <1>2, <1>3, <1>5, <1>6, <1>7

LEMMA ExecFenceOwnership ==
  ASSUME OwnershipInv, TypeOK', NEW p \in Promoters, ExecFence(p) PROVE OwnershipInv'
<1> DEFINE n == call[p].src
           next == call[p].epoch
<1>0. p \in Callers /\ p \notin Writers \cup Syncs /\ TypeOK /\ Routed
  BY Disjoint DEF Callers, OwnershipInv
<1>1. CASE SetStage(p, "rejected")
  BY <1>1, QuietPromotion, QuietStep
<1>2. CASE ~SetStage(p, "rejected")
  <2>1. /\ job[p].kind = "fence" /\ job[p].stage = "queued" /\ LockFree(n)
        /\ UNCHANGED <<row, call>>
        /\ job' = [job EXCEPT ![p].stage = "done", ![p].got = refs[n]]
        /\ \/ role[n] = "fenced" /\ epoch[n] = next /\ UNCHANGED <<role, epoch>>
           \/ /\ role[n] \in Managed /\ epoch[n] = next - 1
              /\ role' = [role EXCEPT ![n] = "fenced"]
              /\ epoch' = [epoch EXCEPT ![n] = next]
    BY <1>2 DEF ExecFence, AlreadyFenced, Fenceable, Queued, JobNode
  <2>2. n \in Nodes /\ next \in Nat /\ row.primary \in Nodes
    BY <1>0, <2>1, RoutedNodes, EpochsAreNumbers, RowFields
  <2>3. /\ role'[n] = "fenced" /\ epoch'[n] = next
        /\ \A m \in Nodes : m # n => role'[m] = role[m] /\ epoch'[m] = epoch[m]
        /\ epoch[n] = next \/ epoch[n] = next - 1
        /\ epoch[n] = next => role[n] = "fenced"
    BY <1>0, <2>1, <2>2 DEF TypeOK
  <2>4. /\ Routed' /\ LockExclusive' /\ CheckedStateHolds' /\ Engaged(p)
        /\ \A q \in Promoters : job'[q].kind = job[q].kind
        /\ \A q \in Promoters : q # p => PastFence(q)' = PastFence(q)
    BY <2>1, <2>2, <2>3, AnswerStep
  <2>5. ASSUME NEW m \in Nodes PROVE epoch'[m] >= epoch[m]
    BY <1>0, <2>2, <2>3, EpochsAreNumbers
  <2>6. NoneAhead'
    BY <2>1, <2>5, NoneAheadGrows
  <2>7. next <= row.epoch + 1
    BY <1>0, <2>4 DEF OwnershipInv, NoneAhead
  <2>8. PrimaryFenced => PrimaryFenced'
    <3>1. CASE PrimaryFenced /\ n = row.primary
      <4>1. epoch[n] = next
        BY <1>0, <2>2, <2>3, <2>7, <3>1, EpochsAreNumbers DEF PrimaryFenced
      <4>2. QED
        BY <2>1, <2>3, <3>1, <4>1 DEF PrimaryFenced
    <3>2. CASE n # row.primary
      BY <2>1, <2>2, <2>3, <3>2 DEF PrimaryFenced
    <3>3. QED
      BY <3>1, <3>2
  <2>9. Transition'
    <3>1. next = row.epoch + 1 => PrimaryFenced'
      <4>1. next = row.epoch + 1 => n = row.primary
        BY <2>4 DEF OwnershipInv, Transition
      <4>2. QED
        BY <2>1, <2>3, <4>1 DEF PrimaryFenced
    <3>2. QED
      BY <2>1, <2>4, <2>8, <3>1 DEF OwnershipInv, Transition, Engaged
  <2>10. OwnersKnown'
    BY <2>1, <2>2, <2>3, <2>8 DEF OwnershipInv, OwnersKnown
  <2>11. QED
    BY <2>1, <2>4, <2>6, <2>9, <2>10 DEF OwnershipInv
<1>3. QED
  BY <1>1, <1>2

LEMMA ExecActivateOwnership ==
  ASSUME OwnershipInv, TypeOK', NEW p \in Promoters, ExecActivate(p) PROVE OwnershipInv'
<1> DEFINE t == call[p].node
           e == call[p].epoch
<1>0. p \in Callers /\ p \notin Writers \cup Syncs /\ TypeOK /\ Routed
  BY Disjoint DEF Callers, OwnershipInv
<1>1. CASE ~(role[t] \in Managed /\ e >= epoch[t])
  BY <1>1, QuietPromotion, QuietStep DEF ExecActivate, Activatable
<1>2. CASE role[t] \in Managed /\ e >= epoch[t]
  <2>1. /\ job[p].kind = "activate" /\ job[p].stage = "queued" /\ LockFree(t)
        /\ UNCHANGED <<row, call>>
        /\ job' = [job EXCEPT ![p].stage = "done", ![p].got = refs[t]]
        /\ role' = [role EXCEPT ![t] = "primary"]
        /\ epoch' = [epoch EXCEPT ![t] = e]
    BY <1>2 DEF ExecActivate, Activatable, Queued, JobNode
  <2>2. t \in Nodes /\ e \in Nat /\ row.primary \in Nodes
    BY <1>0, <2>1, RoutedNodes, EpochsAreNumbers, RowFields
  <2>3. /\ role'[t] = "primary" /\ epoch'[t] = e
        /\ \A m \in Nodes : m # t => role'[m] = role[m] /\ epoch'[m] = epoch[m]
    BY <1>0, <2>1, <2>2 DEF TypeOK
  <2>4. /\ Routed' /\ LockExclusive' /\ CheckedStateHolds' /\ Engaged(p)
        /\ \A q \in Promoters : job'[q].kind = job[q].kind
        /\ \A q \in Promoters : q # p => PastFence(q)' = PastFence(q)
    BY <2>1, <2>2, <2>3, AnswerStep
  <2>5. ASSUME NEW m \in Nodes PROVE epoch'[m] >= epoch[m]
    BY <1>0, <1>2, <2>2, <2>3, EpochsAreNumbers
  <2>6. NoneAhead'
    BY <2>1, <2>5, NoneAheadGrows
  <2>7. \/ e = row.epoch /\ t = row.primary
        \/ e = row.epoch + 1 /\ row.state = "moving" /\ t = row.target /\ PrimaryFenced
    <3>1. e <= row.epoch + 1 /\ (e < row.epoch => epoch[t] > e)
          /\ (e = row.epoch => t = row.primary)
      BY <1>0, <2>4 DEF OwnershipInv, NoneAhead
    <3>2. e >= row.epoch
      BY <1>0, <1>2, <2>2, <3>1, EpochsAreNumbers
    <3>3. PastFence(p)
      BY <2>1 DEF PastFence
    <3>4. e = row.epoch + 1 => row.state = "moving" /\ t = row.target /\ PrimaryFenced
      BY <2>4, <3>3 DEF OwnershipInv, Transition
    <3>5. QED
      BY <1>0, <2>2, <3>1, <3>2, <3>4, EpochsAreNumbers
  <2>8. PrimaryFenced => PrimaryFenced'
    <3>1. CASE PrimaryFenced /\ t = row.primary
      <4>1. e = row.epoch + 1 /\ row.target = row.primary
        BY <1>0, <1>2, <2>2, <2>7, <3>1, EpochsAreNumbers DEF PrimaryFenced
      <4>2. QED
        BY <2>1, <2>3, <3>1, <4>1 DEF PrimaryFenced
    <3>2. CASE t # row.primary
      BY <2>1, <2>2, <2>3, <3>2 DEF PrimaryFenced
    <3>3. QED
      BY <3>1, <3>2
  <2>9. Transition'
    <3>1. PastFence(p)
      BY <2>1 DEF PastFence
    <3>2. QED
      BY <2>1, <2>4, <2>8, <3>1 DEF OwnershipInv, Transition, Engaged
  <2>10. OwnersKnown'
    BY <2>1, <2>2, <2>3, <2>7, <2>8 DEF OwnershipInv, OwnersKnown
  <2>11. QED
    BY <2>1, <2>4, <2>6, <2>9, <2>10 DEF OwnershipInv
<1>3. QED
  BY <1>1, <1>2

LEMMA CompletePromoteOwnership ==
  ASSUME OwnershipInv, TypeOK', NEW p \in Promoters, CompletePromote(p)
  PROVE  OwnershipInv'
<1> DEFINE t == call[p].node
           e == call[p].epoch
<1>0. p \in Callers /\ TypeOK /\ Routed /\ call[p].phase = "activating"
      /\ job[p].stage = "done"
  BY DEF Callers, OwnershipInv, CompletePromote
<1>1. CASE p \notin row.latest
  BY <1>1, QuietPromotion, QuietStep
<1>2. CASE p \in row.latest
  <2>1. /\ row'.primary = t /\ row'.epoch = e /\ row'.state = "ready"
        /\ row'.latest = {} /\ Return(p, "promoted") /\ UNCHANGED <<role, epoch>>
    <3>1. \E R : row' = [row EXCEPT !.primary = t, !.target = None, !.epoch = e,
                          !.generation = row.generation + 1, !.pending = 0,
                          !.state = "ready", !.replicas = R, !.latest = {}]
      BY <1>2 DEF CompletePromote
    <3>2. QED
      BY <1>0, <1>2, <3>1, RowType DEF CompletePromote, Placement, nodeVars
  <2>2. t \in Nodes /\ e \in Nat /\ row.primary \in Nodes /\ Engaged(p)
    BY <1>0, RoutedNodes, EpochsAreNumbers, RowFields, Disjoint DEF Active, Engaged
  <2>3. /\ e = row.epoch + 1 /\ row.state = "moving" /\ row.target = t
        /\ PrimaryFenced
    BY <1>0, <1>2, <2>2 DEF OwnershipInv, Transition, Active, PastFence
  <2>4. /\ call'[p].node = None /\ call'[p].phase = "promoted" /\ job'[p].stage = "none"
        /\ \A d \in Callers : d # p => call'[d] = call[d] /\ job'[d] = job[d]
    BY <1>0, <2>1 DEF Return, Ended, IdleCall, NoJob, TypeOK
  <2>5. Routed'
    BY <1>0, <2>4 DEF Routed, Engaged, Active
  <2>6. ASSUME NEW d \in Callers, Holding(d)'
        PROVE  /\ Holding(d) /\ job'[d] = job[d] /\ call'[d] = call[d]
               /\ JobNode(d)' = JobNode(d)
    BY <2>4, <2>6 DEF Holding, JobNode
  <2>7. LockExclusive'
    BY <2>6 DEF OwnershipInv, LockExclusive
  <2>8. CheckedStateHolds'
    BY <2>1, <2>6 DEF OwnershipInv, CheckedStateHolds
  <2>9. NoneAhead'
    <3> SUFFICES ASSUME NEW c \in Callers, c # p, Engaged(c)
                 PROVE  /\ c \in Writers \cup Syncs => call[c].epoch <= e
                        /\ c \in Promoters => call[c].epoch <= e + 1
                        /\ c \notin Syncs /\ call[c].epoch < e
                             => epoch[call[c].node] > call[c].epoch
                        /\ c \notin Syncs /\ call[c].epoch = e => call[c].node = t
      BY <2>1, <2>4 DEF NoneAhead, Engaged
    <3>1. call[c].epoch \in Nat /\ row.epoch \in Nat /\ epoch[row.primary] = row.epoch + 1
      BY <1>0, <2>3, EpochsAreNumbers DEF PrimaryFenced
    <3>2. c \in Writers \cup Promoters \/ c \in Syncs
      BY DEF Callers
    <3>3. /\ c \in Writers \cup Syncs => call[c].epoch <= row.epoch
          /\ c \in Promoters => call[c].epoch <= row.epoch + 1
          /\ c \notin Syncs /\ call[c].epoch < row.epoch
               => epoch[call[c].node] > call[c].epoch
          /\ c \notin Syncs /\ call[c].epoch = row.epoch => call[c].node = row.primary
      BY DEF OwnershipInv, NoneAhead
    <3>4. c \in Promoters /\ call[c].epoch = row.epoch + 1 => call[c].node = t
      BY <2>3 DEF OwnershipInv, Transition
    <3>5. QED
      BY <2>3, <3>1, <3>2, <3>3, <3>4
  <2>10. Transition'
    <3>1. ASSUME NEW q \in Promoters, q # p, Engaged(q)
          PROVE  call[q].epoch # e + 1 /\ call'[q] = call[q] /\ job'[q] = job[q]
      <4>1. call[q].epoch <= row.epoch + 1 /\ call[q].epoch \in Nat /\ row.epoch \in Nat
        BY <1>0, <3>1, EpochsAreNumbers DEF OwnershipInv, NoneAhead, Callers
      <4>2. QED
        BY <2>3, <2>4, <3>1, <4>1 DEF Callers
    <3>2. QED
      BY <2>1, <2>4, <3>1 DEF OwnershipInv, Transition, Engaged, Callers
  <2>11. OwnersKnown'
    <3> SUFFICES ASSUME NEW n \in Nodes
                 PROVE  /\ role[n] = "primary" => n = t /\ epoch[n] = e
                        /\ role[n] = "absent" => epoch[n] = 0
                        /\ role[n] # "initPrimary"
      BY <2>1 DEF OwnersKnown
    <3>1. row.epoch \in Nat /\ epoch[n] \in Nat
      BY <1>0, EpochsAreNumbers
    <3>2. QED
      BY <2>3, <3>1 DEF OwnershipInv, OwnersKnown, PrimaryFenced
  <2>12. QED
    BY <2>1, <2>3, <2>5, <2>7, <2>8, <2>9, <2>10, <2>11, EpochsAreNumbers, <1>0
       DEF OwnershipInv
<1>3. QED
  BY <1>1, <1>2

(***************************************************************************)
(* The theorems.                                                           *)
(***************************************************************************)
LEMMA OwnershipInit == Init => OwnershipInv
<1> SUFFICES ASSUME Init PROVE OwnershipInv
  OBVIOUS
<1>1. TypeOK
  BY InitType
<1>2. ASSUME NEW c \in Callers PROVE ~Engaged(c) /\ ~Holding(c) /\ job[c].stage = "none"
                                     /\ call[c].phase = "idle"
  BY DEF Init, Engaged, Holding, IdleCall, NoJob
<1>3. Routed /\ LockExclusive /\ CheckedStateHolds
  BY <1>2 DEF Routed, LockExclusive, CheckedStateHolds, Active
<1>4. NoneAhead /\ Transition
  BY <1>2 DEF NoneAhead, Transition, Callers
<1>5. row.epoch > 0 /\ OwnersKnown
  BY DEF Init, OwnersKnown
<1>6. QED
  BY <1>1, <1>3, <1>4, <1>5 DEF OwnershipInv

LEMMA OwnershipNext == OwnershipInv /\ [Next]_vars => OwnershipInv'
<1> SUFFICES ASSUME OwnershipInv, [Next]_vars PROVE OwnershipInv'
  OBVIOUS
<1>0. TypeOK'
  BY NextType DEF OwnershipInv
<1>1. ASSUME NEW w \in Writers, WriteStep(w) PROVE OwnershipInv'
  BY <1>0, <1>1, BeginWriteOwnership, StartWriteOwnership, StartInitOwnership,
     RunWriteOwnership, QuietWriters, QuietStep DEF WriteStep
<1>2. ASSUME NEW s \in Syncs, ReplicateStep(s) PROVE OwnershipInv'
  BY <1>0, <1>2, ClaimSyncOwnership, QuietReplication, QuietStep DEF ReplicateStep
<1>3. ASSUME NEW c \in Syncs \cup Promoters, CopyStep(c) PROVE OwnershipInv'
  BY <1>0, <1>3, StartSyncOwnership, SaveReplicaOwnership, QuietCopies, QuietStep
     DEF CopyStep
<1>4. ASSUME NEW p \in Promoters, PromoteStep(p) PROVE OwnershipInv'
  BY <1>0, <1>4, StartPromoteOwnership, ExecFenceOwnership, ExecActivateOwnership,
     CompletePromoteOwnership, QuietPromotion, QuietStep DEF PromoteStep
<1>5. CASE \/ \E n \in Nodes : NodeStep(n)
           \/ \E r \in Readers : RouteRead(r)
           \/ UNCHANGED vars
  BY <1>0, <1>5, QuietNodes, QuietStep
<1>6. QED
  BY <1>1, <1>2, <1>3, <1>4, <1>5 DEF Next

\* Ownership of the repository is always known: who may say that it is primary,
\* which requests can still be executed and with which epoch, and that nobody
\* changes what a synchronization checked while it holds the repository lock.
THEOREM Ownership == Spec => []OwnershipInv
  BY OwnershipInit, OwnershipNext, PTL DEF Spec

\* Every reachable state has the types of the records the code stores: in
\* particular the count of pending writes never becomes negative.
THEOREM TypeCorrect == Spec => []TypeOK
<1>1. OwnershipInv => TypeOK
  BY DEF OwnershipInv
<1>2. QED
  BY <1>1, Ownership, PTL

\* However many operators promote, crash, overlap and answer late, no two nodes
\* ever both have the role of primary in their durable state.
THEOREM SinglePrimary == Spec => []OnePrimary
<1>1. OwnershipInv => OnePrimary
  <2> SUFFICES ASSUME OwnershipInv, NEW m \in Nodes, NEW n \in Nodes,
                      role[m] = "primary", role[n] = "primary", m # n
               PROVE  FALSE
    BY DEF OnePrimary
  <2>1. row.epoch \in Nat
    BY EpochsAreNumbers DEF OwnershipInv
  <2>2. QED
    BY <2>1 DEF OwnershipInv, OwnersKnown, PrimaryFenced
<1>2. QED
  BY <1>1, Ownership, PTL

=============================================================================
