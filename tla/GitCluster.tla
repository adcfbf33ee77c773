------------------------------ MODULE GitCluster ------------------------------
(***************************************************************************)
(* One repository of the Git cluster: its placement row in the catalog     *)
(* (gity-git-cluster), the durable ownership state and the references it   *)
(* has on every storage node (gity-git-node), and the callers that move    *)
(* it: application processes that write (gity-git), replication workers,   *)
(* operators that promote, and routed readers.                             *)
(*                                                                         *)
(* Every catalog update of the code is a read followed by a compare and    *)
(* set on `version`.  When the set succeeds the row has not changed since  *)
(* it was read, so read and set are one step here; only promote() keeps a  *)
(* row across remote calls.  Versions are only compared for equality and   *)
(* never repeat, so the row carries the set of promote() calls whose copy  *)
(* of it is still the latest version.                                      *)
(*                                                                         *)
(* A remote call is a job: queued by its caller, executed by the node at   *)
(* any later time (also after the caller has given up), answered once.     *)
(***************************************************************************)
EXTENDS Integers, FiniteSets

CONSTANTS
  Nodes,         \* configured storage nodes
  Writers,       \* write operations and pushes, each issued once
  Creators,      \* the writers that issue InitBare; {} starts initialized
  Syncs,         \* replication workers, a fresh sync_id for each attempt
  Promoters,     \* calls of promote(), each issued once
  Readers,       \* callers that keep a routed read handle
  Retick,        \* whether a replication worker attempts more than once
  ReplicaCount,  \* config.replicas: copies of a repository, primary included
  Placements,    \* rows of the catalog, the one of this repository included
  None           \* no node, no sync

ASSUME ClusterAssumption ==
  /\ IsFiniteSet(Nodes) /\ IsFiniteSet(Writers)
  /\ Creators \subseteq Writers
  /\ None \notin Nodes \cup Syncs
  /\ Retick \in BOOLEAN
  /\ ReplicaCount \in 1 .. Cardinality(Nodes)
  /\ Placements \in Nat \ {0}
  /\ Writers \cap (Syncs \cup Promoters) = {} /\ Syncs \cap Promoters = {}

Callers == Writers \cup Syncs \cup Promoters

VARIABLES
  row,     \* the placement row of the repository
  role,    \* role[n]: RepositoryState.role stored on node n
  epoch,   \* epoch[n]: RepositoryState.epoch stored on node n, 0 when absent
  refs,    \* refs[n]: the writes whose effect the references of n contain
  up,      \* up[n]: node n accepts work (FALSE from shutdown to restart)
  call,    \* call[c]: what caller c knows and waits for
  job,     \* job[c]: the remote call of c, as the node sees it
  reader   \* reader[r]: the node and epoch a read was routed to

vars == <<row, role, epoch, refs, up, call, job, reader>>
nodeVars == <<role, epoch, refs>>

Roles == {"absent", "initPrimary", "initReplica", "primary", "replica", "fenced"}
Managed == {"primary", "replica", "fenced"}
Stages == {"none", "queued", "running", "fetched", "applied", "orphan",
           "done", "rejected", "lost"}
Ended == {"none", "done", "rejected", "lost"}
Kinds == {"none", "init", "write", "sync", "fence", "activate"}
Phases == {"idle", "waiting", "acked", "refused", "uncertain", "unsettled",
           "claimed", "copying", "finished",
           "fencing", "frozen", "syncing", "activating", "promoted", "failed"}

Replica == [status : {"none", "pending", "syncing", "ready"},
            generation : Int, sync : Syncs \cup {None}]
Placement == [primary : Nodes, target : Nodes \cup {None}, epoch : Nat,
              generation : Nat, pending : Nat, state : {"ready", "moving"},
              replicas : [Nodes -> Replica],
              latest : SUBSET Promoters]
Call == [phase : Phases, node : Nodes \cup {None}, src : Nodes \cup {None},
         epoch : Nat, mark : Nat, snap : SUBSET Writers]
Job == [kind : Kinds, stage : Stages, got : SUBSET Writers]
Handle == [node : Nodes \cup {None}, epoch : Nat, floor : SUBSET Writers]

Unassigned == [status |-> "none", generation |-> -1, sync |-> None]
Pending == [status |-> "pending", generation |-> -1, sync |-> None]
IdleCall == [phase |-> "idle", node |-> None, src |-> None,
             epoch |-> 0, mark |-> 0, snap |-> {}]
NoJob == [kind |-> "none", stage |-> "none", got |-> {}]

\* The replicas a placement gets: `keep` first when there is room, the rest of
\* the list (its order is not modelled) up to config.replicas - 1 nodes.
Assignments(candidates, keep) ==
  {S \in SUBSET candidates :
     /\ Cardinality(S) = IF Cardinality(candidates) < ReplicaCount - 1
                           THEN Cardinality(candidates) ELSE ReplicaCount - 1
     /\ S # {} => keep \subseteq S}
Assign(S) == [n \in Nodes |-> IF n \in S THEN Pending ELSE Unassigned]

Init ==
  /\ \E first \in Nodes :
       /\ \E S \in Assignments(Nodes \ {first}, {}) :
            row = [primary |-> first, target |-> None, epoch |-> 1,
                   generation |-> 0, pending |-> 0, state |-> "ready",
                   replicas |-> Assign(S), latest |-> {}]
       /\ IF Creators = {}
            THEN /\ role = [n \in Nodes |-> IF n = first THEN "primary" ELSE "absent"]
                 /\ epoch = [n \in Nodes |-> IF n = first THEN 1 ELSE 0]
            ELSE /\ role = [n \in Nodes |-> "absent"]
                 /\ epoch = [n \in Nodes |-> 0]
  /\ refs = [n \in Nodes |-> {}]
  /\ up = [n \in Nodes |-> TRUE]
  /\ call = [c \in Callers |-> IdleCall]
  /\ job = [c \in Callers |-> NoJob]
  /\ reader = [r \in Readers |-> [node |-> None, epoch |-> 0, floor |-> {}]]

(***************************************************************************)
(* Nodes: the repository lock, the state checks, and how a job ends.       *)
(***************************************************************************)
JobNode(c) == IF job[c].kind = "fence" THEN call[c].src ELSE call[c].node
Holding(c) == job[c].stage \in {"running", "fetched", "applied"}
\* Mutant: the registry hands out a second mutex for the same repository.
SecondMutex(n) == TRUE
LockFree(n) == \A c \in Callers : Holding(c) => JobNode(c) # n

\* Mutant: operations run without waiting for the repository lock.
QueuedUnlocked(c, kinds) ==
  job[c].kind \in kinds /\ job[c].stage = "queued" /\ up[JobNode(c)]
Queued(c, kinds) ==
  /\ job[c].kind \in kinds /\ job[c].stage = "queued"
  /\ up[JobNode(c)] /\ LockFree(JobNode(c))
\* require_repository_state with allow_fenced, and without it for a writer
Snapshotable(n, e) == epoch[n] = e /\ role[n] \in Managed
Writable(n, e) == epoch[n] = e /\ role[n] = "primary"

Ask(kind) == [kind |-> kind, stage |-> "queued", got |-> {}]
SetStage(c, stage) == job' = [job EXCEPT ![c].stage = stage]
SetPhase(c, phase) == call' = [call EXCEPT ![c].phase = phase]
\* The caller returns.  An answered call leaves nothing behind; an abandoned
\* one stays with the node that may still execute it.
Return(c, phase) ==
  IF job[c].stage \in Ended
    THEN /\ call' = [call EXCEPT ![c] = [IdleCall EXCEPT !.phase = phase]]
         /\ job' = [job EXCEPT ![c] = NoJob]
    ELSE SetPhase(c, phase) /\ UNCHANGED job

(***************************************************************************)
(* Writers.                                                                *)
(***************************************************************************)
BeginWrite(w) ==
  /\ call[w].phase = "idle"
  /\ row.state = "ready"
  /\ row' = [row EXCEPT !.pending = @ + 1, !.latest = {}]
  /\ call' = [call EXCEPT ![w].phase = "waiting", ![w].node = row.primary,
                          ![w].epoch = row.epoch]
  /\ job' = [job EXCEPT ![w] = Ask(IF w \in Creators THEN "init" ELSE "write")]
  /\ UNCHANGED <<nodeVars, up, reader>>

StartWrite(w) ==
  /\ Queued(w, {"write"})
  /\ SetStage(w, IF Writable(call[w].node, call[w].epoch) THEN "running" ELSE "rejected")
  /\ UNCHANGED <<row, nodeVars, up, call, reader>>

\* initialize_primary up to the durable marker; an interrupted one resumes.
StartInit(w) ==
  LET n == call[w].node IN
  /\ Queued(w, {"init"})
  /\ IF call[w].epoch = 1 /\ role[n] \in {"absent", "initPrimary"}
       THEN /\ SetStage(w, "running")
            /\ role' = [role EXCEPT ![n] = "initPrimary"]
            /\ epoch' = [epoch EXCEPT ![n] = 1]
       ELSE SetStage(w, "rejected") /\ UNCHANGED <<role, epoch>>
  /\ UNCHANGED <<row, refs, up, call, reader>>

\* The Git operation itself: it applies, fails, or fails after it applied.
RunWrite(w) ==
  LET n == call[w].node IN
  /\ job[w].kind \in {"write", "init"} /\ job[w].stage = "running"
  /\ \/ /\ SetStage(w, "done")
        /\ refs' = [refs EXCEPT ![n] = @ \cup {w}]
        /\ role' = IF job[w].kind = "init" THEN [role EXCEPT ![n] = "primary"] ELSE role
     \/ /\ SetStage(w, "rejected")
        /\ \/ refs' = refs
           \/ refs' = [refs EXCEPT ![n] = @ \cup {w}]
        /\ role' = role
  /\ UNCHANGED <<row, epoch, up, call, reader>>

\* Mutant: finish_write filters on the project alone.
FinishAnyEpoch(w) ==
  /\ call[w].phase = "waiting" /\ job[w].stage \in {"done", "rejected", "orphan"}
  /\ row' = [row EXCEPT !.pending = @ - 1, !.generation = @ + 1, !.latest = {}]
  /\ Return(w, IF job[w].stage = "done" THEN "acked" ELSE "refused")
  /\ UNCHANGED <<nodeVars, up, reader>>
\* Mutant: every definitive answer is reported as success.
FinishAsSuccess(w) ==
  /\ call[w].phase = "waiting" /\ job[w].stage \in {"done", "rejected", "orphan"}
  /\ row.epoch = call[w].epoch /\ row.pending > 0 /\ row.state = "ready"
  /\ row' = [row EXCEPT !.pending = @ - 1, !.generation = @ + 1, !.latest = {}]
  /\ Return(w, "acked")
  /\ UNCHANGED <<nodeVars, up, reader>>
\* write_finished after an answer: a stopping node answers like a rejection.
FinishWrite(w) ==
  /\ call[w].phase = "waiting"
  /\ job[w].stage \in {"done", "rejected", "orphan"}
  /\ IF /\ row.epoch = call[w].epoch /\ row.primary = call[w].node
        /\ row.pending > 0 /\ row.state = "ready"
       THEN /\ row' = [row EXCEPT !.pending = @ - 1, !.generation = @ + 1,
                                  !.latest = {}]
            /\ Return(w, IF job[w].stage = "done" THEN "acked" ELSE "refused")
       ELSE Return(w, "unsettled") /\ UNCHANGED row
  /\ UNCHANGED <<nodeVars, up, reader>>

\* Mutant: an uncertain write is confirmed like an answered one.
GiveUpConfirmed(w) ==
  /\ call[w].phase = "waiting"
  /\ IF row.epoch = call[w].epoch /\ row.pending > 0 /\ row.state = "ready"
       THEN row' = [row EXCEPT !.pending = @ - 1, !.generation = @ + 1, !.latest = {}]
       ELSE UNCHANGED row
  /\ Return(w, "uncertain")
  /\ UNCHANGED <<nodeVars, up, reader>>
\* A lost answer, a cancelled or crashed caller: the pending marker stays.
GiveUp(w) ==
  /\ call[w].phase = "waiting"
  /\ Return(w, "uncertain")
  /\ UNCHANGED <<row, nodeVars, up, reader>>

(***************************************************************************)
(* Replication: replicate_tick, and SyncReplica on the destination.        *)
(***************************************************************************)
\* Mutant: a replica that is Syncing is never claimed again.
ClaimIdleReplica(s, n) ==
  /\ call[s].phase = "idle"
  /\ row.state = "ready" /\ row.pending = 0
  /\ row.replicas[n].status \notin {"none", "syncing"}
  /\ ~(row.replicas[n].status = "ready" /\ row.replicas[n].generation = row.generation)
  /\ row' = [row EXCEPT !.replicas[n] = [@ EXCEPT !.status = "syncing", !.sync = s],
                        !.latest = {}]
  /\ call' = [call EXCEPT ![s] = [phase |-> "claimed", node |-> n, src |-> row.primary,
                                  epoch |-> row.epoch, mark |-> row.generation,
                                  snap |-> {}]]
  /\ UNCHANGED <<nodeVars, up, job, reader>>
\* Which row a tick gets to is a matter of Fairness.  A replica that is Syncing
\* may be claimed again: its hour may have passed.
ClaimSync(s, n) ==
  LET r == row.replicas[n] IN
  /\ call[s].phase = "idle"
  /\ row.state = "ready" /\ row.pending = 0
  /\ r.status # "none"
  /\ ~(r.status = "ready" /\ r.generation = row.generation)
  /\ row' = [row EXCEPT !.replicas[n] = [@ EXCEPT !.status = "syncing", !.sync = s],
                        !.latest = {}]
  /\ call' = [call EXCEPT ![s] = [phase |-> "claimed", node |-> n, src |-> row.primary,
                                  epoch |-> row.epoch, mark |-> row.generation,
                                  snap |-> {}]]
  /\ UNCHANGED <<nodeVars, up, job, reader>>

\* copy_replica: the snapshot to compare with, then the call to the replica.
SnapshotSource(s) ==
  LET src == call[s].src IN
  /\ call[s].phase = "claimed"
  /\ up[src] /\ LockFree(src)
  /\ call' = [call EXCEPT ![s].phase = "copying", ![s].snap = refs[src]]
  /\ job' = [job EXCEPT ![s] =
               [Ask("sync") EXCEPT !.stage =
                 IF Snapshotable(src, call[s].epoch) THEN "queued" ELSE "rejected"]]
  /\ UNCHANGED <<row, nodeVars, up, reader>>

\* Mutant: a late synchronization is not compared with the stored epoch.
StartStaleSync(c) ==
  LET n == call[c].node e == call[c].epoch IN
  /\ Queued(c, {"sync"})
  /\ role[n] \in {"absent", "replica", "fenced", "initReplica"}
  /\ SetStage(c, "running")
  /\ IF role[n] \in {"absent", "initReplica"}
       THEN /\ role' = [role EXCEPT ![n] = "initReplica"]
            /\ epoch' = [epoch EXCEPT ![n] = e]
       ELSE UNCHANGED <<role, epoch>>
  /\ UNCHANGED <<row, refs, up, call, reader>>
Copyable(n, e) ==
  role[n] \in {"absent", "replica", "fenced", "initReplica"} /\ e >= epoch[n]
StartSync(c) ==
  LET n == call[c].node e == call[c].epoch IN
  /\ Queued(c, {"sync"})
  /\ IF Copyable(n, e)
       THEN /\ SetStage(c, "running")
            /\ IF role[n] \in {"absent", "initReplica"}
                 THEN /\ role' = [role EXCEPT ![n] = "initReplica"]
                      /\ epoch' = [epoch EXCEPT ![n] = e]
                 ELSE UNCHANGED <<role, epoch>>
       ELSE SetStage(c, "rejected") /\ UNCHANGED <<role, epoch>>
  /\ UNCHANGED <<row, refs, up, call, reader>>

\* The bundle is cut under the repository lock of the source.
FetchBundle(c) ==
  LET src == call[c].src IN
  /\ job[c].kind = "sync" /\ job[c].stage = "running"
  /\ up[src] /\ LockFree(src)
  /\ job' = [job EXCEPT ![c] =
               IF Snapshotable(src, call[c].epoch)
                 THEN [@ EXCEPT !.stage = "fetched", !.got = refs[src]]
                 ELSE [@ EXCEPT !.stage = "rejected"]]
  /\ UNCHANGED <<row, nodeVars, up, call, reader>>

\* One reference transaction mirrors the snapshot, then the state file is saved.
ApplyBundle(c) ==
  /\ job[c].kind = "sync" /\ job[c].stage = "fetched"
  /\ refs' = [refs EXCEPT ![call[c].node] = job[c].got]
  /\ SetStage(c, "applied")
  /\ UNCHANGED <<row, role, epoch, up, call, reader>>

SaveReplica(c) ==
  /\ job[c].kind = "sync" /\ job[c].stage = "applied"
  /\ role' = [role EXCEPT ![call[c].node] = "replica"]
  /\ epoch' = [epoch EXCEPT ![call[c].node] = call[c].epoch]
  /\ SetStage(c, "done")
  /\ UNCHANGED <<row, refs, up, call, reader>>

\* Source unreachable, timeout, verification failure, cancellation.
FailSync(c) ==
  /\ job[c].kind = "sync" /\ Holding(c)
  /\ SetStage(c, "rejected")
  /\ UNCHANGED <<row, nodeVars, up, call, reader>>

RecordSync(s, ready) ==
  LET n == call[s].node IN
  IF row.epoch = call[s].epoch /\ row.replicas[n].sync = s
    THEN row' = [row EXCEPT !.latest = {}, !.replicas[n] =
                   IF ready THEN [status |-> "ready", generation |-> call[s].mark,
                                  sync |-> None]
                            ELSE Pending]
    ELSE UNCHANGED row

FinishSync(s) ==
  /\ call[s].phase = "copying" /\ job[s].stage \in Ended
  /\ RecordSync(s, /\ job[s].stage = "done" /\ job[s].got = call[s].snap
                   /\ row.state = "ready" /\ row.pending = 0
                   /\ row.generation = call[s].mark)
  /\ Return(s, "finished")
  /\ UNCHANGED <<nodeVars, up, reader>>

\* A call that fails or times out is recorded the same way, as a failure; the
\* destination may still execute it.
AbortSync(s) ==
  /\ call[s].phase \in {"claimed", "copying"}
  /\ RecordSync(s, FALSE)
  /\ Return(s, "finished")
  /\ UNCHANGED <<nodeVars, up, reader>>

\* The worker's process stops or crashes: nothing is recorded, the replica stays
\* "syncing" until another attempt takes it over.
LoseSync(s) ==
  /\ call[s].phase \in {"claimed", "copying"}
  /\ Return(s, "finished")
  /\ UNCHANGED <<row, nodeVars, up, reader>>

\* The next tick of the same worker is a new attempt with a new sync_id.
NextTick(s) ==
  /\ Retick
  /\ call[s].phase = "finished" /\ job[s].stage \in Ended
  /\ Return(s, "idle")
  /\ UNCHANGED <<row, nodeVars, up, reader>>

(***************************************************************************)
(* Controlled promotion.                                                   *)
(***************************************************************************)
\* Mutant: a move in progress may be taken over towards another target.
RetargetPromote(p, t) ==
  /\ call[p].phase = "idle"
  /\ row.state = "ready" => up[row.primary] /\ up[t]
  /\ row' = [row EXCEPT !.state = "moving", !.target = t, !.latest = {p}]
  /\ call' = [call EXCEPT ![p] = [phase |-> "fencing", node |-> t, src |-> row.primary,
                                  epoch |-> row.epoch + 1, mark |-> 0,
                                  snap |-> {}]]
  /\ job' = [job EXCEPT ![p] = Ask("fence")]
  /\ UNCHANGED <<nodeVars, up, reader>>
StartPromote(p, t) ==
  /\ call[p].phase = "idle"
  /\ \/ /\ row.state = "ready"
        /\ up[row.primary] /\ up[t]
        /\ row' = [row EXCEPT !.state = "moving", !.target = t, !.latest = {p}]
     \/ /\ row.state = "moving" /\ row.target = t
        /\ row' = [row EXCEPT !.latest = @ \cup {p}]
  /\ call' = [call EXCEPT ![p] = [phase |-> "fencing", node |-> t, src |-> row.primary,
                                  epoch |-> row.epoch + 1, mark |-> 0,
                                  snap |-> {}]]
  /\ job' = [job EXCEPT ![p] = Ask("fence")]
  /\ UNCHANGED <<nodeVars, up, reader>>

AlreadyFenced(n, next) == role[n] = "fenced" /\ epoch[n] = next
Fenceable(n, next) == role[n] \in Managed /\ epoch[n] = next - 1

ExecFence(p) ==
  LET n == call[p].src next == call[p].epoch
      answer == [job EXCEPT ![p].stage = "done", ![p].got = refs[n]]
  IN
  /\ Queued(p, {"fence"})
  /\ \/ AlreadyFenced(n, next) /\ job' = answer /\ UNCHANGED <<role, epoch>>
     \/ /\ Fenceable(n, next) /\ job' = answer
        /\ role' = [role EXCEPT ![n] = "fenced"]
        /\ epoch' = [epoch EXCEPT ![n] = next]
     \/ /\ ~AlreadyFenced(n, next) /\ ~Fenceable(n, next)
        /\ SetStage(p, "rejected")
        /\ UNCHANGED <<role, epoch>>
  /\ UNCHANGED <<row, refs, up, call, reader>>

Frozen(p) ==
  /\ call[p].phase = "fencing" /\ job[p].stage = "done"
  /\ call' = [call EXCEPT ![p].phase = "frozen", ![p].snap = job[p].got]
  /\ UNCHANGED <<row, nodeVars, up, job, reader>>

\* Mutant: a target that answers is activated without the comparison.
TrustTarget(p) ==
  LET t == call[p].node IN
  /\ call[p].phase = "frozen"
  /\ IF t = call[p].src \/ Snapshotable(t, epoch[t])
       THEN SetPhase(p, "activating") /\ job' = [job EXCEPT ![p] = Ask("activate")]
       ELSE SetPhase(p, "syncing") /\ job' = [job EXCEPT ![p] = Ask("sync")]
  /\ UNCHANGED <<row, nodeVars, up, reader>>
\* The target is compared with the frozen snapshot; a mismatch, and any failure
\* of that comparison, orders a final synchronization.
CheckTarget(p) ==
  LET t == call[p].node IN
  /\ call[p].phase = "frozen"
  /\ \/ /\ \/ t = call[p].src
           \/ /\ up[t] /\ LockFree(t) /\ Snapshotable(t, call[p].epoch)
              /\ refs[t] = call[p].snap
        /\ SetPhase(p, "activating")
        /\ job' = [job EXCEPT ![p] = Ask("activate")]
     \/ /\ t # call[p].src
        /\ SetPhase(p, "syncing")
        /\ job' = [job EXCEPT ![p] = Ask("sync")]
  /\ UNCHANGED <<row, nodeVars, up, reader>>

TargetSynced(p) ==
  /\ call[p].phase = "syncing" /\ job[p].stage = "done"
  /\ job[p].got = call[p].snap
  /\ SetPhase(p, "activating")
  /\ job' = [job EXCEPT ![p] = Ask("activate")]
  /\ UNCHANGED <<row, nodeVars, up, reader>>

Activatable(n, e) == role[n] \in Managed /\ e >= epoch[n]
ExecActivate(p) ==
  LET t == call[p].node e == call[p].epoch IN
  /\ Queued(p, {"activate"})
  /\ IF Activatable(t, e)
       THEN /\ role' = [role EXCEPT ![t] = "primary"]
            /\ epoch' = [epoch EXCEPT ![t] = e]
            /\ job' = [job EXCEPT ![p].stage = "done", ![p].got = refs[t]]
       ELSE SetStage(p, "rejected") /\ UNCHANGED <<role, epoch>>
  /\ UNCHANGED <<row, refs, up, call, reader>>

CompletePromote(p) ==
  LET t == call[p].node
      old == {row.primary} \ {t}
      candidates == (old \cup {n \in Nodes : row.replicas[n].status # "none"}) \ {t}
  IN
  /\ call[p].phase = "activating" /\ job[p].stage = "done"
  /\ job[p].got = call[p].snap
  /\ IF p \in row.latest
       THEN /\ \E S \in Assignments(candidates, old) :
                 row' = [row EXCEPT !.primary = t, !.target = None,
                           !.epoch = call[p].epoch, !.generation = @ + 1,
                           !.pending = 0, !.state = "ready",
                           !.replicas = Assign(S), !.latest = {}]
            /\ Return(p, "promoted")
       ELSE Return(p, "failed") /\ UNCHANGED row
  /\ UNCHANGED <<nodeVars, up, reader>>

\* Any error, a lost answer or a crash of the operator's process.
FailPromote(p) ==
  /\ call[p].phase \in {"fencing", "frozen", "syncing", "activating"}
  /\ Return(p, "failed")
  /\ UNCHANGED <<row, nodeVars, up, reader>>

(***************************************************************************)
(* Routed reads, and nodes that crash, stop and restart.                   *)
(***************************************************************************)
\* Mutants: one of the two conditions of readable_nodes is forgotten.
ReadableWhilePending ==
  {row.primary} \cup
  {n \in Nodes : /\ row.state = "ready" /\ row.replicas[n].status = "ready"
                 /\ row.replicas[n].generation = row.generation}
ReadableOldGeneration ==
  {row.primary} \cup
  {n \in Nodes : /\ row.state = "ready" /\ row.pending = 0
                 /\ row.replicas[n].status = "ready"}
Readable ==
  {row.primary} \cup
  {n \in Nodes : /\ row.state = "ready" /\ row.pending = 0
                 /\ row.replicas[n].status = "ready"
                 /\ row.replicas[n].generation = row.generation}

Acked == {w \in Writers : call[w].phase = "acked"}

\* node_for: the handle outlives the row it was computed from.
RouteRead(r) ==
  /\ row.state = "ready"
  /\ \E n \in Readable :
       /\ up[n]
       /\ reader' = [reader EXCEPT ![r] = [node |-> n, epoch |-> row.epoch,
                                           floor |-> Acked]]
  /\ UNCHANGED <<row, nodeVars, up, call, job>>

Serves(n, e) == up[n] /\ epoch[n] = e /\ role[n] \in {"primary", "replica"}

OnNode(c, n) == job[c].kind # "none" /\ JobNode(c) = n

\* Kill the process of n and start it again: what was running is gone.  (A native
\* receive-pack is a process group of its own, protocol.rs; that the kill reaches
\* it too, as that of the node's container does, is assumed.)
Crash(n) ==
  /\ \E c \in Callers : OnNode(c, n) /\ Holding(c)
  /\ job' = [c \in Callers |-> IF OnNode(c, n) /\ Holding(c)
                                 THEN [job[c] EXCEPT !.stage = "lost"] ELSE job[c]]
  /\ UNCHANGED <<row, nodeVars, up, call, reader>>

\* stop_workers: the future of a write is dropped with its lock and answered
\* FailedPrecondition, its blocking Git call keeps running; a sync is cancelled.
\* (A node that stops while it runs nothing only delays what is queued.)
Stop(n) ==
  /\ up[n]
  /\ \E c \in Callers : OnNode(c, n) /\ Holding(c)
  /\ up' = [up EXCEPT ![n] = FALSE]
  /\ job' = [c \in Callers |->
               IF OnNode(c, n) /\ Holding(c)
                 THEN [job[c] EXCEPT !.stage = IF c \in Writers THEN "orphan" ELSE "rejected"]
                 ELSE job[c]]
  /\ UNCHANGED <<row, nodeVars, call, reader>>

\* The blocking call of a dropped write completes while the process exits.
LandOrphan(w) ==
  /\ job[w].stage = "orphan" /\ ~up[call[w].node]
  /\ refs' = [refs EXCEPT ![call[w].node] = @ \cup {w}]
  /\ SetStage(w, "rejected")
  /\ UNCHANGED <<row, role, epoch, up, call, reader>>

\* A write that waited for the lock when the node stopped never starts.
RejectStopping(w) ==
  /\ job[w].stage = "queued" /\ ~up[call[w].node]
  /\ SetStage(w, "rejected")
  /\ UNCHANGED <<row, nodeVars, up, call, reader>>

Restart(n) ==
  /\ ~up[n]
  /\ up' = [up EXCEPT ![n] = TRUE]
  /\ job' = [c \in Callers |-> IF OnNode(c, n) /\ job[c].stage = "orphan"
                                 THEN [job[c] EXCEPT !.stage = "rejected"] ELSE job[c]]
  /\ UNCHANGED <<row, nodeVars, call, reader>>

WriteStep(w) ==
  \/ BeginWrite(w) \/ StartWrite(w) \/ StartInit(w) \/ RunWrite(w)
  \/ FinishWrite(w) \/ GiveUp(w) \/ LandOrphan(w) \/ RejectStopping(w)
ReplicateStep(s) ==
  \/ \E n \in Nodes : ClaimSync(s, n)
  \/ SnapshotSource(s) \/ FinishSync(s) \/ AbortSync(s) \/ LoseSync(s)
  \/ NextTick(s)
CopyStep(c) ==
  StartSync(c) \/ FetchBundle(c) \/ ApplyBundle(c) \/ SaveReplica(c) \/ FailSync(c)
PromoteStep(p) ==
  \/ \E t \in Nodes : StartPromote(p, t)
  \/ ExecFence(p) \/ Frozen(p) \/ CheckTarget(p) \/ TargetSynced(p)
  \/ ExecActivate(p) \/ CompletePromote(p) \/ FailPromote(p)
NodeStep(n) == Crash(n) \/ Stop(n) \/ Restart(n)

Next ==
  \/ \E w \in Writers : WriteStep(w)
  \/ \E s \in Syncs : ReplicateStep(s)
  \/ \E c \in Syncs \cup Promoters : CopyStep(c)
  \/ \E p \in Promoters : PromoteStep(p)
  \/ \E n \in Nodes : NodeStep(n)
  \/ \E r \in Readers : RouteRead(r)

Spec == Init /\ [][Next]_vars

\* A tick reads the rows that were not replaced for the longest time, at most this
\* many.  It skips a settled row, and one with a pending write, without replacing
\* it, so such a row keeps its place: in a larger catalog a row that was written a
\* moment ago may never be reached.
ScanLimit == 100
Scanned == Placements <= ScanLimit

\* A worker ticks for ever (module.rs) and claims a replica of every row its tick
\* reads, the repository mutex is served in order (so a waiting call gets it), a
\* running Git operation ends, and a stopped node is started again.  Nothing is
\* assumed of writers, operators and readers.
Fairness ==
  /\ Scanned => \A s \in Syncs : WF_vars(\E n \in Nodes : ClaimSync(s, n))
  /\ \A s \in Syncs : /\ SF_vars(SnapshotSource(s))
                      /\ WF_vars(FinishSync(s)) /\ WF_vars(NextTick(s))
  /\ \A c \in Syncs \cup Promoters :
       /\ SF_vars(StartSync(c)) /\ SF_vars(FetchBundle(c))
       /\ WF_vars(ApplyBundle(c)) /\ WF_vars(SaveReplica(c))
  /\ \A w \in Writers : WF_vars(RunWrite(w))
  /\ \A n \in Nodes : WF_vars(Restart(n))

FairSpec == Spec /\ Fairness

(***************************************************************************)
(* Properties.                                                             *)
(***************************************************************************)
\* Every variable has the shape of the record or map it stands for.
TypeOK ==
  /\ row \in Placement
  /\ role \in [Nodes -> Roles]
  /\ epoch \in [Nodes -> Nat]
  /\ refs \in [Nodes -> SUBSET Writers]
  /\ up \in [Nodes -> BOOLEAN]
  /\ call \in [Callers -> Call]
  /\ job \in [Callers -> Job]
  /\ reader \in [Readers -> Handle]

\* At no moment do two nodes believe that they own the repository: fencing the
\* old primary, activating the target and moving the row are separate steps of
\* operators that may crash, overlap and answer late.
OnePrimary ==
  \A m, n \in Nodes : role[m] = "primary" /\ role[n] = "primary" => m = n

\* A handover that was abandoned can be carried through by another call for the
\* same target, after whatever steps of whichever operators: the fence, the final
\* copy or the comparison, and the activation will be accepted.  The row takes
\* neither writes nor another target before it is.  What cannot be carried
\* through is a move of a repository that was never written, and one to the
\* primary itself that has got as far as the activation.
ActivatedAgain ==
  row.target = row.primary /\ role[row.primary] = "primary" /\ epoch[row.primary] > row.epoch
HandoverCanResume ==
  LET next == row.epoch + 1 t == row.target IN
  row.state = "moving" /\ role[row.primary] \in Managed /\ ~ActivatedAgain =>
    /\ AlreadyFenced(row.primary, next) \/ Fenceable(row.primary, next)
    /\ \/ t = row.primary
       \/ Copyable(t, next)
       \/ Activatable(t, next) /\ Snapshotable(t, next) /\ refs[t] = refs[row.primary]

\* deployment_api.rs tells the operator of a handover that failed to retry the
\* same target: when nobody promotes any more, the fence of a retry is accepted.
Promoting(p) == call[p].phase \in {"fencing", "frozen", "syncing", "activating"}
RetryIsAccepted ==
  row.state = "moving" /\ (\A p \in Promoters : ~Promoting(p)) =>
    \/ AlreadyFenced(row.primary, row.epoch + 1)
    \/ Fenceable(row.primary, row.epoch + 1)

\* A write the caller saw confirmed is on the node the catalog names, whatever
\* promotions, crashes and late synchronizations happened since.
AckedWritesSurvive == Acked \subseteq refs[row.primary]

\* No node holds a write its primary lacks, so no mirroring synchronization and
\* no promotion can lose one: a fenced or lagging copy is behind, never aside.
NoDivergence == \A n \in Nodes : refs[n] \subseteq refs[row.primary]

\* data-flows.md: a replica the router may choose, and that would serve at the
\* epoch of the row, has exactly the references of the primary.
ReadableReplicasCurrent ==
  \A n \in Readable : Serves(n, row.epoch) => refs[n] = refs[row.primary]

\* A routed read that the chosen node still accepts sees every write confirmed
\* before it was routed, however late the request reaches the node.
RoutedReadsSeeAcked ==
  \A r \in Readers :
    LET h == reader[r] IN
    h.node # None /\ Serves(h.node, h.epoch) => h.floor \subseteq refs[h.node]

\* transport.rs: only a completed rejection proves that no writer is left
\* running.  A write answered like a rejection cannot take effect afterwards.
RejectionLeavesNoWriter ==
  \A w \in Writers : call[w].phase = "refused" => job[w].stage # "orphan"

\* The pending marker, which keeps reads on the primary, counts every write of the
\* epoch of the row that is queued or running at the primary.  What it does not
\* count is a write that a stopping node has answered like a rejection while its
\* Git operation goes on (see RejectionLeavesNoWriter).
PendingCoversWriters ==
  row.state = "ready" =>
    Cardinality({w \in Writers : /\ call[w].node = row.primary
                                 /\ call[w].epoch = row.epoch
                                 /\ job[w].stage \in {"queued", "running"}})
      <= row.pending

\* The primary changes only to a node that holds what the old one holds, and the
\* epoch of the row grows by exactly one with it.
PromotionKeepsContent ==
  [][row'.epoch # row.epoch =>
       /\ row'.epoch = row.epoch + 1
       /\ refs[row'.primary] = refs[row.primary]]_vars

\* Once faults end, a settled placement that a tick reads does not stay behind:
\* every assigned replica is marked current, unless a new write or promotion
\* intervenes.
Fault == \/ \E n \in Nodes : Crash(n) \/ Stop(n)
         \/ \E c \in Syncs \cup Promoters : FailSync(c)
         \/ \E s \in Syncs : AbortSync(s) \/ LoseSync(s)
Behind ==
  /\ row.state = "ready" /\ row.pending = 0
  /\ Writable(row.primary, row.epoch)
  /\ \E n \in Nodes : row.replicas[n].status # "none" /\ n \notin Readable
ReplicasCatchUp == <>[][~Fault]_vars => (Behind ~> ~Behind)

\* The cluster implements the one-copy repository: whatever the placement row
\* names as primary, its references are that copy, and a promotion, a late
\* synchronization or a crash is a step nobody who writes can see.
OneCopy == INSTANCE GitRepository WITH
  issued <- {w \in Writers : call[w].phase # "idle"},
  content <- refs[row.primary],
  confirmed <- Acked
ImplementsOneCopy == OneCopy!Spec

\* What a node stored as its epoch never decreases, also across late jobs.
NodeEpochsGrow == [][\A n \in Nodes : epoch'[n] >= epoch[n]]_vars

=============================================================================
