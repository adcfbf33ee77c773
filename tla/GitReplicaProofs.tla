--------------------------- MODULE GitReplicaProofs ---------------------------
(***************************************************************************)
(* What readers rely on in GitCluster, for any number of nodes, writers,   *)
(* replication workers, promotions and readers: the pending marker counts  *)
(* every write that may still run, and a replica that is marked current    *)
(* has what was confirmed, and all the primary has while nothing is        *)
(* pending.                                                                *)
(***************************************************************************)
EXTENDS GitContentProofs, FiniteSetTheorems

\* Writes of the current epoch that may still change the primary, or that have
\* not been settled.
Unsettled(w) ==
  /\ call[w].node = row.primary /\ call[w].epoch = row.epoch
  /\ \/ job[w].stage \in {"queued", "running"}
     \/ job[w].stage = "orphan" /\ call[w].phase # "refused"
     \/ call[w].phase = "waiting"
UnsettledWrites == {w \in Writers : Unsettled(w)}

\* An orphan whose marker has been removed already: the finding of gc_stop.
Overlooked(w) ==
  job[w].stage = "orphan" /\ call[w].phase = "refused" /\ call[w].epoch = row.epoch

Calm == row.state = "ready" /\ row.pending = 0
Current(n) ==
  row.replicas[n].status = "ready" /\ row.replicas[n].generation = row.generation
\* A synchronization whose result may still be recorded as current.
Comparing(s) ==
  /\ call[s].phase = "copying" /\ call[s].epoch = row.epoch
  /\ call[s].mark = row.generation

PendingCovers == Cardinality(UnsettledWrites) <= row.pending

\* No mark is ahead of the generation of the row.
MarksKnown ==
  /\ \A n \in Nodes : row.replicas[n].generation <= row.generation
  /\ \A s \in Syncs : call[s].mark <= row.generation

CurrentCopies ==
  \A n \in Nodes : Current(n) =>
    Acked \subseteq refs[n] /\ (Calm => refs[n] = refs[row.primary])
ComparedCopies ==
  \A s \in Syncs : Comparing(s) =>
    Acked \subseteq call[s].snap /\ (Calm => call[s].snap = refs[row.primary])

\* While an overlooked orphan may land, nothing is current or becomes so: its
\* node, the primary, cannot be read or copied before it is started again.
OverlookedHidden ==
  \A w \in Writers : Overlooked(w) =>
    (\A n \in Nodes : ~Current(n)) /\ (\A s \in Syncs : ~Comparing(s))
RefusedEnded ==
  \A w \in Writers : call[w].phase = "refused" => job[w].stage \notin {"queued", "running"}
HandlesKept ==
  \A r \in Readers :
    reader[r].node # None => reader[r].floor \subseteq refs[reader[r].node]

ReplicaInv ==
  /\ PendingCovers /\ MarksKnown /\ CurrentCopies /\ ComparedCopies
  /\ OverlookedHidden /\ RefusedEnded /\ HandlesKept

-----------------------------------------------------------------------------
LEMMA UnsettledFinite ==
  /\ IsFiniteSet(UnsettledWrites) /\ Cardinality(UnsettledWrites) \in Nat
<1>1. UnsettledWrites \in SUBSET Writers
  BY DEF UnsettledWrites
<1>2. IsFiniteSet(UnsettledWrites)
  BY <1>1, ClusterAssumption, FS_Subset
<1>3. QED
  BY <1>2, FS_CardinalityType

LEMMA FewerUnsettled ==
  ASSUME \A w \in Writers : Unsettled(w)' => Unsettled(w)
  PROVE  Cardinality(UnsettledWrites') <= Cardinality(UnsettledWrites)
<1>1. UnsettledWrites' \in SUBSET UnsettledWrites
  BY DEF UnsettledWrites
<1>2. QED
  BY <1>1, UnsettledFinite, FS_Subset

\* While nothing is pending nobody writes at the primary, except an orphan that
\* was overlooked; and while one may land, nothing is current.
LEMMA CalmPrimary ==
  ASSUME ContentInv, ReplicaInv, Calm, NEW w \in Writers, Writing(w)
  PROVE  /\ \A n \in Nodes : ~Current(n)
         /\ \A s \in Syncs : ~Comparing(s)
<1>1. call[w].node = row.primary /\ call[w].epoch = row.epoch
  BY WriterOnPrimary
<1>2. Cardinality(UnsettledWrites) = 0
  BY UnsettledFinite DEF ReplicaInv, PendingCovers, Calm
<1>3. UnsettledWrites = {}
  BY <1>2, UnsettledFinite, FS_EmptySet
<1>4. ~Unsettled(w)
  BY <1>3 DEF UnsettledWrites
<1>5. Overlooked(w)
  BY <1>1, <1>4 DEF Unsettled, Overlooked, Writing
<1>6. QED
  BY <1>5 DEF ReplicaInv, OverlookedHidden

-----------------------------------------------------------------------------
\* Steps after which nothing is more current, or less settled, than before.
Milder(w) ==
  /\ Unsettled(w)' => Unsettled(w)
  /\ Overlooked(w)' => Overlooked(w)
  /\ call'[w].phase = "refused" => /\ call[w].phase = "refused"
                                   /\ \/ job'[w].stage \notin {"queued", "running"}
                                      \/ job[w].stage \in {"queued", "running"}

Dull ==
  /\ OwnerKept /\ row'.generation = row.generation /\ row'.pending = row.pending
  /\ Calm' => Calm
  /\ \A n \in Nodes : \/ row'.replicas[n] = row.replicas[n]
                      \/ row'.replicas[n] = Pending
                      \/ /\ row'.replicas[n].status = "syncing"
                         /\ row'.replicas[n].generation = row.replicas[n].generation
  /\ Acked' \subseteq Acked
  /\ \A w \in Writers : Milder(w)
  /\ \A s \in Syncs : \/ call'[s] = call[s]
                      \/ call'[s].phase # "copying" /\ call'[s].mark <= row.generation
  /\ \A n \in Nodes : refs[n] \subseteq refs'[n]
  /\ refs'[row.primary] = refs[row.primary] \/ \E w \in Writers : Writing(w)
  /\ reader' = reader

LEMMA DullStep ==
  ASSUME ContentInv, ContentInv', ReplicaInv, Dull PROVE ReplicaInv'
<1>0. /\ TypeOK /\ row.primary \in Nodes /\ row.pending \in Nat /\ row.generation \in Nat
      /\ row'.primary = row.primary /\ row'.epoch = row.epoch
      /\ row'.generation = row.generation /\ row'.pending = row.pending
  BY ContentParts, RowFields DEF Dull, OwnerKept
<1>1. PendingCovers'
  <2>1. Cardinality(UnsettledWrites') <= Cardinality(UnsettledWrites)
    BY FewerUnsettled DEF Dull, Milder
  <2>2. Cardinality(UnsettledWrites') \in Nat
    <3>1. UnsettledWrites' \in SUBSET Writers
      BY DEF UnsettledWrites
    <3>2. QED
      BY <3>1, ClusterAssumption, FS_Subset, FS_CardinalityType
  <2>3. QED
    BY <1>0, <2>1, <2>2, UnsettledFinite DEF ReplicaInv, PendingCovers
<1>2. MarksKnown'
  BY <1>0 DEF ReplicaInv, MarksKnown, Dull, Pending
<1>3. \A n \in Nodes : Current(n)' => Current(n)
  BY <1>0 DEF Dull, Current, Pending
<1>4. \A s \in Syncs : Comparing(s)' => Comparing(s) /\ call'[s].snap = call[s].snap
  BY <1>0 DEF Dull, Comparing
<1>5. \A n \in Nodes : refs'[n] \subseteq refs'[row.primary]
  BY <1>0, ContentParts DEF ContentInv, NodesFine, NoDivergence
<1>6. CurrentCopies'
  <2> SUFFICES ASSUME NEW n \in Nodes, Current(n)'
               PROVE  /\ Acked' \subseteq refs'[n]
                      /\ Calm' => refs'[n] = refs'[row'.primary]
    BY DEF CurrentCopies
  <2>1. Current(n) /\ Acked \subseteq refs[n] /\ (Calm => refs[n] = refs[row.primary])
    BY <1>3 DEF ReplicaInv, CurrentCopies
  <2>2. Calm => refs'[row.primary] = refs[row.primary]
    BY <2>1, CalmPrimary DEF Dull
  <2>3. QED
    BY <1>0, <1>5, <2>1, <2>2 DEF Dull
<1>7. ComparedCopies'
  <2> SUFFICES ASSUME NEW s \in Syncs, Comparing(s)'
               PROVE  /\ Acked' \subseteq call'[s].snap
                      /\ Calm' => call'[s].snap = refs'[row'.primary]
    BY DEF ComparedCopies
  <2>1. Comparing(s) /\ call'[s].snap = call[s].snap
    BY <1>4
  <2>2. Calm => refs'[row.primary] = refs[row.primary]
    BY <2>1, CalmPrimary DEF Dull
  <2>3. QED
    BY <1>0, <2>1, <2>2 DEF Dull, ReplicaInv, ComparedCopies
<1>8. OverlookedHidden'
  BY <1>3, <1>4 DEF Dull, Milder, ReplicaInv, OverlookedHidden
<1>9. RefusedEnded'
  BY DEF Dull, Milder, ReplicaInv, RefusedEnded
<1>10. HandlesKept'
  <2> SUFFICES ASSUME NEW r \in Readers, reader[r].node # None
               PROVE  reader[r].floor \subseteq refs'[reader[r].node]
    BY DEF HandlesKept, Dull
  <2>1. reader[r].node \in Nodes
    BY <1>0 DEF TypeOK, Handle
  <2>2. QED
    BY <2>1 DEF ReplicaInv, HandlesKept, Dull
<1>11. QED
  BY <1>1, <1>2, <1>6, <1>7, <1>8, <1>9, <1>10 DEF ReplicaInv

-----------------------------------------------------------------------------
\* Steps that leave the row and the callers alone, and the jobs of writers too.

LEMMA SameRowFields ==
  ASSUME row' = row
  PROVE  /\ OwnerKept /\ row'.generation = row.generation /\ row'.pending = row.pending
         /\ Calm' => Calm
         /\ \A n \in Nodes : row'.replicas[n] = row.replicas[n]
BY DEF OwnerKept, Calm

LEMMA SameCallMilder ==
  ASSUME OwnerKept, NEW w, call'[w] = call[w], job'[w].stage = job[w].stage
  PROVE  Milder(w)
BY DEF OwnerKept, Milder, Unsettled, Overlooked

\* A job that has ended, or was let in.
LEMMA EndedMilder ==
  ASSUME OwnerKept, NEW w, call'[w] = call[w],
         \/ job'[w].stage \in {"done", "rejected", "lost"}
         \/ job'[w].stage = "running" /\ job[w].stage = "queued"
         \/ /\ job'[w].stage = "orphan" /\ job[w].stage = "running"
            /\ call[w].phase # "refused"
  PROVE  Milder(w)
BY DEF OwnerKept, Milder, Unsettled, Overlooked

\* A caller that returns without having settled its write.
LEMMA ReturnMilder ==
  ASSUME ContentInv, OwnerKept, NEW w \in Writers, NEW phase \in {"uncertain", "unsettled"},
         call[w].phase = "waiting", Return(w, phase)
  PROVE  Milder(w)
<1>0. w \in Callers /\ TypeOK
  BY ContentParts DEF Callers
<1>1. call'[w].phase = phase
  BY <1>0, ReturnPhase
<1>2. CASE job[w].stage \in Ended
  <2>1. job'[w].stage = "none"
    BY <1>0, <1>2 DEF Return, NoJob, TypeOK
  <2>2. call'[w].node = None
    <3>1. call'[w] = [IdleCall EXCEPT !.phase = phase]
      BY <1>0, <1>2 DEF Return, TypeOK
    <3>2. QED
      BY <3>1 DEF IdleCall
  <2>3. None # row.primary /\ row'.primary = row.primary
    BY <1>0, RowFields, ClusterAssumption DEF OwnerKept
  <2>4. QED
    BY <1>1, <2>1, <2>2, <2>3 DEF Milder, Unsettled, Overlooked
<1>3. CASE job[w].stage \notin Ended
  <2>1. /\ job' = job /\ call'[w].node = call[w].node /\ call'[w].epoch = call[w].epoch
    BY <1>0, <1>3, SetPhaseEffect DEF Return, Phases
  <2>2. QED
    BY <1>1, <2>1 DEF Milder, Unsettled, Overlooked, OwnerKept
<1>4. QED
  BY <1>2, <1>3

\* A step of one writer: the synchronizations and the readers do not notice.
LEMMA OneWriterDull ==
  ASSUME ContentInv, NEW w \in Writers, row' = row, reader' = reader, Milder(w),
         \A d \in Callers : d # w => call'[d] = call[d] /\ job'[d] = job[d],
         call'[w].phase # "acked" \/ call[w].phase = "acked",
         \/ refs' = refs
         \/ Writing(w) /\ refs' = [refs EXCEPT ![call[w].node] = @ \cup {w}]
  PROVE  Dull
<1>0. TypeOK
  BY ContentParts
<1>1. \A v \in Writers : v # w => Milder(v)
  BY SameRowFields, SameCallMilder DEF Callers
<1>2. Acked' \subseteq Acked
  BY DEF Acked, Callers
<1>3. \A s \in Syncs : call'[s] = call[s]
  BY Disjoint DEF Callers
<1>4. \A n \in Nodes : refs[n] \subseteq refs'[n]
  BY <1>0 DEF TypeOK
<1>5. refs'[row.primary] = refs[row.primary] \/ \E v \in Writers : Writing(v)
  OBVIOUS
<1>6. QED
  BY <1>1, <1>2, <1>3, <1>4, <1>5, SameRowFields DEF Dull

LEMMA WriterDull ==
  ASSUME ContentInv, ReplicaInv, NEW w \in Writers,
         \/ StartWrite(w) \/ StartInit(w) \/ RunWrite(w) \/ GiveUp(w)
         \/ LandOrphan(w) \/ RejectStopping(w)
         \/ FinishWrite(w) /\ row' = row /\ Return(w, "unsettled")
  PROVE  Dull
<1>0. w \in Callers /\ TypeOK
  BY ContentParts DEF Callers
<1>1. row' = row /\ reader' = reader
  BY DEF StartWrite, StartInit, RunWrite, GiveUp, LandOrphan, RejectStopping, FinishWrite
<1>2. OwnerKept
  BY <1>1 DEF OwnerKept
<1>3. CASE GiveUp(w) \/ (FinishWrite(w) /\ Return(w, "unsettled"))
  <2>1. PICK phase \in {"uncertain", "unsettled"} : Return(w, phase)
    BY <1>3 DEF GiveUp
  <2>2. call[w].phase = "waiting" /\ refs' = refs
    BY <1>3 DEF GiveUp, FinishWrite, nodeVars
  <2>3. Milder(w)
    BY <1>2, <2>1, <2>2, ReturnMilder
  <2>4. call'[w].phase = phase /\ \A d \in Callers : d # w => call'[d] = call[d]
    BY <1>0, <2>1, ReturnPhase
  <2>5. \A d \in Callers : d # w => job'[d] = job[d]
    BY <1>0, <2>1 DEF Return, TypeOK
  <2>6. QED
    BY <1>1, <2>2, <2>3, <2>4, <2>5, OneWriterDull
<1>4. CASE \/ StartWrite(w) \/ StartInit(w) \/ RunWrite(w)
           \/ LandOrphan(w) \/ RejectStopping(w)
  <2>1. call' = call
    BY <1>4 DEF StartWrite, StartInit, RunWrite, LandOrphan, RejectStopping
  <2>2. \E stage \in {"running", "done", "rejected"} :
          SetStage(w, stage) /\ (stage = "running" => job[w].stage = "queued")
    BY <1>4 DEF StartWrite, StartInit, RunWrite, LandOrphan, RejectStopping, Queued
  <2>3. /\ \A d \in Callers : d # w => job'[d] = job[d]
        /\ \/ job'[w].stage \in {"done", "rejected"}
           \/ job'[w].stage = "running" /\ job[w].stage = "queued"
    BY <1>0, <2>2, SetStageEffect DEF Stages
  <2>4. Milder(w)
    BY <1>2, <2>1, <2>3, EndedMilder
  <2>5. \/ refs' = refs
        \/ Writing(w) /\ refs' = [refs EXCEPT ![call[w].node] = @ \cup {w}]
    BY <1>4 DEF StartWrite, StartInit, RunWrite, LandOrphan, RejectStopping, Writing,
       nodeVars
  <2>6. QED
    BY <1>1, <2>1, <2>3, <2>4, <2>5, OneWriterDull
<1>5. QED
  BY <1>3, <1>4

-----------------------------------------------------------------------------
\* The two steps of a writer that change the row.

LEMMA BeginWriteReplicas ==
  ASSUME ContentInv, ContentInv', ReplicaInv, NEW w \in Writers, BeginWrite(w)
  PROVE  ReplicaInv'
<1>0. /\ w \in Callers /\ w \notin Syncs /\ TypeOK /\ \A v \in Writers : v \in Callers
      /\ row.pending \in Nat /\ row.primary \in Nodes
  BY ContentParts, Disjoint, RowFields DEF Callers
<1>1. row' = [row EXCEPT !.pending = row.pending + 1, !.latest = {}]
  BY <1>0 DEF BeginWrite
<1>2. /\ row'.primary = row.primary /\ row'.epoch = row.epoch
      /\ row'.generation = row.generation /\ row'.replicas = row.replicas
      /\ row'.pending = row.pending + 1
  BY <1>0, <1>1, RowType DEF Placement
<1>3. call'[w].phase = "waiting" /\ \A d \in Callers : d # w => call'[d] = call[d]
  BY <1>0, CallType DEF BeginWrite, Call
<1>4. job'[w].stage = "queued" /\ \A d \in Callers : d # w => job'[d] = job[d]
  BY <1>0 DEF BeginWrite, Ask, TypeOK
<1>5. refs' = refs /\ reader' = reader
  BY DEF BeginWrite, nodeVars
<1>6. PendingCovers'
  <2>1. UnsettledWrites' \in SUBSET (UnsettledWrites \cup {w})
    BY <1>0, <1>2, <1>3, <1>4 DEF UnsettledWrites, Unsettled
  <2>2. /\ IsFiniteSet(UnsettledWrites \cup {w})
        /\ Cardinality(UnsettledWrites \cup {w}) <= Cardinality(UnsettledWrites) + 1
        /\ Cardinality(UnsettledWrites \cup {w}) \in Nat
    <3>1. /\ IsFiniteSet(UnsettledWrites \cup {w})
          /\ \/ Cardinality(UnsettledWrites \cup {w}) = Cardinality(UnsettledWrites)
             \/ Cardinality(UnsettledWrites \cup {w}) = Cardinality(UnsettledWrites) + 1
      BY UnsettledFinite, FS_AddElement
    <3>2. QED
      BY <3>1, UnsettledFinite
  <2>3. Cardinality(UnsettledWrites') <= Cardinality(UnsettledWrites \cup {w})
        /\ IsFiniteSet(UnsettledWrites')
    BY <2>1, <2>2, FS_Subset
  <2>4. Cardinality(UnsettledWrites') \in Nat
    BY <2>3, FS_CardinalityType
  <2>5. QED
    BY <1>0, <1>2, <2>2, <2>3, <2>4, UnsettledFinite DEF ReplicaInv, PendingCovers
<1>7. ~Calm'
  BY <1>0, <1>2 DEF Calm
<1>8. \A n \in Nodes : Current(n)' = Current(n)
  BY <1>2 DEF Current
<1>9. \A s \in Syncs : call'[s] = call[s] /\ Comparing(s)' = Comparing(s)
  BY <1>0, <1>2, <1>3 DEF Comparing, Callers
<1>10. Acked' \subseteq Acked
  BY <1>0, <1>3 DEF Acked
<1>11. MarksKnown'
  BY <1>2, <1>9 DEF ReplicaInv, MarksKnown
<1>12. CurrentCopies' /\ ComparedCopies'
  BY <1>5, <1>7, <1>8, <1>9, <1>10 DEF ReplicaInv, CurrentCopies, ComparedCopies
<1>13. OverlookedHidden'
  BY <1>0, <1>2, <1>3, <1>4, <1>8, <1>9 DEF ReplicaInv, OverlookedHidden, Overlooked
<1>14. RefusedEnded' /\ HandlesKept'
  BY <1>0, <1>3, <1>4, <1>5 DEF ReplicaInv, RefusedEnded, HandlesKept
<1>15. QED
  BY <1>6, <1>11, <1>12, <1>13, <1>14 DEF ReplicaInv

\* After a new generation nothing is current, and nothing is about to be.
LEMMA NewGeneration ==
  ASSUME ContentInv, ContentInv', ReplicaInv, row'.generation = row.generation + 1,
         \A n \in Nodes : row'.replicas[n].generation <= row.generation,
         \A s \in Syncs : call'[s] = call[s],
         \A n \in Nodes : refs[n] \subseteq refs'[n], reader' = reader
  PROVE  /\ MarksKnown' /\ CurrentCopies' /\ ComparedCopies' /\ OverlookedHidden'
         /\ HandlesKept'
<1>0. TypeOK /\ row.generation \in Nat
  BY ContentParts, RowFields
<1>1. \A n \in Nodes : ~Current(n)'
  <2>1. ASSUME NEW n \in Nodes, Current(n)' PROVE FALSE
    <3>1. row'.replicas[n].generation = row.generation + 1
      BY <2>1 DEF Current
    <3>2. QED
      BY <1>0, <3>1
  <2>2. QED
    BY <2>1
<1>2. \A s \in Syncs : call[s].mark \in Nat
  BY <1>0, CallFields DEF Callers
<1>3. \A s \in Syncs : ~Comparing(s)'
  BY <1>0, <1>2 DEF ReplicaInv, MarksKnown, Comparing
<1>4. MarksKnown'
  <2>1. \A n \in Nodes : row'.replicas[n].generation <= row'.generation
    <3>1. \A n \in Nodes : row'.replicas[n].generation \in Int
      BY DEF ContentInv, OwnershipInv, TypeOK, Placement, Replica
    <3>2. QED
      BY <1>0, <3>1
  <2>2. QED
    BY <1>0, <1>2, <2>1 DEF ReplicaInv, MarksKnown
<1>5. HandlesKept'
  <2> SUFFICES ASSUME NEW r \in Readers, reader[r].node # None
               PROVE  reader[r].floor \subseteq refs'[reader[r].node]
    BY DEF HandlesKept
  <2>1. reader[r].node \in Nodes
    BY <1>0 DEF TypeOK, Handle
  <2>2. QED
    BY <2>1 DEF ReplicaInv, HandlesKept
<1>6. QED
  BY <1>1, <1>3, <1>4, <1>5 DEF CurrentCopies, ComparedCopies, OverlookedHidden

LEMMA FinishWriteReplicas ==
  ASSUME ContentInv, ContentInv', ReplicaInv, NEW w \in Writers, FinishWrite(w),
         ~(row' = row /\ Return(w, "unsettled"))
  PROVE  ReplicaInv'
<1>0. /\ w \in Callers /\ w \notin Syncs /\ TypeOK /\ \A v \in Writers : v \in Callers
      /\ row.pending \in Nat /\ row.generation \in Nat /\ row.primary \in Nodes
  BY ContentParts, Disjoint, RowFields DEF Callers
<1>1. /\ call[w].phase = "waiting" /\ row.epoch = call[w].epoch
      /\ row.primary = call[w].node /\ row.pending > 0
      /\ row' = [row EXCEPT !.pending = row.pending - 1,
                            !.generation = row.generation + 1, !.latest = {}]
      /\ refs' = refs /\ reader' = reader
  BY DEF FinishWrite, nodeVars
<1>2. PICK phase \in {"acked", "refused"} :
        Return(w, phase) /\ (phase = "acked" => job[w].stage = "done")
  BY DEF FinishWrite
<1>3. /\ row'.primary = row.primary /\ row'.epoch = row.epoch
      /\ row'.generation = row.generation + 1 /\ row'.replicas = row.replicas
      /\ row'.pending = row.pending - 1
  BY <1>0, <1>1, RowType DEF Placement
<1>4. call'[w].phase = phase /\ \A d \in Callers : d # w => call'[d] = call[d]
  BY <1>0, <1>2, ReturnPhase
<1>5. \A d \in Callers : d # w => job'[d] = job[d]
  BY <1>0, <1>2 DEF Return, TypeOK
<1>6. /\ job'[w].stage \notin {"queued", "running"}
      /\ job'[w].stage = "orphan" => phase = "refused"
  <2>1. job[w].stage \in {"done", "rejected", "orphan"}
    BY DEF FinishWrite
  <2>2. CASE job[w].stage = "orphan"
    BY <1>2, <2>2 DEF Return, Ended
  <2>3. CASE job[w].stage # "orphan"
    BY <1>0, <1>2, <2>1, <2>3 DEF Return, Ended, NoJob, TypeOK
  <2>4. QED
    BY <2>2, <2>3
<1>7. PendingCovers'
  <2>1. Unsettled(w) /\ ~Unsettled(w)'
    BY <1>1, <1>4, <1>6 DEF Unsettled
  <2>2. UnsettledWrites' \in SUBSET (UnsettledWrites \ {w})
    BY <1>0, <1>3, <1>4, <1>5, <2>1 DEF UnsettledWrites, Unsettled
  <2>3. w \in UnsettledWrites
    BY <2>1 DEF UnsettledWrites
  <2>4. /\ IsFiniteSet(UnsettledWrites \ {w})
        /\ Cardinality(UnsettledWrites \ {w}) = Cardinality(UnsettledWrites) - 1
    BY <2>3, UnsettledFinite, FS_RemoveElement
  <2>5. Cardinality(UnsettledWrites') <= Cardinality(UnsettledWrites \ {w})
        /\ IsFiniteSet(UnsettledWrites')
    BY <2>2, <2>4, FS_Subset
  <2>6. Cardinality(UnsettledWrites') \in Nat
    BY <2>5, FS_CardinalityType
  <2>7. QED
    BY <1>0, <1>3, <2>4, <2>5, <2>6, UnsettledFinite DEF ReplicaInv, PendingCovers
<1>8. /\ MarksKnown' /\ CurrentCopies' /\ ComparedCopies' /\ OverlookedHidden'
      /\ HandlesKept'
  <2>1. \A n \in Nodes : row'.replicas[n].generation <= row.generation
    BY <1>3 DEF ReplicaInv, MarksKnown
  <2>2. \A s \in Syncs : call'[s] = call[s]
    BY <1>0, <1>4 DEF Callers
  <2>3. QED
    BY <1>1, <1>3, <2>1, <2>2, NewGeneration
<1>9. RefusedEnded'
  BY <1>0, <1>4, <1>5, <1>6 DEF ReplicaInv, RefusedEnded
<1>10. QED
  BY <1>7, <1>8, <1>9 DEF ReplicaInv

-----------------------------------------------------------------------------
\* Replication workers.

\* A row in which the entry of one node changes.
LEMMA EntryFields ==
  ASSUME TypeOK, NEW n \in Nodes, NEW r,
         row' = [row EXCEPT !.latest = {}, !.replicas[n] = r]
  PROVE  /\ OwnerKept /\ row'.generation = row.generation /\ row'.pending = row.pending
         /\ row'.state = row.state
         /\ row'.replicas[n] = r
         /\ \A m \in Nodes : m # n => row'.replicas[m] = row.replicas[m]
<1>1. /\ OwnerKept /\ row'.generation = row.generation /\ row'.pending = row.pending
      /\ row'.state = row.state
  BY RowType DEF OwnerKept, Placement
<1>2. row'.replicas = [row.replicas EXCEPT ![n] = r]
  BY RowType DEF Placement
<1>3. QED
  BY <1>1, <1>2, RowFields

\* A step of one worker after which it does not compare.
LEMMA OneWorkerDull ==
  ASSUME ContentInv, NEW s \in Syncs,
         OwnerKept, row'.generation = row.generation, row'.pending = row.pending,
         Calm' => Calm,
         \A n \in Nodes : \/ row'.replicas[n] = row.replicas[n]
                          \/ row'.replicas[n] = Pending
                          \/ /\ row'.replicas[n].status = "syncing"
                             /\ row'.replicas[n].generation = row.replicas[n].generation,
         \A d \in Callers : d # s => call'[d] = call[d] /\ job'[d] = job[d],
         call'[s].phase # "copying", call'[s].mark <= row.generation,
         refs' = refs, reader' = reader
  PROVE  Dull
<1>1. \A w \in Writers : call'[w] = call[w] /\ job'[w] = job[w]
  BY Disjoint DEF Callers
<1>2. (\A w \in Writers : Milder(w)) /\ Acked' \subseteq Acked
  BY <1>1, SameCallMilder DEF Acked
<1>3. QED
  BY <1>2 DEF Dull, Callers

LEMMA ReturnedMark ==
  ASSUME ContentInv, ReplicaInv, NEW s \in Syncs, NEW phase \in {"finished", "idle"},
         Return(s, phase)
  PROVE  /\ call'[s].phase # "copying" /\ call'[s].mark <= row.generation
         /\ \A d \in Callers : d # s => call'[d] = call[d] /\ job'[d] = job[d]
<1>0. s \in Callers /\ TypeOK /\ row.generation \in Nat
  BY ContentParts, RowFields DEF Callers
<1>1. call'[s].phase = phase /\ \A d \in Callers : d # s => call'[d] = call[d]
  BY <1>0, ReturnPhase
<1>2. \A d \in Callers : d # s => job'[d] = job[d]
  BY <1>0 DEF Return, TypeOK
<1>3. call'[s].mark <= row.generation
  <2>1. CASE job[s].stage \in Ended
    <3>1. call'[s] = [IdleCall EXCEPT !.phase = phase]
      BY <1>0, <2>1 DEF Return, TypeOK
    <3>2. call'[s].mark = 0
      BY <3>1 DEF IdleCall
    <3>3. QED
      BY <1>0, <3>2
  <2>2. CASE job[s].stage \notin Ended
    <3>1. call' = [call EXCEPT ![s].phase = phase]
      BY <2>2 DEF Return, SetPhase
    <3>2. call'[s] = [call[s] EXCEPT !.phase = phase] /\ call[s] \in Call
      BY <1>0, <3>1, CallType
    <3>3. call'[s].mark = call[s].mark
      BY <3>2 DEF Call
    <3>4. QED
      BY <3>3 DEF ReplicaInv, MarksKnown
  <2>3. QED
    BY <2>1, <2>2
<1>4. QED
  BY <1>1, <1>2, <1>3

LEMMA WorkerDull ==
  ASSUME ContentInv, ReplicaInv, NEW s \in Syncs,
         \/ \E n \in Nodes : ClaimSync(s, n)
         \/ AbortSync(s) \/ LoseSync(s) \/ NextTick(s)
         \/ FinishSync(s) /\ (row' = row \/ RecordSync(s, FALSE))
  PROVE  Dull
<1>0. s \in Callers /\ TypeOK /\ Routed /\ row.generation \in Nat
  BY ContentParts, RowFields DEF Callers
<1>1. refs' = refs /\ reader' = reader
  BY DEF ClaimSync, AbortSync, LoseSync, NextTick, FinishSync, nodeVars
<1>2. ASSUME NEW n \in Nodes, ClaimSync(s, n) PROVE Dull
  <2>1. row' = [row EXCEPT !.latest = {}, !.replicas[n] =
                  [row.replicas[n] EXCEPT !.status = "syncing", !.sync = s]]
    <3>1. row' = [row EXCEPT !.replicas[n] =
                    [row.replicas[n] EXCEPT !.status = "syncing", !.sync = s],
                    !.latest = {}]
      BY <1>0, <1>2, RowType DEF ClaimSync, Placement
    <3>2. QED
      BY <1>0, <3>1, RowType DEF Placement
  <2>2. row.replicas[n] \in Replica
    BY <1>0, RowFields
  <2>3. /\ OwnerKept /\ row'.generation = row.generation /\ row'.pending = row.pending
        /\ row'.state = row.state
        /\ row'.replicas[n] = [row.replicas[n] EXCEPT !.status = "syncing", !.sync = s]
        /\ \A m \in Nodes : m # n => row'.replicas[m] = row.replicas[m]
    BY <1>0, <2>1, EntryFields
  <2>4. /\ row'.replicas[n].status = "syncing"
        /\ row'.replicas[n].generation = row.replicas[n].generation
    BY <2>2, <2>3 DEF Replica
  <2>5. /\ call'[s].phase = "claimed" /\ call'[s].mark = row.generation /\ job' = job
        /\ \A d \in Callers : d # s => call'[d] = call[d]
    BY <1>0, <1>2 DEF ClaimSync, TypeOK
  <2>6. Calm' => Calm
    BY <2>3 DEF Calm
  <2>7. \A m \in Nodes : \/ row'.replicas[m] = row.replicas[m]
                         \/ row'.replicas[m] = Pending
                         \/ /\ row'.replicas[m].status = "syncing"
                            /\ row'.replicas[m].generation = row.replicas[m].generation
    BY <2>3, <2>4
  <2>8. /\ call'[s].phase # "copying" /\ call'[s].mark <= row.generation
        /\ \A d \in Callers : d # s => call'[d] = call[d] /\ job'[d] = job[d]
    BY <1>0, <2>5
  <2>9. /\ OwnerKept /\ row'.generation = row.generation /\ row'.pending = row.pending
    BY <2>3
  <2>10. QED
    BY <1>1, <2>6, <2>7, <2>8, <2>9, OneWorkerDull
<1>3. ASSUME NEW phase \in {"finished", "idle"}, Return(s, phase), row' = row
      PROVE  Dull
  <2>1. /\ call'[s].phase # "copying" /\ call'[s].mark <= row.generation
        /\ \A d \in Callers : d # s => call'[d] = call[d] /\ job'[d] = job[d]
    BY <1>3, ReturnedMark
  <2>2. QED
    BY <1>1, <1>3, <2>1, SameRowFields, OneWorkerDull
<1>4. ASSUME Return(s, "finished"), RecordSync(s, FALSE), call[s].phase \in Active
      PROVE  Dull
  <2>1. CASE row' = row
    BY <1>3, <1>4, <2>1
  <2>2. CASE row' # row
    <3>1. row' = [row EXCEPT !.latest = {}, !.replicas[call[s].node] = Pending]
      BY <1>4, <2>2 DEF RecordSync
    <3>2. call[s].node \in Nodes
      BY <1>0, <1>4, RoutedNodes
    <3>3. /\ OwnerKept /\ row'.generation = row.generation /\ row'.pending = row.pending
          /\ row'.state = row.state
          /\ row'.replicas[call[s].node] = Pending
          /\ \A m \in Nodes : m # call[s].node => row'.replicas[m] = row.replicas[m]
      BY <1>0, <3>1, <3>2, EntryFields
    <3>4. Calm' => Calm
      BY <3>3 DEF Calm
    <3>5. /\ call'[s].phase # "copying" /\ call'[s].mark <= row.generation
          /\ \A d \in Callers : d # s => call'[d] = call[d] /\ job'[d] = job[d]
      BY <1>4, ReturnedMark
    <3>6. QED
      BY <1>1, <3>3, <3>4, <3>5, OneWorkerDull
  <2>3. QED
    BY <2>1, <2>2
<1>5. QED
  BY <1>2, <1>3, <1>4 DEF AbortSync, LoseSync, NextTick, FinishSync, Active

LEMMA SnapshotSourceReplicas ==
  ASSUME ContentInv, ContentInv', ReplicaInv, NEW s \in Syncs, SnapshotSource(s)
  PROVE  ReplicaInv'
<1>0. /\ s \in Callers /\ s \notin Writers /\ TypeOK /\ Routed
      /\ \A w \in Writers : w \in Callers
  BY ContentParts, Disjoint DEF Callers
<1>1. /\ row' = row /\ refs' = refs /\ reader' = reader
      /\ call[s].phase = "claimed" /\ up[call[s].src]
  BY DEF SnapshotSource, nodeVars
<1>2. /\ call'[s].epoch = call[s].epoch /\ call'[s].mark = call[s].mark
      /\ call'[s].snap = refs[call[s].src]
      /\ \A d \in Callers : d # s => call'[d] = call[d]
  <2>1. call' = [call EXCEPT ![s] = [call[s] EXCEPT !.phase = "copying",
                                                  !.snap = refs[call[s].src]]]
    BY <1>0, CallType DEF SnapshotSource
  <2>2. call'[s] = [call[s] EXCEPT !.phase = "copying", !.snap = refs[call[s].src]]
        /\ call[s] \in Call
    BY <1>0, <2>1, CallType
  <2>3. QED
    BY <1>0, <2>1, <2>2, CallType DEF Call
<1>3. \A d \in Callers : d # s => job'[d] = job[d]
  BY <1>0 DEF SnapshotSource, TypeOK
<1>4. \A w \in Writers : call'[w] = call[w] /\ job'[w] = job[w]
  BY <1>0, <1>2, <1>3
<1>5. Acked' = Acked /\ UnsettledWrites' = UnsettledWrites
  BY <1>1, <1>4 DEF Acked, UnsettledWrites, Unsettled
<1>6. \A n \in Nodes : Current(n)' = Current(n)
  BY <1>1 DEF Current
<1>7. Calm' = Calm
  BY <1>1 DEF Calm
<1>8. Comparing(s)' => call[s].src = row.primary
  <2>1. Engaged(s)
    BY <1>0, <1>1 DEF Routed, Active
  <2>2. QED
    BY <1>0, <1>1, <1>2, <2>1, CallerParts DEF Comparing, SyncRouted
<1>9. \A z \in Syncs : z # s => call'[z] = call[z] /\ Comparing(z)' = Comparing(z)
  BY <1>1, <1>2 DEF Comparing, Callers
<1>10. Acked \subseteq refs[row.primary]
  <2>1. ASSUME NEW w \in Acked PROVE w \in refs[row.primary]
    BY <1>0, <2>1, CallerParts DEF Acked, AnswerKept
  <2>2. QED
    BY <2>1
<1>11. PendingCovers' /\ MarksKnown' /\ CurrentCopies'
  BY <1>1, <1>2, <1>5, <1>6, <1>7, <1>9
     DEF ReplicaInv, PendingCovers, MarksKnown, CurrentCopies
<1>12. ComparedCopies'
  BY <1>1, <1>2, <1>5, <1>7, <1>8, <1>9, <1>10 DEF ReplicaInv, ComparedCopies
<1>13. OverlookedHidden'
  <2> SUFFICES ASSUME NEW w \in Writers, Overlooked(w)'
               PROVE  (\A n \in Nodes : ~Current(n)') /\ (\A z \in Syncs : ~Comparing(z)')
    BY DEF OverlookedHidden
  <2>1. Overlooked(w) /\ Writing(w)
    BY <1>1, <1>4 DEF Overlooked, Writing
  <2>2. ~up[row.primary]
    BY <1>0, <2>1, WriterOnPrimary, CallerParts DEF WriterHolds, Overlooked
  <2>3. QED
    BY <1>1, <1>6, <1>8, <1>9, <2>1, <2>2 DEF ReplicaInv, OverlookedHidden
<1>14. RefusedEnded' /\ HandlesKept'
  BY <1>1, <1>4 DEF ReplicaInv, RefusedEnded, HandlesKept
<1>15. QED
  BY <1>11, <1>12, <1>13, <1>14 DEF ReplicaInv

\* A copy is recorded as current: it was compared with the primary while nothing
\* was pending, and the row has not moved on since.
LEMMA FinishSyncReplicas ==
  ASSUME ContentInv, ContentInv', ReplicaInv, NEW s \in Syncs, FinishSync(s),
         ~(row' = row \/ RecordSync(s, FALSE))
  PROVE  ReplicaInv'
<1> DEFINE n == call[s].node
           fresh == [status |-> "ready", generation |-> call[s].mark, sync |-> None]
<1>0. /\ s \in Callers /\ s \notin Writers /\ TypeOK /\ Routed
      /\ \A w \in Writers : w \in Callers
  BY ContentParts, Disjoint DEF Callers
<1>1. /\ call[s].phase = "copying" /\ Return(s, "finished")
      /\ refs' = refs /\ reader' = reader
  BY DEF FinishSync, nodeVars
<1>2. /\ job[s].stage = "done" /\ job[s].got = call[s].snap /\ Calm
      /\ row.generation = call[s].mark /\ row.epoch = call[s].epoch
      /\ row' = [row EXCEPT !.latest = {}, !.replicas[n] = fresh]
  BY DEF FinishSync, RecordSync, Calm
<1>3. Engaged(s) /\ n \in Nodes
  BY <1>0, <1>1, RoutedNodes DEF Routed, Active
<1>4. /\ row'.primary = row.primary /\ row'.epoch = row.epoch
      /\ row'.generation = row.generation /\ row'.pending = row.pending
      /\ row'.state = row.state /\ row'.replicas[n] = fresh
      /\ \A m \in Nodes : m # n => row'.replicas[m] = row.replicas[m]
  BY <1>0, <1>2, <1>3, EntryFields DEF OwnerKept
<1>5. Comparing(s)
  BY <1>1, <1>2 DEF Comparing
<1>6. Acked \subseteq call[s].snap /\ call[s].snap = refs[row.primary]
  BY <1>2, <1>5 DEF ReplicaInv, ComparedCopies
<1>7. refs[n] = refs[row.primary]
  <2>1. job[s].kind = "sync"
    BY <1>0, <1>2, CallerParts DEF Kinded
  <2>2. job[s].got \subseteq refs[n]
    BY <1>0, <1>2, <2>1, CallerParts DEF CopyGrows
  <2>3. refs[n] \subseteq refs[row.primary]
    BY <1>3, ContentParts DEF NoDivergence
  <2>4. QED
    BY <1>2, <1>6, <2>2, <2>3
<1>8. /\ call'[s].phase # "copying" /\ call'[s].mark <= row.generation
      /\ \A d \in Callers : d # s => call'[d] = call[d] /\ job'[d] = job[d]
  BY <1>1, ReturnedMark
<1>9. \A w \in Writers : call'[w] = call[w] /\ job'[w] = job[w]
  BY <1>0, <1>8
<1>10. Acked' = Acked /\ UnsettledWrites' = UnsettledWrites
  BY <1>4, <1>9 DEF Acked, UnsettledWrites, Unsettled
<1>11. Calm' = Calm
  BY <1>4 DEF Calm
<1>12. \A z \in Syncs : Comparing(z)' => Comparing(z) /\ call'[z] = call[z]
  BY <1>4, <1>8 DEF Comparing, Callers
<1>13. PendingCovers'
  BY <1>4, <1>10 DEF ReplicaInv, PendingCovers
<1>14. MarksKnown'
  <2>1. row.generation \in Nat
    BY <1>0, RowFields
  <2>2. \A m \in Nodes : row'.replicas[m].generation <= row.generation
    BY <1>2, <1>4, <2>1 DEF ReplicaInv, MarksKnown
  <2>3. \A z \in Syncs : call'[z].mark <= row.generation
    BY <1>8 DEF ReplicaInv, MarksKnown, Callers
  <2>4. QED
    BY <1>4, <2>2, <2>3 DEF MarksKnown
<1>15. CurrentCopies'
  <2> SUFFICES ASSUME NEW m \in Nodes, Current(m)'
               PROVE  Acked \subseteq refs[m] /\ (Calm => refs[m] = refs[row.primary])
    BY <1>1, <1>4, <1>10, <1>11 DEF CurrentCopies
  <2>1. CASE m = n
    BY <1>6, <1>7, <2>1
  <2>2. CASE m # n
    BY <1>4, <2>2 DEF Current, ReplicaInv, CurrentCopies
  <2>3. QED
    BY <2>1, <2>2
<1>16. ComparedCopies'
  BY <1>1, <1>4, <1>10, <1>11, <1>12 DEF ReplicaInv, ComparedCopies
<1>17. OverlookedHidden'
  BY <1>4, <1>5, <1>9 DEF ReplicaInv, OverlookedHidden, Overlooked
<1>18. RefusedEnded' /\ HandlesKept'
  BY <1>1, <1>9 DEF ReplicaInv, RefusedEnded, HandlesKept
<1>19. QED
  BY <1>13, <1>14, <1>15, <1>16, <1>17, <1>18 DEF ReplicaInv

-----------------------------------------------------------------------------
\* Copies, promotions, nodes and readers.

\* A step that touches no writer and no worker's call.
LEMMA ElsewhereDull ==
  ASSUME ContentInv, OwnerKept, row'.generation = row.generation,
         row'.pending = row.pending, Calm' => Calm, row'.replicas = row.replicas,
         \A w \in Writers : call'[w] = call[w] /\ job'[w] = job[w],
         \A s \in Syncs : call'[s] = call[s],
         \A n \in Nodes : refs[n] \subseteq refs'[n],
         refs'[row.primary] = refs[row.primary], reader' = reader
  PROVE  Dull
<1>1. (\A w \in Writers : Milder(w)) /\ Acked' \subseteq Acked
  BY SameCallMilder DEF Acked
<1>2. QED
  BY <1>1 DEF Dull

LEMMA CopyDull ==
  ASSUME ContentInv, NEW c \in Syncs \cup Promoters, CopyStep(c)
  PROVE  Dull
<1>0. c \in Callers /\ c \notin Writers /\ TypeOK /\ \A w \in Writers : w \in Callers
  BY ContentParts, Disjoint DEF Callers
<1>1. row' = row /\ call' = call /\ reader' = reader
  BY DEF CopyStep, StartSync, Copyable, FetchBundle, ApplyBundle, SaveReplica, FailSync
<1>2. \A w \in Writers : job'[w] = job[w]
  BY <1>0 DEF CopyStep, StartSync, Copyable, FetchBundle, ApplyBundle, SaveReplica,
     FailSync,
     SetStage, TypeOK
<1>3. refs'[row.primary] = refs[row.primary]
  BY CopiesUnseen, <1>1 DEF ContentKept
<1>4. \A n \in Nodes : refs[n] \subseteq refs'[n]
  <2>1. CASE ApplyBundle(c)
    <3>1. /\ refs' = [refs EXCEPT ![call[c].node] = job[c].got]
          /\ refs[call[c].node] \subseteq job[c].got
      BY <1>0, <2>1, CallerParts DEF ApplyBundle, CopyGrows
    <3>2. QED
      BY <1>0, <3>1 DEF TypeOK
  <2>2. CASE ~ApplyBundle(c)
    BY <2>2 DEF CopyStep, StartSync, Copyable, FetchBundle, SaveReplica, FailSync,
       nodeVars
  <2>3. QED
    BY <2>1, <2>2
<1>5. row'.replicas = row.replicas /\ (Calm' => Calm)
  BY <1>1 DEF Calm
<1>6. QED
  BY <1>0, <1>1, <1>2, <1>3, <1>4, <1>5, SameRowFields, ElsewhereDull

LEMMA PromoteDull ==
  ASSUME ContentInv, NEW p \in Promoters, PromoteStep(p),
         ~(CompletePromote(p) /\ p \in row.latest)
  PROVE  Dull
<1>0. /\ p \in Callers /\ p \notin Writers /\ p \notin Syncs /\ TypeOK
      /\ \A d \in Writers \cup Syncs : d \in Callers /\ d # p
  BY ContentParts, Disjoint DEF Callers
<1>1. refs' = refs /\ reader' = reader
  BY DEF PromoteStep, StartPromote, ExecFence, AlreadyFenced, Fenceable, Frozen,
     CheckTarget, TargetSynced,
     ExecActivate, Activatable, CompletePromote, FailPromote, nodeVars
<1>2. \A d \in Callers : d # p => call'[d] = call[d]
  <2>1. CASE \E phase : Return(p, phase)
    BY <1>0, <2>1, ReturnPhase
  <2>2. CASE ExecFence(p) \/ ExecActivate(p)
    BY <2>2 DEF ExecFence, AlreadyFenced, Fenceable, ExecActivate, Activatable
  <2>3. CASE Frozen(p) \/ CheckTarget(p) \/ TargetSynced(p)
              \/ \E t \in Nodes : StartPromote(p, t)
    BY <1>0, <2>3, CallType DEF Frozen, CheckTarget, TargetSynced, SetPhase, StartPromote
  <2>4. QED
    BY <2>1, <2>2, <2>3 DEF PromoteStep, CompletePromote, FailPromote
<1>3. \A d \in Callers : d # p => job'[d] = job[d]
  <2>1. CASE \E phase : Return(p, phase)
    BY <1>0, <2>1 DEF Return, TypeOK
  <2>2. CASE ExecFence(p) \/ ExecActivate(p)
    BY <1>0, <2>2 DEF ExecFence, AlreadyFenced, Fenceable, ExecActivate, Activatable,
       SetStage, TypeOK
  <2>3. CASE Frozen(p) \/ CheckTarget(p) \/ TargetSynced(p)
              \/ \E t \in Nodes : StartPromote(p, t)
    BY <1>0, <2>3 DEF Frozen, CheckTarget, TargetSynced, StartPromote, TypeOK
  <2>4. QED
    BY <2>1, <2>2, <2>3 DEF PromoteStep, CompletePromote, FailPromote
<1>4. /\ OwnerKept /\ row'.generation = row.generation /\ row'.pending = row.pending
      /\ row'.replicas = row.replicas /\ (Calm' => Calm)
  <2>1. CASE row' = row
    BY <2>1 DEF OwnerKept, Calm
  <2>2. ASSUME NEW t \in Nodes, StartPromote(p, t)
        PROVE  /\ OwnerKept /\ row'.generation = row.generation
               /\ row'.pending = row.pending
               /\ row'.replicas = row.replicas /\ row'.state = "moving"
    <3>1. CASE row' = [row EXCEPT !.state = "moving", !.target = t, !.latest = {p}]
      BY <1>0, <3>1, RowType DEF Placement, OwnerKept
    <3>2. CASE row' = [row EXCEPT !.latest = @ \cup {p}] /\ row.state = "moving"
      BY <1>0, <3>2, RowType DEF Placement, OwnerKept
    <3>3. QED
      BY <2>2, <3>1, <3>2 DEF StartPromote
  <2>3. CASE \E t \in Nodes : StartPromote(p, t)
    BY <2>2, <2>3 DEF Calm
  <2>4. QED
    BY <2>1, <2>3 DEF PromoteStep, ExecFence, AlreadyFenced, Fenceable, Frozen,
       CheckTarget, TargetSynced,
       ExecActivate, Activatable, CompletePromote, FailPromote
<1>5. QED
  BY <1>0, <1>1, <1>2, <1>3, <1>4, ElsewhereDull

LEMMA CompletePromoteReplicas ==
  ASSUME ContentInv, ContentInv', ReplicaInv, NEW p \in Promoters, CompletePromote(p),
         p \in row.latest
  PROVE  ReplicaInv'
<1> DEFINE t == call[p].node
<1>0. /\ p \in Callers /\ p \notin Writers /\ p \notin Syncs /\ TypeOK
      /\ \A d \in Writers \cup Syncs : d \in Callers /\ d # p
      /\ row.generation \in Nat /\ row.epoch \in Nat
  BY ContentParts, Disjoint, RowFields DEF Callers
<1>1. /\ row'.epoch = row.epoch + 1 /\ refs' = refs /\ Alone(p)
  BY CompletedMove
<1>2. \E S : row' = [row EXCEPT !.primary = t, !.target = None,
                       !.epoch = call[p].epoch, !.generation = row.generation + 1,
                       !.pending = 0, !.state = "ready",
                       !.replicas = Assign(S), !.latest = {}]
  BY DEF CompletePromote
<1>3. /\ row'.generation = row.generation + 1 /\ row'.pending = 0
      /\ \E S : row'.replicas = Assign(S)
  BY <1>0, <1>2, RowType DEF Placement
<1>4. \A n \in Nodes : row'.replicas[n].generation <= row.generation
  BY <1>0, <1>3 DEF Assign, Pending, Unassigned
<1>5. \A d \in Writers \cup Syncs : call'[d] = call[d] /\ job'[d] = job[d]
  BY <1>0, <1>1 DEF Alone
<1>6. reader' = reader
  BY DEF CompletePromote
<1>7. /\ MarksKnown' /\ CurrentCopies' /\ ComparedCopies' /\ OverlookedHidden'
      /\ HandlesKept'
  BY <1>1, <1>3, <1>4, <1>5, <1>6, NewGeneration
<1>8. PendingCovers'
  <2>1. ASSUME NEW w \in Writers, Unsettled(w)' PROVE FALSE
    <3>1. /\ call[w].node = row'.primary /\ call[w].epoch = row.epoch + 1
      BY <1>1, <1>5, <2>1 DEF Unsettled
    <3>2. row'.primary \in Nodes
      BY DEF ContentInv, OwnershipInv, TypeOK, Placement
    <3>3. Engaged(w)
      BY <3>1, <3>2, ClusterAssumption DEF Engaged
    <3>4. call[w].epoch <= row.epoch
      BY <1>0, <3>3, ContentParts DEF NoneAhead
    <3>5. QED
      BY <1>0, <3>1, <3>4
  <2>2. UnsettledWrites' = {}
    BY <2>1 DEF UnsettledWrites
  <2>3. QED
    BY <1>3, <2>2, FS_EmptySet DEF PendingCovers
<1>9. RefusedEnded'
  BY <1>5 DEF ReplicaInv, RefusedEnded
<1>10. QED
  BY <1>7, <1>8, <1>9 DEF ReplicaInv

LEMMA NodeDull ==
  ASSUME ContentInv, ReplicaInv, NEW n \in Nodes, NodeStep(n) PROVE Dull
<1>0. TypeOK /\ \A w \in Writers : w \in Callers
  BY ContentParts DEF Callers
<1>1. UNCHANGED <<row, refs, call, reader>>
  BY DEF NodeStep, Crash, Stop, Restart, nodeVars
<1>2. ASSUME NEW w \in Writers PROVE Milder(w)
  <2>1. w \in Callers /\ job[w] \in Job
    BY <1>0 DEF TypeOK
  <2>2. \/ job'[w] = job[w]
        \/ \E stage \in {"lost", "orphan", "rejected"} :
             /\ job'[w] = [job[w] EXCEPT !.stage = stage]
             /\ stage = "orphan" => Holding(w)
    BY <2>1 DEF NodeStep, Crash, Stop, Restart
  <2>3. Holding(w) => job[w].stage = "running"
    BY <2>1, CallerParts DEF Holding, Kinded
  <2>4. \/ job'[w].stage = job[w].stage
        \/ job'[w].stage \in {"lost", "rejected"}
        \/ job'[w].stage = "orphan" /\ job[w].stage = "running"
    BY <2>1, <2>2, <2>3 DEF Job
  <2>5. job[w].stage = "running" => call[w].phase # "refused"
    BY DEF ReplicaInv, RefusedEnded
  <2>6. QED
    BY <1>1, <2>4, <2>5, SameRowFields, SameCallMilder, EndedMilder
<1>3. Acked' \subseteq Acked
  BY <1>1 DEF Acked
<1>4. QED
  BY <1>1, <1>2, <1>3, SameRowFields DEF Dull

LEMMA RouteReadReplicas ==
  ASSUME ContentInv, ReplicaInv, NEW r \in Readers, RouteRead(r) PROVE ReplicaInv'
<1>0. TypeOK /\ row.primary \in Nodes /\ \A w \in Writers : w \in Callers
  BY ContentParts, RowFields DEF Callers
<1>1. UNCHANGED <<row, refs, call, job>>
  BY DEF RouteRead, nodeVars
<1>2. PICK n \in Readable : reader' = [reader EXCEPT ![r] =
                              [node |-> n, epoch |-> row.epoch, floor |-> Acked]]
  BY DEF RouteRead
<1>3. Acked \subseteq refs[n]
  <2>1. CASE n = row.primary
    <3>1. ASSUME NEW w \in Acked PROVE w \in refs[row.primary]
      BY <1>0, <3>1, CallerParts DEF Acked, AnswerKept
    <3>2. QED
      BY <2>1, <3>1
  <2>2. CASE n # row.primary
    BY <2>2 DEF Readable, Current, ReplicaInv, CurrentCopies
  <2>3. QED
    BY <2>1, <2>2
<1>4. HandlesKept'
  <2>1. ASSUME NEW z \in Readers, reader'[z].node # None
        PROVE  reader'[z].floor \subseteq refs[reader'[z].node]
    <3>1. CASE z = r
      BY <1>0, <1>2, <1>3, <3>1 DEF TypeOK
    <3>2. CASE z # r
      BY <1>0, <1>2, <2>1, <3>2 DEF TypeOK, ReplicaInv, HandlesKept
    <3>3. QED
      BY <3>1, <3>2
  <2>2. QED
    BY <1>1, <2>1 DEF HandlesKept
<1>5. /\ PendingCovers' /\ MarksKnown' /\ CurrentCopies' /\ ComparedCopies'
      /\ OverlookedHidden' /\ RefusedEnded'
  BY <1>1 DEF ReplicaInv, PendingCovers, UnsettledWrites, Unsettled, MarksKnown,
     CurrentCopies, ComparedCopies, OverlookedHidden, RefusedEnded, Acked, Current, Calm,
     Comparing, Overlooked
<1>6. QED
  BY <1>4, <1>5 DEF ReplicaInv

LEMMA ReplicaInit == Init => ReplicaInv
<1> SUFFICES ASSUME Init PROVE ReplicaInv
  OBVIOUS
<1>0. TypeOK
  BY InitType
<1>1. \A c \in Callers : call[c] = IdleCall /\ job[c] = NoJob
  BY DEF Init
<1>2. \A c \in Callers : /\ call[c].phase = "idle" /\ call[c].node = None
                         /\ call[c].mark = 0 /\ job[c].stage = "none"
  BY <1>1 DEF IdleCall, NoJob
<1>3. /\ row.generation = 0 /\ row.pending = 0 /\ row.primary \in Nodes
      /\ \E S : row.replicas = Assign(S)
  BY DEF Init
<1>4. \A n \in Nodes : row.replicas[n].generation = -1
  BY <1>3 DEF Assign, Pending, Unassigned
<1>5. UnsettledWrites = {}
  BY <1>2, <1>3, ClusterAssumption DEF UnsettledWrites, Unsettled, Callers
<1>6. PendingCovers
  BY <1>3, <1>5, FS_EmptySet DEF PendingCovers
<1>7. MarksKnown /\ CurrentCopies
  BY <1>2, <1>3, <1>4 DEF MarksKnown, CurrentCopies, Current, Callers
<1>8. ComparedCopies /\ OverlookedHidden /\ RefusedEnded
  BY <1>2 DEF ComparedCopies, Comparing, OverlookedHidden, Overlooked, RefusedEnded,
     Callers
<1>9. HandlesKept
  BY DEF Init, HandlesKept
<1>10. QED
  BY <1>6, <1>7, <1>8, <1>9 DEF ReplicaInv

LEMMA ReplicaNext == ContentInv /\ ContentInv' /\ ReplicaInv /\ [Next]_vars => ReplicaInv'
<1> SUFFICES ASSUME ContentInv, ContentInv', ReplicaInv, [Next]_vars PROVE ReplicaInv'
  OBVIOUS
<1>1. ASSUME NEW w \in Writers, WriteStep(w) PROVE ReplicaInv'
  BY <1>1, BeginWriteReplicas, FinishWriteReplicas, WriterDull, DullStep DEF WriteStep
<1>2. ASSUME NEW s \in Syncs, ReplicateStep(s) PROVE ReplicaInv'
  BY <1>2, SnapshotSourceReplicas, FinishSyncReplicas, WorkerDull, DullStep
     DEF ReplicateStep
<1>3. ASSUME NEW c \in Syncs \cup Promoters, CopyStep(c) PROVE ReplicaInv'
  BY <1>3, CopyDull, DullStep
<1>4. ASSUME NEW p \in Promoters, PromoteStep(p) PROVE ReplicaInv'
  BY <1>4, CompletePromoteReplicas, PromoteDull, DullStep
<1>5. ASSUME NEW n \in Nodes, NodeStep(n) PROVE ReplicaInv'
  BY <1>5, NodeDull, DullStep
<1>6. ASSUME NEW r \in Readers, RouteRead(r) PROVE ReplicaInv'
  BY <1>6, RouteReadReplicas
<1>7. CASE UNCHANGED vars
  BY <1>7 DEF vars, ReplicaInv, PendingCovers, UnsettledWrites, Unsettled, MarksKnown,
     CurrentCopies, ComparedCopies, OverlookedHidden, RefusedEnded, HandlesKept, Acked,
     Current, Calm, Comparing, Overlooked
<1>8. QED
  BY <1>1, <1>2, <1>3, <1>4, <1>5, <1>6, <1>7 DEF Next

-----------------------------------------------------------------------------
\* The theorems.

\* What the marks in the placement row say of the content of the replicas.
THEOREM Replicas == Spec => []ReplicaInv
BY Content, ReplicaInit, ReplicaNext, PTL DEF Spec

\* The pending marker counts every write that may still run on the primary: what
\* gives up leaves its marker behind, and what removes one knows the outcome.
THEOREM PendingCounts == Spec => []PendingCoversWriters
<1>1. ContentInv /\ ReplicaInv => PendingCoversWriters
  <2> SUFFICES ASSUME ContentInv, ReplicaInv
               PROVE  Cardinality({w \in Writers :
                                     /\ call[w].node = row.primary
                                     /\ call[w].epoch = row.epoch
                                     /\ job[w].stage \in {"queued", "running"}})
                        <= row.pending
    BY DEF PendingCoversWriters
  <2> DEFINE Able == {w \in Writers : /\ call[w].node = row.primary
                                      /\ call[w].epoch = row.epoch
                                      /\ job[w].stage \in {"queued", "running"}}
  <2>1. Able \in SUBSET UnsettledWrites
    BY DEF UnsettledWrites, Unsettled
  <2>2. IsFiniteSet(Able) /\ Cardinality(Able) <= Cardinality(UnsettledWrites)
    BY <2>1, UnsettledFinite, FS_Subset
  <2>3. Cardinality(Able) \in Nat
    BY <2>2, FS_CardinalityType
  <2>4. row.pending \in Nat
    BY ContentParts, RowFields
  <2>5. QED
    BY <2>2, <2>3, <2>4, UnsettledFinite DEF ReplicaInv, PendingCovers
<1>2. QED
  BY <1>1, Content, Replicas, PTL

\* A replica the router may choose has exactly the references of the primary.
THEOREM ReadableAreCurrent == Spec => []ReadableReplicasCurrent
<1>1. ReplicaInv => ReadableReplicasCurrent
  BY DEF ReplicaInv, CurrentCopies, Current, Calm, ReadableReplicasCurrent, Readable
<1>2. QED
  BY <1>1, Replicas, PTL

\* A read that was routed sees, on whatever node it reaches late, every write that
\* had been confirmed when it was routed.
THEOREM ReadsSeeConfirmed == Spec => []RoutedReadsSeeAcked
<1>1. ReplicaInv => RoutedReadsSeeAcked
  BY DEF ReplicaInv, HandlesKept, RoutedReadsSeeAcked
<1>2. QED
  BY <1>1, Replicas, PTL

=============================================================================
