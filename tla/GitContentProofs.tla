--------------------------- MODULE GitContentProofs ---------------------------
(***************************************************************************)
(* What GitCluster keeps of the content of a repository, for any number of *)
(* nodes, writers, replication workers and promotions: no copy has what    *)
(* the primary lacks, no promotion and no synchronization takes anything   *)
(* away, and the cluster implements one copy.                              *)
(***************************************************************************)
EXTENDS GitClusterProofs

(***************************************************************************)
(* The invariant.  Each caller keeps what its request relies on; the rest  *)
(* is about the nodes.                                                     *)
(***************************************************************************)
Writing(c) == job[c].stage \in {"running", "orphan"}

\* Which jobs a caller asks for, and waits for.
Kinded(c) ==
  /\ c \in Writers => job[c].kind \in {"none", "init", "write"}
  /\ c \in Syncs => job[c].kind \in {"none", "sync"}
  /\ c \in Promoters => job[c].kind \in {"none", "fence", "sync", "activate"}
  /\ c \in Promoters /\ call[c].phase = "syncing" => job[c].kind = "sync"
  /\ c \in Promoters /\ call[c].phase = "activating" => job[c].kind = "activate"
  /\ job[c].kind = "none" => job[c].stage = "none"
  /\ job[c].stage \in {"fetched", "applied"} => job[c].kind = "sync"
  /\ job[c].stage = "orphan" => c \in Writers

\* A Git operation runs, or its orphan may still land, at the node that has the
\* role and the epoch it was admitted with; an orphan only while that is down.
WriterHolds(c) ==
  c \in Writers /\ Writing(c) =>
    /\ epoch[call[c].node] = call[c].epoch
    /\ role[call[c].node] = IF job[c].kind = "init" THEN "initPrimary" ELSE "primary"
    /\ job[c].stage = "orphan" =>
         /\ ~up[call[c].node]
         /\ \A d \in Callers : Holding(d) => JobNode(d) # call[c].node

\* What a synchronization mirrors is no less than the destination has.
CopyGrows(c) ==
  job[c].kind = "sync" =>
    /\ job[c].stage \in {"fetched", "applied"} =>
         refs[call[c].node] \subseteq job[c].got /\ job[c].got \subseteq refs[row.primary]
    /\ job[c].stage \in {"applied", "done"} => job[c].got \subseteq refs[call[c].node]

\* A write that was answered, or confirmed, is on the primary.
AnswerKept(c) ==
  c \in Writers /\ (job[c].stage = "done" \/ call[c].phase = "acked")
    => c \in refs[row.primary]

\* A replication worker copies from the primary of its epoch to another node.
SyncRouted(c) ==
  Engaged(c) /\ c \notin Writers =>
    /\ call[c].epoch > IF c \in Promoters THEN 1 ELSE 0
    /\ c \in Syncs /\ call[c].epoch = row.epoch
         => call[c].src = row.primary /\ call[c].node # row.primary
    /\ c \in Syncs /\ call[c].epoch < row.epoch => epoch[call[c].src] > call[c].epoch

\* The transition under way: its synchronizations carry what the fenced primary
\* has, and only a node that has stored its epoch is activated.
Succeeds(c) ==
  c \in Promoters /\ Engaged(c) /\ call[c].epoch = row.epoch + 1 =>
    /\ job[c].kind = "sync" /\ job[c].stage \in {"fetched", "applied"}
         => job[c].got = refs[row.primary]
    /\ (job[c].kind = "sync" /\ job[c].stage = "done") \/ job[c].kind = "activate"
         => role[call[c].node] \in Managed /\ epoch[call[c].node] = row.epoch + 1
    /\ job[c].kind = "activate" /\ job[c].stage = "done"
         => role[call[c].node] = "primary"

Fine(c) ==
  /\ Kinded(c) /\ WriterHolds(c) /\ CopyGrows(c) /\ AnswerKept(c)
  /\ SyncRouted(c) /\ Succeeds(c)

EpochsBounded == \A n \in Nodes : epoch[n] <= row.epoch + 1

\* The node of the row is the primary, not initialized yet, or fenced for the
\* transition under way, perhaps activated again by it.
PrimaryKnown ==
  LET p == row.primary IN
  \/ role[p] = "primary" /\ epoch[p] = row.epoch
  \/ role[p] = "fenced" /\ epoch[p] = row.epoch + 1 /\ row.state = "moving"
  \/ /\ role[p] = "primary" /\ epoch[p] = row.epoch + 1 /\ row.state = "moving"
     /\ row.target = p
  \/ role[p] \in {"absent", "initPrimary"} /\ epoch[p] <= 1 /\ row.epoch = 1

\* A node that has stored the next epoch is the equal of the fenced primary.
SuccessorsEqual ==
  \A n \in Nodes :
    n # row.primary /\ role[n] \in Managed /\ epoch[n] = row.epoch + 1
      => PrimaryFenced /\ refs[n] = refs[row.primary]

TargetKnown == row.state = "moving" => row.target \in Nodes

PrimaryNoReplica == row.replicas[row.primary].status = "none"

NodesFine ==
  /\ EpochsBounded /\ PrimaryKnown /\ SuccessorsEqual /\ TargetKnown
  /\ PrimaryNoReplica /\ NoDivergence

ContentInv == OwnershipInv /\ NodesFine /\ \A c \in Callers : Fine(c)

-----------------------------------------------------------------------------
\* What the invariant says of a job that has the lock, or of an orphan.

LEMMA ContentParts ==
  ASSUME ContentInv
  PROVE  /\ TypeOK /\ Routed /\ LockExclusive /\ CheckedStateHolds
         /\ row.epoch > 0 /\ NoneAhead /\ Transition /\ OwnersKnown
         /\ EpochsBounded /\ PrimaryKnown /\ SuccessorsEqual
         /\ TargetKnown /\ PrimaryNoReplica /\ NoDivergence
BY DEF ContentInv, OwnershipInv, NodesFine

LEMMA CallerParts ==
  ASSUME ContentInv, NEW c \in Callers
  PROVE  /\ Kinded(c) /\ WriterHolds(c) /\ CopyGrows(c) /\ AnswerKept(c)
         /\ SyncRouted(c) /\ Succeeds(c)
BY DEF ContentInv, Fine

\* A writer only works on the primary, and never on a fenced one.
LEMMA WriterOnPrimary ==
  ASSUME ContentInv, NEW w \in Writers, Writing(w)
  PROVE  /\ call[w].node = row.primary /\ call[w].epoch = row.epoch
         /\ epoch[row.primary] = row.epoch /\ ~PrimaryFenced
<1>0. w \in Callers /\ w \notin Syncs
  BY Disjoint DEF Callers
<1>1. epoch[call[w].node] = call[w].epoch
  BY <1>0, CallerParts DEF WriterHolds
<1>2. Engaged(w)
  BY <1>0, ContentParts DEF Routed, Writing
<1>3. row.epoch \in Nat /\ call[w].epoch \in Nat
  BY <1>0, ContentParts, EpochsAreNumbers
<1>4. /\ call[w].epoch <= row.epoch
      /\ call[w].epoch < row.epoch => epoch[call[w].node] > call[w].epoch
      /\ call[w].epoch = row.epoch => call[w].node = row.primary
  BY <1>0, <1>2, ContentParts DEF NoneAhead
<1>5. call[w].epoch = row.epoch
  BY <1>1, <1>3, <1>4
<1>6. QED
  BY <1>1, <1>3, <1>4, <1>5 DEF PrimaryFenced

\* A synchronization that was let in never has the primary as its destination.
LEMMA SyncMissesPrimary ==
  ASSUME ContentInv, NEW c \in Callers, Holding(c), job[c].kind = "sync"
  PROVE  call[c].node # row.primary
<1>0. c \notin Writers /\ TypeOK
  BY CallerParts, ContentParts DEF Kinded
<1>1. Engaged(c)
  BY ContentParts DEF Routed, Holding
<1>2. SUFFICES ASSUME call[c].node = row.primary PROVE FALSE
  OBVIOUS
<1>3. /\ role[row.primary] \in {"replica", "fenced", "initReplica"}
      /\ epoch[row.primary] <= call[c].epoch
  BY <1>2, ContentParts DEF CheckedStateHolds
<1>4. epoch[row.primary] = row.epoch + 1 /\ row.epoch \in Nat
  BY <1>0, <1>3, ContentParts, EpochsAreNumbers DEF PrimaryKnown
<1>5. c \in Promoters /\ call[c].epoch = row.epoch + 1
  BY <1>0, <1>1, <1>3, <1>4, ContentParts, EpochsAreNumbers DEF NoneAhead, Callers
<1>6. QED
  BY <1>1, <1>2, <1>5, ContentParts DEF Transition

\* The only node that a synchronization can mirror is the primary.
LEMMA FetchesFromPrimary ==
  ASSUME ContentInv, NEW c \in Callers, Holding(c), job[c].kind = "sync",
         epoch[call[c].src] = call[c].epoch
  PROVE  call[c].src = row.primary
<1>0. c \in Syncs \cup Promoters /\ c \notin Writers /\ TypeOK
  BY CallerParts, ContentParts DEF Kinded, Callers
<1>1. Engaged(c)
  BY ContentParts DEF Routed, Holding
<1>2. /\ row.epoch \in Nat /\ call[c].epoch \in Nat
      /\ call[c].node \in Nodes /\ epoch[call[c].node] \in Nat
  BY <1>0, <1>1, EpochsAreNumbers, CallFields DEF Engaged
<1>3. CASE c \in Syncs
  BY <1>0, <1>1, <1>2, <1>3, CallerParts, ContentParts DEF SyncRouted, NoneAhead
<1>4. CASE c \in Promoters
  <2>1. c \notin Syncs
    BY <1>4, Disjoint
  <2>2. call[c].node # row.primary /\ epoch[call[c].node] <= call[c].epoch
    BY SyncMissesPrimary, ContentParts DEF CheckedStateHolds
  <2>3. call[c].epoch = row.epoch + 1
    BY <1>1, <1>2, <1>4, <2>1, <2>2, ContentParts DEF NoneAhead
  <2>4. QED
    BY <1>1, <1>4, <2>3, ContentParts DEF Transition
<1>5. QED
  BY <1>0, <1>3, <1>4

\* Nobody writes at a node whose lock can be taken, and nobody else does at one
\* whose lock is held.
LEMMA FreeOfWriters ==
  ASSUME ContentInv, NEW n \in Nodes, up[n], LockFree(n), NEW w \in Writers, Writing(w)
  PROVE  call[w].node # n
<1>0. w \in Callers
  BY DEF Callers
<1>1. JobNode(w) = call[w].node
  BY <1>0, CallerParts DEF Kinded, JobNode
<1>2. CASE job[w].stage = "orphan"
  BY <1>0, <1>2, CallerParts DEF WriterHolds
<1>3. CASE job[w].stage = "running"
  BY <1>0, <1>1, <1>3 DEF LockFree, Holding
<1>4. QED
  BY <1>2, <1>3 DEF Writing

LEMMA HolderAlone ==
  ASSUME ContentInv, NEW c \in Callers, Holding(c)
  PROVE  /\ JobNode(c) = call[c].node
         /\ \A w \in Writers : Writing(w) /\ w # c => call[w].node # call[c].node
         /\ \A d \in Callers : Holding(d) /\ d # c => call[d].node # call[c].node
<1>1. \A d \in Callers : Holding(d) => JobNode(d) = call[d].node
  BY ContentParts DEF LockExclusive, JobNode
<1>2. \A d \in Callers : Holding(d) /\ d # c => call[d].node # call[c].node
  BY <1>1, ContentParts DEF LockExclusive
<1>3. ASSUME NEW w \in Writers, Writing(w), w # c PROVE call[w].node # call[c].node
  <2>0. w \in Callers
    BY DEF Callers
  <2>1. CASE job[w].stage = "orphan"
    BY <1>1, <1>3, <2>0, <2>1, CallerParts DEF WriterHolds
  <2>2. CASE job[w].stage = "running"
    BY <1>2, <1>3, <2>0, <2>2 DEF Holding
  <2>3. QED
    BY <1>3, <2>1, <2>2 DEF Writing
<1>4. QED
  BY <1>1, <1>2, <1>3

-----------------------------------------------------------------------------
\* What every step but the completion of a promotion leaves true of the nodes.

Env ==
  /\ row'.primary = row.primary /\ row'.epoch = row.epoch
  /\ \A n \in Nodes : epoch'[n] >= epoch[n] /\ refs[n] \subseteq refs'[n]
  /\ PrimaryFenced => refs'[row.primary] = refs[row.primary]
  /\ \A n \in Nodes : role[n] \in Managed /\ epoch[n] = row.epoch + 1 =>
       /\ role'[n] \in Managed /\ epoch'[n] = row.epoch + 1
       /\ role[n] = "primary" => role'[n] = "primary"

Alone(c) == \A d \in Callers : d # c => call'[d] = call[d] /\ job'[d] = job[d]

\* A lock is kept, or taken at a node that is up.
HoldsRightly(c) ==
  Holding(c)' => \/ Holding(c) /\ JobNode(c)' = JobNode(c)
                 \/ up[JobNode(c)']

\* A caller that does nothing keeps what it relies on.
LEMMA Bystander ==
  ASSUME ContentInv, OwnershipInv', Env, NEW d \in Callers, call'[d] = call[d], job'[d] = job[d],
         d \in Writers /\ Writing(d) =>
           /\ role'[call[d].node] = role[call[d].node]
           /\ epoch'[call[d].node] = epoch[call[d].node],
         job[d].stage = "orphan" =>
           /\ ~up'[call[d].node]
           /\ \A e \in Callers : Holding(e)' => JobNode(e)' # call[d].node,
         Holding(d) => refs'[call[d].node] = refs[call[d].node]
  PROVE  Fine(d)'
<1>0. TypeOK /\ row.primary \in Nodes
  BY ContentParts, RowFields
<1>1. Kinded(d)'
  BY CallerParts DEF Kinded
<1>2. WriterHolds(d)'
  BY CallerParts DEF WriterHolds, Writing
<1>3. CopyGrows(d)'
  <2>1. CASE job[d].stage = "none"
    BY <2>1 DEF CopyGrows
  <2>2. CASE job[d].stage # "none"
    <3>1. call[d].node \in Nodes
      BY <1>0, <2>2, ContentParts, RoutedNodes
    <3>2. refs[call[d].node] \subseteq refs'[call[d].node]
          /\ refs[row.primary] \subseteq refs'[row.primary] /\ row'.primary = row.primary
      BY <1>0, <3>1 DEF Env
    <3>3. job[d].stage \in {"fetched", "applied"}
             => refs'[call[d].node] = refs[call[d].node]
      BY DEF Holding
    <3>4. QED
      BY <3>2, <3>3, CallerParts DEF CopyGrows
  <2>3. QED
    BY <2>1, <2>2
<1>4. AnswerKept(d)'
  BY <1>0, CallerParts DEF AnswerKept, Env
<1>5. SyncRouted(d)'
  <2>1. CASE ~Engaged(d) \/ d \in Writers
    BY <2>1 DEF SyncRouted, Engaged
  <2>2. CASE Engaged(d) /\ d \notin Writers
    <3>1. call[d].src \in Nodes /\ call[d].epoch \in Nat
      BY <1>0, <2>2, ContentParts, EpochsAreNumbers DEF Routed
    <3>2. /\ epoch'[call[d].src] >= epoch[call[d].src]
          /\ epoch[call[d].src] \in Nat /\ epoch'[call[d].src] \in Nat
      BY <1>0, <3>1 DEF Env, OwnershipInv, TypeOK
    <3>3. epoch[call[d].src] > call[d].epoch => epoch'[call[d].src] > call[d].epoch
      BY <3>1, <3>2
    <3>4. QED
      BY <3>3, CallerParts DEF SyncRouted, Env, Engaged
  <2>3. QED
    BY <2>1, <2>2
<1>6. Succeeds(d)'
  <2> SUFFICES ASSUME d \in Promoters, Engaged(d), call[d].epoch = row.epoch + 1
               PROVE  Succeeds(d)'
    BY DEF Succeeds, Engaged, Env
  <2>1. job[d].kind = "sync" => PrimaryFenced
    BY ContentParts DEF Transition, PastFence
  <2>2. job[d].kind = "sync" => refs'[row.primary] = refs[row.primary]
    BY <2>1 DEF Env
  <2>3. call[d].node \in Nodes
    BY <1>0, CallFields DEF Engaged
  <2>4. role[call[d].node] \in Managed /\ epoch[call[d].node] = row.epoch + 1 =>
          /\ role'[call[d].node] \in Managed /\ epoch'[call[d].node] = row.epoch + 1
          /\ role[call[d].node] = "primary" => role'[call[d].node] = "primary"
    BY <2>3 DEF Env
  <2>5. row'.primary = row.primary /\ row'.epoch = row.epoch
    BY DEF Env
  <2>6. QED
    BY <2>2, <2>4, <2>5, CallerParts DEF Succeeds
<1>7. QED
  BY <1>1, <1>2, <1>3, <1>4, <1>5, <1>6 DEF Fine

\* A step of one caller that leaves the others undisturbed.
LEMMA OneCaller ==
  ASSUME ContentInv, OwnershipInv', Env, up' = up, NEW c \in Callers, Alone(c),
         Fine(c)', NodesFine', HoldsRightly(c),
         \A w \in Writers : Writing(w) /\ w # c =>
           /\ role'[call[w].node] = role[call[w].node]
           /\ epoch'[call[w].node] = epoch[call[w].node],
         \A d \in Callers : Holding(d) /\ d # c =>
           refs'[call[d].node] = refs[call[d].node]
  PROVE  ContentInv'
<1>1. ASSUME NEW d \in Callers, d # c PROVE Fine(d)'
  <2>1. call'[d] = call[d] /\ job'[d] = job[d]
    BY <1>1 DEF Alone
  <2>2. ASSUME job[d].stage = "orphan", NEW e \in Callers, Holding(e)'
        PROVE  JobNode(e)' # call[d].node
    <3>1. /\ d \in Writers /\ ~up[call[d].node]
          /\ \A f \in Callers : Holding(f) => JobNode(f) # call[d].node
      BY <2>2, CallerParts DEF Kinded, WriterHolds, Writing
    <3>2. CASE e = c
      BY <2>2, <3>1, <3>2 DEF HoldsRightly
    <3>3. CASE e # c
      <4>1. call'[e] = call[e] /\ job'[e] = job[e]
        BY <3>3 DEF Alone
      <4>2. Holding(e) /\ JobNode(e)' = JobNode(e)
        BY <2>2, <4>1 DEF Holding, JobNode
      <4>3. QED
        BY <3>1, <4>2
    <3>4. QED
      BY <3>2, <3>3
  <2>3. job[d].stage = "orphan" => ~up'[call[d].node]
    BY CallerParts DEF Kinded, WriterHolds, Writing
  <2>4. QED
    BY <1>1, <2>1, <2>2, <2>3, Bystander
<1>2. QED
  BY <1>1 DEF ContentInv

-----------------------------------------------------------------------------
\* Steps that change no node: callers that ask, wait, compare and return, and
\* jobs that end without an effect.

Rest == UNCHANGED nodeVars /\ SameOwner /\ PrimaryNoReplica'
Still == Rest /\ up' = up

LEMMA StillNodes == ASSUME ContentInv, Rest PROVE Env /\ NodesFine'
<1>1. /\ role' = role /\ epoch' = epoch /\ refs' = refs
      /\ row'.primary = row.primary /\ row'.epoch = row.epoch
      /\ row'.target = row.target /\ row'.state = row.state
  BY DEF Still, Rest, nodeVars, SameOwner
<1>2. Env
  BY <1>1, ContentParts, EpochsAreNumbers DEF Env
<1>3. EpochsBounded' /\ PrimaryKnown' /\ SuccessorsEqual' /\ NoDivergence' /\ TargetKnown'
  BY <1>1, ContentParts
     DEF EpochsBounded, PrimaryKnown, SuccessorsEqual, NoDivergence, PrimaryFenced,
         TargetKnown
<1>4. QED
  BY <1>2, <1>3 DEF NodesFine, Still, Rest

LEMMA StillStep ==
  ASSUME ContentInv, OwnershipInv', Still, NEW c \in Callers, Alone(c), Fine(c)',
         HoldsRightly(c)
  PROVE  ContentInv'
BY StillNodes, OneCaller DEF Still, Rest, nodeVars

\* A caller whose job has no effect on a node, or not yet.
Harmless == {"none", "queued", "rejected", "lost"}

LEMMA HarmlessFine ==
  ASSUME ContentInv, Rest, NEW c \in Callers, Kinded(c)', job'[c].stage \in Harmless,
         job'[c].kind = "activate" => job[c].kind = "activate",
         c \in Writers /\ call'[c].phase = "acked" => c \in refs[row.primary],
         \/ call'[c].node = None
         \/ /\ call'[c].node = call[c].node /\ call'[c].src = call[c].src
            /\ call'[c].epoch = call[c].epoch
  PROVE  Fine(c)'
<1>1. /\ role' = role /\ epoch' = epoch /\ refs' = refs
      /\ row'.primary = row.primary /\ row'.epoch = row.epoch
  BY DEF Still, Rest, nodeVars, SameOwner
<1>2. WriterHolds(c)' /\ CopyGrows(c)' /\ AnswerKept(c)'
  BY <1>1 DEF WriterHolds, Writing, CopyGrows, AnswerKept, Harmless
<1>3. SyncRouted(c)'
  BY <1>1, CallerParts DEF SyncRouted, Engaged
<1>4. Succeeds(c)'
  BY <1>1, CallerParts DEF Succeeds, Engaged, Harmless
<1>5. QED
  BY <1>2, <1>3, <1>4 DEF Fine

LEMMA StageStep ==
  ASSUME ContentInv, OwnershipInv', Still, UNCHANGED call, NEW c \in Callers,
         NEW stage \in {"rejected", "lost"}, SetStage(c, stage), job[c].kind # "none"
  PROVE  ContentInv'
<1>1. /\ job'[c].kind = job[c].kind /\ job'[c].stage = stage
      /\ \A d \in Callers : d # c => job'[d] = job[d]
  BY ContentParts, SetStageEffect DEF Stages
<1>2. Kinded(c)'
  BY <1>1, CallerParts DEF Kinded
<1>3. Fine(c)'
  BY <1>1, <1>2, CallerParts, HarmlessFine DEF Still, Harmless, AnswerKept
<1>4. Alone(c) /\ HoldsRightly(c)
  BY <1>1 DEF Alone, HoldsRightly, Holding
<1>5. QED
  BY <1>3, <1>4, StillStep

LEMMA ReturnStep ==
  ASSUME ContentInv, OwnershipInv', Still, NEW c \in Callers, NEW phase \in Phases \ Active,
         Return(c, phase), phase = "acked" => c \in refs[row.primary]
  PROVE  ContentInv'
<1>0. TypeOK
  BY ContentParts
<1>1. CASE job[c].stage \in Ended
  <2>1. /\ call'[c] = [IdleCall EXCEPT !.phase = phase] /\ job'[c] = NoJob /\ Alone(c)
    BY <1>0, <1>1 DEF Return, TypeOK, Alone
  <2>2. /\ call'[c].node = None /\ call'[c].phase = phase
        /\ job'[c].stage = "none" /\ job'[c].kind = "none"
    BY <2>1 DEF IdleCall, NoJob
  <2>3. Fine(c)'
    BY <2>2, HarmlessFine DEF Still, Harmless, Kinded, Active
  <2>4. HoldsRightly(c)
    BY <2>2 DEF HoldsRightly, Holding
  <2>5. QED
    BY <2>1, <2>3, <2>4, StillStep
<1>2. CASE job[c].stage \notin Ended
  <2>1. /\ job' = job
        /\ call'[c].node = call[c].node /\ call'[c].src = call[c].src
        /\ call'[c].epoch = call[c].epoch /\ call'[c].phase = phase
        /\ \A d \in Callers : d # c => call'[d] = call[d]
    BY <1>0, <1>2, SetPhaseEffect DEF Return
  <2>2. /\ role' = role /\ epoch' = epoch /\ refs' = refs /\ up' = up
        /\ row'.primary = row.primary /\ row'.epoch = row.epoch
    BY DEF Still, Rest, nodeVars, SameOwner
  <2>3. \A d \in Callers : Holding(d)' = Holding(d) /\ JobNode(d)' = JobNode(d)
    BY <2>1 DEF Holding, JobNode
  <2>4. Kinded(c)' /\ CopyGrows(c)' /\ SyncRouted(c)' /\ Succeeds(c)'
    BY <2>1, <2>2, CallerParts DEF Kinded, CopyGrows, SyncRouted, Succeeds, Engaged,
       Active
  <2>5. WriterHolds(c)'
    BY <2>1, <2>2, <2>3, CallerParts DEF WriterHolds, Writing
  <2>6. AnswerKept(c)'
    BY <2>1, <2>2, CallerParts DEF AnswerKept
  <2>7. Fine(c)'
    BY <2>4, <2>5, <2>6 DEF Fine
  <2>8. Alone(c) /\ HoldsRightly(c)
    BY <2>1, <2>3 DEF Alone, HoldsRightly
  <2>9. QED
    BY <2>7, <2>8, StillStep
<1>3. QED
  BY <1>1, <1>2

\* A row that keeps its owner and its replicas.
LEMMA SameRowStill ==
  ASSUME ContentInv, UNCHANGED <<nodeVars, up>>,
         \/ row' = row
         \/ \E i, g : row' = [row EXCEPT !.pending = i, !.generation = g, !.latest = {}]
         \/ \E i : row' = [row EXCEPT !.pending = i, !.latest = {}]
  PROVE  Still
<1>1. row \in Placement
  BY ContentParts DEF TypeOK
<1>2. SameOwner /\ row'.replicas = row.replicas
  BY <1>1 DEF SameOwner, Placement
<1>3. QED
  BY <1>2, ContentParts DEF Still, Rest, SameOwner, PrimaryNoReplica

-----------------------------------------------------------------------------
\* Writers.

LEMMA BeginWriteContent ==
  ASSUME ContentInv, OwnershipInv', NEW w \in Writers, BeginWrite(w) PROVE ContentInv'
<1>0. w \in Callers /\ w \notin Syncs \cup Promoters /\ TypeOK
  BY ContentParts, Disjoint DEF Callers
<1>1. Still
  BY SameRowStill DEF BeginWrite
<1>2. call'[w].phase = "waiting" /\ \A d \in Callers : d # w => call'[d] = call[d]
  BY <1>0, CallType DEF BeginWrite, Call
<1>3. /\ job'[w].stage = "queued" /\ job'[w].kind \in {"init", "write"}
      /\ \A d \in Callers : d # w => job'[d] = job[d]
  BY <1>0 DEF BeginWrite, Ask, TypeOK
<1>4. Fine(w)'
  BY <1>0, <1>2, <1>3 DEF Fine, Kinded, WriterHolds, Writing, CopyGrows, AnswerKept,
     SyncRouted, Succeeds
<1>5. Alone(w) /\ HoldsRightly(w)
  BY <1>2, <1>3 DEF Alone, HoldsRightly, Holding
<1>6. QED
  BY <1>0, <1>1, <1>4, <1>5, StillStep

LEMMA StartWriteContent ==
  ASSUME ContentInv, OwnershipInv', NEW w \in Writers, StartWrite(w) PROVE ContentInv'
<1>0. w \in Callers /\ w \notin Syncs \cup Promoters /\ TypeOK
  BY ContentParts, Disjoint DEF Callers
<1>1. Still /\ call' = call /\ job[w].kind = "write" /\ up[JobNode(w)]
  BY SameRowStill DEF StartWrite, Queued
<1>2. CASE ~Writable(call[w].node, call[w].epoch)
  BY <1>0, <1>1, <1>2, StageStep DEF StartWrite
<1>3. CASE Writable(call[w].node, call[w].epoch)
  <2>1. /\ job'[w].kind = "write" /\ job'[w].stage = "running"
        /\ \A d \in Callers : d # w => job'[d] = job[d]
    BY <1>0, <1>1, <1>3, SetStageEffect DEF StartWrite, Stages
  <2>2. WriterHolds(w)'
    BY <1>1, <1>3, <2>1 DEF WriterHolds, Writable, Still, Rest, nodeVars
  <2>3. AnswerKept(w)'
    BY <1>0, <1>1, <2>1, CallerParts DEF AnswerKept, Still, Rest, nodeVars, SameOwner
  <2>4. Fine(w)'
    BY <1>0, <2>1, <2>2, <2>3 DEF Fine, Kinded, CopyGrows, SyncRouted, Succeeds
  <2>5. Alone(w) /\ HoldsRightly(w)
    BY <1>1, <2>1 DEF Alone, HoldsRightly, JobNode
  <2>6. QED
    BY <1>0, <1>1, <2>4, <2>5, StillStep
<1>4. QED
  BY <1>2, <1>3

LEMMA AnsweredWriters ==
  ASSUME ContentInv, OwnershipInv', NEW w \in Writers,
         FinishWrite(w) \/ GiveUp(w) \/ RejectStopping(w)
  PROVE  ContentInv'
<1>0. w \in Callers /\ TypeOK
  BY ContentParts DEF Callers
<1>1. CASE FinishWrite(w)
  <2>1. Still
    <3>1. \/ row' = row
          \/ row' = [row EXCEPT !.pending = row.pending - 1,
                                !.generation = row.generation + 1, !.latest = {}]
      BY <1>1 DEF FinishWrite
    <3>2. UNCHANGED <<nodeVars, up>>
      BY <1>1 DEF FinishWrite
    <3>3. QED
      BY <3>1, <3>2, SameRowStill
  <2>2. \E phase \in {"acked", "refused", "unsettled"} :
           /\ Return(w, phase)
           /\ phase = "acked" => job[w].stage = "done"
    BY <1>1 DEF FinishWrite
  <2>3. job[w].stage = "done" => w \in refs[row.primary]
    BY <1>0, CallerParts DEF AnswerKept
  <2>4. QED
    BY <1>0, <2>1, <2>2, <2>3, ReturnStep DEF Phases, Active
<1>2. CASE GiveUp(w)
  <2>1. Still
    BY <1>2, SameRowStill DEF GiveUp
  <2>2. Return(w, "uncertain")
    BY <1>2 DEF GiveUp
  <2>3. QED
    BY <1>0, <2>1, <2>2, ReturnStep DEF Phases, Active
<1>3. CASE RejectStopping(w)
  <2>1. Still
    BY <1>3, SameRowStill DEF RejectStopping
  <2>2. job[w].kind # "none"
    BY <1>0, <1>3, CallerParts DEF RejectStopping, Kinded
  <2>3. QED
    BY <1>0, <1>3, <2>1, <2>2, StageStep DEF RejectStopping
<1>4. QED
  BY <1>1, <1>2, <1>3

-----------------------------------------------------------------------------
\* Replication workers.

\* A row in which the entry of another node than the primary changes.
LEMMA EntryStill ==
  ASSUME ContentInv, UNCHANGED <<nodeVars, up>>, NEW n, NEW r, n # row.primary,
         row' = [row EXCEPT !.latest = {}, !.replicas[n] = r]
  PROVE  Still
<1>1. row \in Placement /\ row.primary \in Nodes
  BY ContentParts, RowFields DEF TypeOK
<1>2. SameOwner
  BY <1>1 DEF SameOwner, Placement
<1>3. row'.replicas = [row.replicas EXCEPT ![n] = r]
  BY <1>1 DEF Placement
<1>4. row'.replicas[row.primary] = row.replicas[row.primary]
  BY <1>1, <1>3 DEF Placement
<1>5. QED
  BY <1>2, <1>4, ContentParts DEF Still, Rest, SameOwner, PrimaryNoReplica

LEMMA ClaimSyncContent ==
  ASSUME ContentInv, OwnershipInv', NEW s \in Syncs, NEW n \in Nodes, ClaimSync(s, n)
  PROVE  ContentInv'
<1>0. s \in Callers /\ s \notin Writers \cup Promoters /\ TypeOK /\ Routed
  BY ContentParts, Disjoint DEF Callers
<1>1. n # row.primary
  BY ContentParts DEF ClaimSync, PrimaryNoReplica
<1>2. Still
  <2>1. UNCHANGED <<nodeVars, up>>
    BY DEF ClaimSync
  <2>2. PICK r : row' = [row EXCEPT !.replicas[n] = r, !.latest = {}]
    BY DEF ClaimSync
  <2>3. row' = [row EXCEPT !.latest = {}, !.replicas[n] = r]
    BY <1>0, <2>2, RowType DEF Placement
  <2>4. QED
    BY <1>1, <2>1, <2>3, EntryStill
<1>3. /\ call'[s].node = n /\ call'[s].epoch = row.epoch /\ call'[s].src = row.primary
      /\ \A d \in Callers : d # s => call'[d] = call[d]
  BY <1>0 DEF ClaimSync, TypeOK
<1>4. job' = job /\ job[s].stage = "none"
  BY <1>0 DEF ClaimSync, Routed
<1>5. SyncRouted(s)'
  <2>1. row'.epoch = row.epoch /\ row'.primary = row.primary
    BY <1>2 DEF Still, Rest, SameOwner
  <2>2. row.epoch > 0 /\ row.epoch \in Nat
    BY <1>0, ContentParts, RowFields
  <2>3. QED
    BY <1>0, <1>1, <1>3, <2>1, <2>2 DEF SyncRouted
<1>6. Kinded(s)'
  BY <1>0, <1>4, CallerParts DEF Kinded
<1>7. Fine(s)'
  BY <1>0, <1>4, <1>5, <1>6
     DEF Fine, WriterHolds, Writing, CopyGrows, AnswerKept, Succeeds
<1>8. Alone(s) /\ HoldsRightly(s)
  BY <1>3, <1>4 DEF Alone, HoldsRightly, Holding
<1>9. QED
  BY <1>0, <1>2, <1>7, <1>8, StillStep

LEMMA SnapshotSourceContent ==
  ASSUME ContentInv, OwnershipInv', NEW s \in Syncs, SnapshotSource(s)
  PROVE  ContentInv'
<1>0. s \in Callers /\ s \notin Writers \cup Promoters /\ TypeOK
  BY ContentParts, Disjoint DEF Callers
<1>1. Still
  BY SameRowStill DEF SnapshotSource
<1>2. /\ call'[s].node = call[s].node /\ call'[s].src = call[s].src
      /\ call'[s].epoch = call[s].epoch /\ call'[s].phase = "copying"
      /\ \A d \in Callers : d # s => call'[d] = call[d]
  BY <1>0, CallType DEF SnapshotSource, Call
<1>3. /\ job'[s].kind = "sync" /\ job'[s].stage \in {"queued", "rejected"}
      /\ \A d \in Callers : d # s => job'[d] = job[d]
  BY <1>0 DEF SnapshotSource, Ask, TypeOK
<1>4. Kinded(s)'
  BY <1>0, <1>3 DEF Kinded
<1>5. Fine(s)'
  BY <1>0, <1>1, <1>2, <1>3, <1>4, HarmlessFine DEF Still, Harmless
<1>6. Alone(s) /\ HoldsRightly(s)
  BY <1>2, <1>3 DEF Alone, HoldsRightly, Holding
<1>7. QED
  BY <1>0, <1>1, <1>5, <1>6, StillStep

LEMMA ReturnedSyncs ==
  ASSUME ContentInv, OwnershipInv', NEW s \in Syncs,
         FinishSync(s) \/ AbortSync(s) \/ LoseSync(s) \/ NextTick(s)
  PROVE  ContentInv'
<1>0. s \in Callers /\ s \notin Writers /\ TypeOK /\ Routed
  BY ContentParts, Disjoint DEF Callers
<1>1. ASSUME NEW ready \in BOOLEAN, RecordSync(s, ready), call[s].phase \in Active,
             UNCHANGED <<nodeVars, up>>
      PROVE  Still
  <2>1. CASE row' = row
    BY <1>1, <2>1, SameRowStill
  <2>2. CASE row' # row
    <3>1. PICK r : row' = [row EXCEPT !.latest = {}, !.replicas[call[s].node] = r]
      BY <1>1, <2>2 DEF RecordSync
    <3>2. row.epoch = call[s].epoch
      BY <1>1, <2>2 DEF RecordSync
    <3>3. Engaged(s)
      BY <1>0, <1>1 DEF Routed
    <3>4. call[s].node # row.primary
      BY <1>0, <3>2, <3>3, CallerParts DEF SyncRouted
    <3>5. QED
      BY <1>1, <3>1, <3>4, EntryStill
  <2>3. QED
    BY <2>1, <2>2
<1>2. ASSUME Still, NEW phase \in {"finished", "idle"}, Return(s, phase)
      PROVE  ContentInv'
  BY <1>0, <1>2, ReturnStep DEF Phases, Active
<1>3. CASE FinishSync(s)
  <2>1. Still
    BY <1>1, <1>3 DEF FinishSync, Active
  <2>2. QED
    BY <1>2, <1>3, <2>1 DEF FinishSync
<1>4. CASE AbortSync(s)
  <2>1. Still
    BY <1>1, <1>4 DEF AbortSync, Active
  <2>2. QED
    BY <1>2, <1>4, <2>1 DEF AbortSync
<1>5. CASE LoseSync(s)
  BY <1>2, <1>5, SameRowStill DEF LoseSync
<1>6. CASE NextTick(s)
  BY <1>2, <1>6, SameRowStill DEF NextTick
<1>7. QED
  BY <1>3, <1>4, <1>5, <1>6

-----------------------------------------------------------------------------
\* Synchronizations at the destination.

LEMMA FetchBundleContent ==
  ASSUME ContentInv, OwnershipInv', NEW c \in Syncs \cup Promoters, FetchBundle(c)
  PROVE  ContentInv'
<1>0. c \in Callers /\ c \notin Writers /\ TypeOK /\ Holding(c)
  BY ContentParts, Disjoint DEF Callers, FetchBundle, Holding
<1>1. Still /\ call' = call /\ job[c].kind = "sync"
  BY SameRowStill DEF FetchBundle
<1>2. /\ job'[c].kind = "sync"
      /\ \A d \in Callers : d # c => job'[d] = job[d]
      /\ \/ job'[c].stage = "rejected"
         \/ /\ Snapshotable(call[c].src, call[c].epoch)
            /\ job'[c].stage = "fetched" /\ job'[c].got = refs[call[c].src]
  <2>1. job' = [job EXCEPT ![c] =
                  IF Snapshotable(call[c].src, call[c].epoch)
                    THEN [job[c] EXCEPT !.stage = "fetched", !.got = refs[call[c].src]]
                    ELSE [job[c] EXCEPT !.stage = "rejected"]]
    BY <1>0 DEF FetchBundle, TypeOK
  <2>2. QED
    BY <1>0, <1>1, <2>1 DEF TypeOK, Job
<1>3. Kinded(c)'
  BY <1>0, <1>1, <1>2, CallerParts DEF Kinded
<1>4. Fine(c)'
  <2>1. CASE job'[c].stage = "rejected"
    BY <1>0, <1>1, <1>2, <1>3, <2>1, HarmlessFine DEF Still, Harmless
  <2>2. CASE job'[c].stage # "rejected"
    <3>1. job'[c].stage = "fetched" /\ job'[c].got = refs[row.primary]
      BY <1>0, <1>1, <1>2, <2>2, FetchesFromPrimary DEF Snapshotable
    <3>2. call[c].node \in Nodes
      BY <1>0, ContentParts, RoutedNodes DEF Holding
    <3>3. /\ row'.primary = row.primary /\ row'.epoch = row.epoch
          /\ refs' = refs /\ epoch' = epoch
      BY <1>1 DEF Still, Rest, nodeVars, SameOwner
    <3>4. CopyGrows(c)'
      BY <1>1, <1>2, <3>1, <3>2, <3>3, ContentParts DEF CopyGrows, NoDivergence
    <3>5. SyncRouted(c)' /\ Succeeds(c)'
      BY <1>0, <1>1, <1>2, <3>1, <3>3, CallerParts DEF SyncRouted, Succeeds, Engaged
    <3>6. QED
      BY <1>0, <1>3, <3>4, <3>5 DEF Fine, WriterHolds, AnswerKept
  <2>3. QED
    BY <2>1, <2>2
<1>5. Alone(c) /\ HoldsRightly(c)
  BY <1>0, <1>1, <1>2 DEF Alone, HoldsRightly, JobNode
<1>6. QED
  BY <1>0, <1>1, <1>4, <1>5, StillStep

LEMMA RejectedCopies ==
  ASSUME ContentInv, OwnershipInv', NEW c \in Syncs \cup Promoters,
         \/ FailSync(c)
         \/ StartSync(c) /\ SetStage(c, "rejected") /\ UNCHANGED <<role, epoch>>
  PROVE  ContentInv'
<1>1. Still /\ call' = call /\ job[c].kind = "sync" /\ SetStage(c, "rejected")
  BY SameRowStill DEF FailSync, StartSync, Copyable, Queued, nodeVars
<1>2. QED
  BY <1>1, StageStep DEF Callers

-----------------------------------------------------------------------------
\* Operators.

LEMMA PromoterSteps ==
  ASSUME ContentInv, OwnershipInv', NEW p \in Promoters,
         \/ Frozen(p) \/ CheckTarget(p) \/ TargetSynced(p) \/ FailPromote(p)
         \/ CompletePromote(p) /\ p \notin row.latest
         \/ ExecFence(p) /\ SetStage(p, "rejected")
         \/ ExecActivate(p) /\ SetStage(p, "rejected")
  PROVE  ContentInv'
<1>0. p \in Callers /\ p \notin Writers \cup Syncs /\ TypeOK /\ Routed
  BY ContentParts, Disjoint DEF Callers
<1>1. ASSUME Still, NEW phase \in {"failed", "promoted"}, Return(p, phase)
      PROVE  ContentInv'
  BY <1>0, <1>1, ReturnStep DEF Phases, Active
<1>2. CASE FailPromote(p)
  BY <1>1, <1>2, SameRowStill DEF FailPromote
<1>3. CASE CompletePromote(p) /\ p \notin row.latest
  BY <1>1, <1>3, SameRowStill DEF CompletePromote
<1>4. CASE ExecFence(p) /\ SetStage(p, "rejected")
  <2>1. job'[p].stage = "rejected"
    BY <1>0, <1>4, SetStageEffect DEF Stages
  <2>2. UNCHANGED <<role, epoch>>
    BY <1>0, <1>4, <2>1, AnsweredJob DEF ExecFence, AlreadyFenced, Fenceable
  <2>3. Still /\ call' = call /\ job[p].kind = "fence"
    BY <1>4, <2>2, SameRowStill DEF ExecFence, AlreadyFenced, Fenceable, Queued, nodeVars
  <2>4. QED
    BY <1>0, <1>4, <2>3, StageStep
<1>5. CASE ExecActivate(p) /\ SetStage(p, "rejected")
  <2>1. job'[p].stage = "rejected"
    BY <1>0, <1>5, SetStageEffect DEF Stages
  <2>2. UNCHANGED <<role, epoch>>
    BY <1>0, <1>5, <2>1, AnsweredJob DEF ExecActivate, Activatable
  <2>3. Still /\ call' = call /\ job[p].kind = "activate"
    BY <1>5, <2>2, SameRowStill DEF ExecActivate, Activatable, Queued, nodeVars
  <2>4. QED
    BY <1>0, <1>5, <2>3, StageStep
<1>6. CASE Frozen(p)
  <2>1. /\ call'[p].node = call[p].node /\ call'[p].src = call[p].src
        /\ call'[p].epoch = call[p].epoch /\ call'[p].phase = "frozen"
        /\ \A d \in Callers : d # p => call'[d] = call[d]
    BY <1>0, <1>6, CallType DEF Frozen, Call
  <2>2. Still /\ job' = job
    BY <1>6, SameRowStill DEF Frozen
  <2>3. /\ role' = role /\ epoch' = epoch /\ refs' = refs
        /\ row'.primary = row.primary /\ row'.epoch = row.epoch
    BY <2>2 DEF Still, Rest, nodeVars, SameOwner
  <2>4. Kinded(p)' /\ CopyGrows(p)' /\ SyncRouted(p)' /\ Succeeds(p)'
    BY <2>1, <2>2, <2>3, <1>0, CallerParts
       DEF Kinded, CopyGrows, SyncRouted, Succeeds, Engaged
  <2>5. Fine(p)'
    BY <1>0, <2>4 DEF Fine, WriterHolds, AnswerKept
  <2>6. Alone(p) /\ HoldsRightly(p)
    BY <2>1, <2>2 DEF Alone, HoldsRightly, Holding, JobNode
  <2>7. QED
    BY <1>0, <2>2, <2>5, <2>6, StillStep
<1>7. ASSUME UNCHANGED <<row, nodeVars, up>>, call[p].phase \in Active,
             NEW kind \in {"sync", "activate"}, job' = [job EXCEPT ![p] = Ask(kind)],
             NEW phase, SetPhase(p, phase),
             phase = IF kind = "sync" THEN "syncing" ELSE "activating",
             kind = "activate" /\ call[p].epoch = row.epoch + 1
               => role[call[p].node] \in Managed /\ epoch[call[p].node] = row.epoch + 1
      PROVE  ContentInv'
  <2>1. /\ call'[p].node = call[p].node /\ call'[p].src = call[p].src
        /\ call'[p].epoch = call[p].epoch /\ call'[p].phase = phase
        /\ \A d \in Callers : d # p => call'[d] = call[d]
    BY <1>0, <1>7, SetPhaseEffect DEF Phases
  <2>2. /\ job'[p].kind = kind /\ job'[p].stage = "queued"
        /\ \A d \in Callers : d # p => job'[d] = job[d]
    BY <1>0, <1>7 DEF Ask, TypeOK
  <2>3. Still
    BY <1>7, SameRowStill
  <2>4. Kinded(p)' /\ CopyGrows(p)'
    BY <1>0, <1>7, <2>1, <2>2 DEF Kinded, CopyGrows
  <2>5. SyncRouted(p)' /\ Succeeds(p)'
    BY <1>0, <1>7, <2>1, <2>2, CallerParts DEF SyncRouted, Succeeds, Engaged, nodeVars
  <2>6. Fine(p)'
    BY <1>0, <2>4, <2>5 DEF Fine, WriterHolds, AnswerKept
  <2>7. Alone(p) /\ HoldsRightly(p)
    BY <2>1, <2>2 DEF Alone, HoldsRightly, Holding
  <2>8. QED
    BY <1>0, <2>3, <2>6, <2>7, StillStep
<1>8. CASE CheckTarget(p)
  <2>1. Engaged(p)
    BY <1>0, <1>8 DEF CheckTarget, Routed, Active
  <2>2. call[p].epoch = row.epoch + 1 => row.primary = call[p].src /\ PrimaryFenced
    BY <1>8, <2>1, ContentParts DEF CheckTarget, Transition, PastFence
  <2>3. PrimaryFenced => role[row.primary] \in Managed
    BY <1>0, ContentParts, EpochsAreNumbers DEF PrimaryKnown, PrimaryFenced, Managed
  <2>4. CASE /\ \/ call[p].node = call[p].src
                \/ Snapshotable(call[p].node, call[p].epoch)
             /\ SetPhase(p, "activating") /\ job' = [job EXCEPT ![p] = Ask("activate")]
    <3>1. call[p].epoch = row.epoch + 1
             => role[call[p].node] \in Managed /\ epoch[call[p].node] = row.epoch + 1
      BY <2>2, <2>3, <2>4 DEF Snapshotable, PrimaryFenced
    <3>2. QED
      BY <1>7, <1>8, <2>4, <3>1 DEF CheckTarget, Active
  <2>5. CASE SetPhase(p, "syncing") /\ job' = [job EXCEPT ![p] = Ask("sync")]
    BY <1>7, <1>8, <2>5 DEF CheckTarget, Active
  <2>6. QED
    BY <1>8, <2>4, <2>5 DEF CheckTarget
<1>9. CASE TargetSynced(p)
  <2>1. Engaged(p)
    BY <1>0, <1>9 DEF TargetSynced, Routed, Active
  <2>2. job[p].kind = "sync"
    BY <1>0, <1>9, CallerParts DEF TargetSynced, Kinded
  <2>3. call[p].epoch = row.epoch + 1
             => role[call[p].node] \in Managed /\ epoch[call[p].node] = row.epoch + 1
    BY <1>0, <1>9, <2>1, <2>2, CallerParts DEF TargetSynced, Succeeds
  <2>4. QED
    BY <1>7, <1>9, <2>3 DEF TargetSynced, Active
<1>10. QED
  BY <1>2, <1>3, <1>4, <1>5, <1>6, <1>8, <1>9

-----------------------------------------------------------------------------
\* Steps that change the role or the epoch of one node.

\* Nobody else relies on the role and the epoch of a node whose lock is free or
\* held by the caller of the step.
Reserved(c, n) ==
  (up[n] /\ LockFree(n)) \/ (Holding(c) /\ JobNode(c) = n)

LEMMA ReservedAlone ==
  ASSUME ContentInv, NEW c \in Callers, NEW n \in Nodes, Reserved(c, n),
         NEW w \in Writers, Writing(w), w # c
  PROVE  call[w].node # n
<1>1. CASE up[n] /\ LockFree(n)
  BY <1>1, FreeOfWriters
<1>2. CASE Holding(c) /\ JobNode(c) = n
  BY <1>2, HolderAlone
<1>3. QED
  BY <1>1, <1>2 DEF Reserved

LEMMA OneNode ==
  ASSUME ContentInv, OwnershipInv', NEW c \in Callers, Alone(c), NEW n \in Nodes,
         Reserved(c, n), UNCHANGED <<row, refs, up, call>>,
         \A m \in Nodes : m # n => role'[m] = role[m] /\ epoch'[m] = epoch[m],
         epoch'[n] >= epoch[n], epoch'[n] <= row.epoch + 1,
         n = row.primary => PrimaryKnown',
         n # row.primary /\ role'[n] \in Managed /\ epoch'[n] = row.epoch + 1
           => PrimaryFenced /\ refs[n] = refs[row.primary],
         role[n] \in Managed => role'[n] \in Managed,
         role[n] = "primary" /\ epoch[n] = row.epoch + 1 => role'[n] = "primary",
         Fine(c)', HoldsRightly(c)
  PROVE  ContentInv'
<1>0. TypeOK /\ row.primary \in Nodes /\ row.epoch \in Nat
      /\ \A m \in Nodes : epoch[m] \in Nat /\ epoch'[m] \in Nat
  BY ContentParts, RowFields, EpochsAreNumbers DEF OwnershipInv, TypeOK
<1>1. \A m \in Nodes : epoch'[m] >= epoch[m]
  BY <1>0
<1>2. EpochsBounded'
  BY <1>0, ContentParts DEF EpochsBounded
<1>3. PrimaryKnown'
  <2>1. CASE n = row.primary
    BY <2>1
  <2>2. CASE n # row.primary
    BY <1>0, <2>2, ContentParts DEF PrimaryKnown
  <2>3. QED
    BY <2>1, <2>2
<1>4. PrimaryFenced => PrimaryFenced'
  <2>1. ASSUME PrimaryFenced PROVE PrimaryFenced'
    <3>1. epoch'[row.primary] = row.epoch + 1
      BY <1>0, <1>1, <1>2, <2>1 DEF EpochsBounded, PrimaryFenced
    <3>2. row.epoch > 0
      BY ContentParts
    <3>3. QED
      BY <1>0, <1>3, <3>1, <3>2 DEF PrimaryKnown, PrimaryFenced
  <2>2. QED
    BY <2>1
<1>5. SuccessorsEqual'
  BY <1>0, <1>4, ContentParts DEF SuccessorsEqual
<1>6. PrimaryNoReplica' /\ TargetKnown' /\ NoDivergence'
  BY ContentParts DEF PrimaryNoReplica, TargetKnown, NoDivergence
<1>7. NodesFine'
  BY <1>2, <1>3, <1>5, <1>6 DEF NodesFine
<1>8. ASSUME NEW m \in Nodes, role[m] \in Managed, epoch[m] = row.epoch + 1
      PROVE  /\ role'[m] \in Managed /\ epoch'[m] = row.epoch + 1
             /\ role[m] = "primary" => role'[m] = "primary"
  BY <1>0, <1>1, <1>2, <1>8 DEF EpochsBounded
<1>9. Env
  BY <1>1, <1>8 DEF Env
<1>10. ASSUME NEW w \in Writers, Writing(w), w # c
       PROVE  /\ role'[call[w].node] = role[call[w].node]
              /\ epoch'[call[w].node] = epoch[call[w].node]
  <2>1. call[w].node # n
    BY <1>10, ReservedAlone
  <2>2. call[w].node \in Nodes
    BY <1>0, <1>10, WriterOnPrimary
  <2>3. QED
    BY <2>1, <2>2
<1>11. QED
  BY <1>7, <1>9, <1>10, OneCaller

LEMMA StartInitContent ==
  ASSUME ContentInv, OwnershipInv', NEW w \in Writers, StartInit(w) PROVE ContentInv'
<1> DEFINE n == call[w].node
<1>0. w \in Callers /\ w \notin Syncs \cup Promoters /\ TypeOK
  BY ContentParts, Disjoint DEF Callers
<1>1. /\ UNCHANGED <<row, refs, up, call>> /\ job[w].kind = "init"
      /\ job[w].stage = "queued" /\ up[n] /\ LockFree(n)
  BY DEF StartInit, Queued, JobNode
<1>2. CASE ~(call[w].epoch = 1 /\ role[n] \in {"absent", "initPrimary"})
  <2>1. SetStage(w, "rejected") /\ UNCHANGED <<role, epoch>>
    BY <1>2 DEF StartInit
  <2>2. Still
    BY <1>1, <2>1, SameRowStill DEF nodeVars
  <2>3. QED
    BY <1>0, <1>1, <2>1, <2>2, StageStep
<1>3. CASE call[w].epoch = 1 /\ role[n] \in {"absent", "initPrimary"}
  <2>1. /\ job'[w].kind = "init" /\ job'[w].stage = "running"
        /\ \A d \in Callers : d # w => job'[d] = job[d]
    BY <1>0, <1>1, <1>3, SetStageEffect DEF StartInit, Stages
  <2>2. Engaged(w) /\ n \in Nodes
    BY <1>0, <1>1, ContentParts, RoutedNodes DEF Routed
  <2>3. /\ role'[n] = "initPrimary" /\ epoch'[n] = 1
        /\ \A m \in Nodes : m # n => role'[m] = role[m] /\ epoch'[m] = epoch[m]
    BY <1>0, <1>3, <2>2 DEF StartInit, TypeOK
  <2>4. epoch[n] <= 1 /\ n = row.primary /\ row.epoch = 1
    <3>1. epoch[n] <= 1
      BY <1>3, <2>2, ContentParts DEF OwnersKnown
    <3>2. QED
      BY <1>0, <1>3, <2>2, <3>1, ContentParts, EpochsAreNumbers DEF NoneAhead
  <2>5. PrimaryKnown'
    BY <1>1, <2>3, <2>4 DEF PrimaryKnown
  <2>6. WriterHolds(w)'
    BY <1>1, <1>3, <2>1, <2>3 DEF WriterHolds
  <2>7. AnswerKept(w)'
    BY <1>0, <1>1, <2>1, CallerParts DEF AnswerKept
  <2>8. Fine(w)'
    BY <1>0, <2>1, <2>6, <2>7 DEF Fine, Kinded, CopyGrows, SyncRouted, Succeeds
  <2>9. Alone(w) /\ HoldsRightly(w) /\ Reserved(w, n)
    BY <1>1, <2>1 DEF Alone, HoldsRightly, JobNode, Reserved
  <2>10. role[n] \notin Managed
    BY <1>3 DEF Managed
  <2>11. epoch'[n] >= epoch[n] /\ epoch'[n] <= row.epoch + 1
    BY <2>2, <2>3, <2>4, <1>0, EpochsAreNumbers
  <2>12. QED
    BY <1>0, <1>1, <2>2, <2>3, <2>4, <2>5, <2>8, <2>9, <2>10, <2>11, OneNode DEF Managed
<1>4. QED
  BY <1>2, <1>3

LEMMA StartSyncContent ==
  ASSUME ContentInv, OwnershipInv', NEW c \in Syncs \cup Promoters, StartSync(c)
  PROVE  ContentInv'
<1> DEFINE n == call[c].node
           e == call[c].epoch
<1>0. c \in Callers /\ c \notin Writers /\ TypeOK
  BY ContentParts, Disjoint DEF Callers
<1>1. /\ UNCHANGED <<row, refs, up, call>> /\ job[c].kind = "sync"
      /\ job[c].stage = "queued" /\ up[n] /\ LockFree(n)
  BY DEF StartSync, Copyable, Queued, JobNode
<1>2. CASE ~(/\ role[n] \in {"absent", "replica", "fenced", "initReplica"}
             /\ e >= epoch[n])
  BY <1>2, RejectedCopies DEF StartSync, Copyable
<1>3. CASE /\ role[n] \in {"absent", "replica", "fenced", "initReplica"}
           /\ e >= epoch[n]
  <2>1. /\ job'[c].kind = "sync" /\ job'[c].stage = "running"
        /\ \A d \in Callers : d # c => job'[d] = job[d]
    BY <1>0, <1>1, <1>3, SetStageEffect DEF StartSync, Copyable, Stages
  <2>2. Engaged(c) /\ n \in Nodes /\ e \in Nat /\ row.epoch \in Nat
    BY <1>0, <1>1, ContentParts, RoutedNodes, EpochsAreNumbers DEF Routed
  <2>3. /\ \/ /\ role'[n] = "initReplica" /\ epoch'[n] = e
              /\ role[n] \in {"absent", "initReplica"}
           \/ /\ role'[n] = role[n] /\ epoch'[n] = epoch[n]
        /\ \A m \in Nodes : m # n => role'[m] = role[m] /\ epoch'[m] = epoch[m]
    BY <1>0, <1>3, <2>2 DEF StartSync, Copyable, TypeOK
  <2>4. e <= row.epoch + 1
    BY <1>0, <2>2, ContentParts DEF NoneAhead, Callers
  <2>5. n = row.primary => role[n] \notin {"absent", "initReplica"}
    <3>1. SUFFICES ASSUME n = row.primary, role[n] \in {"absent", "initReplica"}
                   PROVE  FALSE
      OBVIOUS
    <3>2. row.epoch = 1
      BY <3>1, ContentParts DEF PrimaryKnown
    <3>3. c \in Promoters => e = row.epoch + 1
      BY <1>0, <2>2, <2>4, <3>2, CallerParts DEF SyncRouted
    <3>4. c \notin Promoters
      BY <1>1, <2>2, <3>1, <3>3, ContentParts DEF Transition
    <3>5. c \in Syncs /\ e = row.epoch
      BY <1>0, <2>2, <3>2, <3>4, CallerParts, ContentParts DEF SyncRouted, NoneAhead
    <3>6. QED
      BY <1>0, <2>2, <3>1, <3>5, CallerParts DEF SyncRouted
  <2>6. n = row.primary => PrimaryKnown'
    BY <1>1, <2>3, <2>5, ContentParts DEF PrimaryKnown
  <2>7. epoch'[n] >= epoch[n] /\ epoch'[n] <= row.epoch + 1
    BY <1>0, <1>3, <2>2, <2>3, <2>4, ContentParts, EpochsAreNumbers DEF EpochsBounded
  <2>8. SyncRouted(c)'
    <3>1. call[c].src \in Nodes
      BY <1>0, <2>2, ContentParts DEF Routed
    <3>2. /\ epoch'[call[c].src] >= epoch[call[c].src]
          /\ epoch[call[c].src] \in Nat /\ epoch'[call[c].src] \in Nat
      BY <1>0, <2>3, <2>7, <3>1, EpochsAreNumbers DEF OwnershipInv, TypeOK
    <3>3. epoch[call[c].src] > e => epoch'[call[c].src] > e
      BY <2>2, <3>2
    <3>4. QED
      BY <1>0, <1>1, <3>3, CallerParts DEF SyncRouted, Engaged
  <2>9. Kinded(c)'
    BY <1>0, <1>1, <2>1, CallerParts DEF Kinded
  <2>10. Fine(c)'
    BY <1>0, <2>1, <2>8, <2>9
       DEF Fine, WriterHolds, CopyGrows, AnswerKept, Succeeds
  <2>11. Alone(c) /\ HoldsRightly(c) /\ Reserved(c, n)
    BY <1>1, <2>1 DEF Alone, HoldsRightly, JobNode, Reserved
  <2>12. /\ role[n] \in Managed => role'[n] \in Managed
         /\ role[n] = "primary" => role'[n] = "primary"
         /\ role'[n] \in Managed => role'[n] = role[n] /\ epoch'[n] = epoch[n]
    BY <2>3 DEF Managed
  <2>13. n # row.primary /\ role'[n] \in Managed /\ epoch'[n] = row.epoch + 1
           => PrimaryFenced /\ refs[n] = refs[row.primary]
    BY <2>2, <2>12, ContentParts DEF SuccessorsEqual
  <2>14. QED
    BY <1>0, <1>1, <2>2, <2>3, <2>6, <2>7, <2>10, <2>11, <2>12, <2>13, OneNode
<1>4. QED
  BY <1>2, <1>3

LEMMA SaveReplicaContent ==
  ASSUME ContentInv, OwnershipInv', NEW c \in Syncs \cup Promoters, SaveReplica(c)
  PROVE  ContentInv'
<1> DEFINE n == call[c].node
           e == call[c].epoch
<1>0. c \in Callers /\ c \notin Writers /\ TypeOK /\ Holding(c)
  BY ContentParts, Disjoint DEF Callers, SaveReplica, Holding
<1>1. /\ UNCHANGED <<row, refs, up, call>> /\ job[c].kind = "sync"
      /\ job[c].stage = "applied" /\ SetStage(c, "done")
  BY DEF SaveReplica
<1>2. /\ job'[c].stage = "done" /\ job'[c].kind = "sync" /\ job'[c].got = job[c].got
      /\ \A d \in Callers : d # c => job'[d] = job[d]
  BY <1>0, <1>1 DEF SetStage, TypeOK, Job
<1>3. Engaged(c) /\ n \in Nodes /\ e \in Nat /\ row.epoch \in Nat
  BY <1>0, <1>1, ContentParts, RoutedNodes, EpochsAreNumbers DEF Routed
<1>4. /\ role'[n] = "replica" /\ epoch'[n] = e
      /\ \A m \in Nodes : m # n => role'[m] = role[m] /\ epoch'[m] = epoch[m]
  BY <1>0, <1>3 DEF SaveReplica, TypeOK
<1>5. /\ role[n] \in {"replica", "fenced", "initReplica"} /\ epoch[n] <= e
      /\ n # row.primary
  BY <1>0, <1>1, ContentParts, SyncMissesPrimary DEF CheckedStateHolds
<1>6. e <= row.epoch + 1
  BY <1>0, <1>3, ContentParts DEF NoneAhead, Callers
<1>7. e = row.epoch + 1 => PrimaryFenced /\ refs[n] = refs[row.primary]
  <2>1. SUFFICES ASSUME e = row.epoch + 1
                 PROVE  PrimaryFenced /\ refs[n] = refs[row.primary]
    OBVIOUS
  <2>2. c \in Promoters
    BY <1>0, <1>3, <2>1, ContentParts DEF NoneAhead
  <2>3. PrimaryFenced
    BY <1>1, <1>3, <2>1, <2>2, ContentParts DEF Transition, PastFence
  <2>4. job[c].got = refs[row.primary]
    BY <1>0, <1>1, <1>3, <2>1, <2>2, CallerParts DEF Succeeds
  <2>5. job[c].got \subseteq refs[n]
    BY <1>0, <1>1, CallerParts DEF CopyGrows
  <2>6. refs[n] \subseteq refs[row.primary]
    BY <1>3, ContentParts DEF NoDivergence
  <2>7. QED
    BY <2>3, <2>4, <2>5, <2>6
<1>8. CopyGrows(c)'
  BY <1>0, <1>1, <1>2, CallerParts DEF CopyGrows
<1>9. SyncRouted(c)'
  <2>1. call[c].src \in Nodes
    BY <1>0, <1>3, ContentParts DEF Routed
  <2>2. /\ epoch'[call[c].src] >= epoch[call[c].src]
        /\ epoch[call[c].src] \in Nat /\ epoch'[call[c].src] \in Nat
    BY <1>0, <1>3, <1>4, <1>5, <2>1, EpochsAreNumbers
  <2>3. epoch[call[c].src] > e => epoch'[call[c].src] > e
    BY <1>3, <2>2
  <2>4. QED
    BY <1>0, <1>1, <2>3, CallerParts DEF SyncRouted, Engaged
<1>10. Succeeds(c)'
  BY <1>1, <1>2, <1>4 DEF Succeeds, Managed
<1>11. Kinded(c)'
  BY <1>0, <1>1, <1>2, CallerParts DEF Kinded
<1>12. Fine(c)'
  BY <1>0, <1>8, <1>9, <1>10, <1>11 DEF Fine, WriterHolds, AnswerKept
<1>13. Alone(c) /\ HoldsRightly(c) /\ Reserved(c, n)
  BY <1>0, <1>1, <1>2, HolderAlone DEF Alone, HoldsRightly, Holding, Reserved
<1>14. QED
  BY <1>0, <1>1, <1>3, <1>4, <1>5, <1>6, <1>7, <1>12, <1>13, OneNode DEF Managed

LEMMA ExecFenceContent ==
  ASSUME ContentInv, OwnershipInv', NEW p \in Promoters, ExecFence(p) PROVE ContentInv'
<1> DEFINE n == call[p].src
           next == call[p].epoch
<1>0. p \in Callers /\ p \notin Writers \cup Syncs /\ TypeOK
  BY ContentParts, Disjoint DEF Callers
<1>1. CASE SetStage(p, "rejected")
  BY <1>1, PromoterSteps
<1>2. CASE ~SetStage(p, "rejected")
  <2>1. /\ job[p].kind = "fence" /\ job[p].stage = "queued" /\ LockFree(n) /\ up[n]
        /\ JobNode(p) = n /\ UNCHANGED <<row, refs, up, call>>
        /\ job' = [job EXCEPT ![p].stage = "done", ![p].got = refs[n]]
        /\ \/ role[n] = "fenced" /\ epoch[n] = next /\ UNCHANGED <<role, epoch>>
           \/ /\ role[n] \in Managed /\ epoch[n] = next - 1
              /\ role' = [role EXCEPT ![n] = "fenced"]
              /\ epoch' = [epoch EXCEPT ![n] = next]
    BY <1>2 DEF ExecFence, AlreadyFenced, Fenceable, Queued, JobNode
  <2>2. n \in Nodes /\ next \in Nat /\ row.epoch \in Nat /\ Engaged(p)
    BY <1>0, <2>1, ContentParts, RoutedNodes, EpochsAreNumbers DEF Routed
  <2>3. /\ role'[n] = "fenced" /\ epoch'[n] = next
        /\ \A m \in Nodes : m # n => role'[m] = role[m] /\ epoch'[m] = epoch[m]
        /\ role[n] \in Managed
        /\ \/ role[n] = "fenced" /\ epoch[n] = next
           \/ epoch[n] = next - 1
    BY <1>0, <2>1, <2>2 DEF TypeOK, Managed
  <2>4. /\ next <= row.epoch + 1
        /\ next = row.epoch + 1 => row.state = "moving" /\ row.primary = n
    BY <1>0, <2>2, ContentParts DEF NoneAhead, Transition
  <2>5. n = row.primary => PrimaryKnown'
    BY <1>0, <2>1, <2>2, <2>3, <2>4, ContentParts, EpochsAreNumbers
       DEF PrimaryKnown, Managed
  <2>6. /\ job'[p].kind = "fence" /\ job'[p].stage = "done"
        /\ \A d \in Callers : d # p => job'[d] = job[d]
    BY <1>0, <2>1, AnsweredJob
  <2>7. Fine(p)'
    <3>1. Kinded(p)' /\ SyncRouted(p)'
      BY <1>0, <2>1, <2>6, CallerParts DEF Kinded, SyncRouted, Engaged
    <3>2. QED
      BY <1>0, <2>6, <3>1 DEF Fine, WriterHolds, CopyGrows, AnswerKept, Succeeds
  <2>8. Alone(p) /\ HoldsRightly(p) /\ Reserved(p, n)
    BY <2>1, <2>6 DEF Alone, HoldsRightly, Holding, Reserved
  <2>9. /\ epoch'[n] >= epoch[n] /\ epoch'[n] <= row.epoch + 1
        /\ ~(role[n] = "primary" /\ epoch[n] = row.epoch + 1)
        /\ ~(n # row.primary /\ epoch'[n] = row.epoch + 1)
    BY <1>0, <2>2, <2>3, <2>4, EpochsAreNumbers
  <2>10. QED
    BY <1>0, <2>1, <2>2, <2>3, <2>5, <2>7, <2>8, <2>9, OneNode DEF Managed
<1>3. QED
  BY <1>1, <1>2

LEMMA ExecActivateContent ==
  ASSUME ContentInv, OwnershipInv', NEW p \in Promoters, ExecActivate(p) PROVE ContentInv'
<1> DEFINE t == call[p].node
           e == call[p].epoch
<1>0. p \in Callers /\ p \notin Writers \cup Syncs /\ TypeOK
  BY ContentParts, Disjoint DEF Callers
<1>1. CASE ~(role[t] \in Managed /\ e >= epoch[t])
  BY <1>1, PromoterSteps DEF ExecActivate, Activatable
<1>2. CASE role[t] \in Managed /\ e >= epoch[t]
  <2>1. /\ job[p].kind = "activate" /\ job[p].stage = "queued" /\ LockFree(t) /\ up[t]
        /\ UNCHANGED <<row, refs, up, call>>
        /\ job' = [job EXCEPT ![p].stage = "done", ![p].got = refs[t]]
        /\ role' = [role EXCEPT ![t] = "primary"]
        /\ epoch' = [epoch EXCEPT ![t] = e]
    BY <1>2 DEF ExecActivate, Activatable, Queued, JobNode
  <2>2. t \in Nodes /\ e \in Nat /\ row.epoch \in Nat /\ Engaged(p) /\ epoch[t] \in Nat
    BY <1>0, <2>1, ContentParts, RoutedNodes, EpochsAreNumbers DEF Routed
  <2>3. /\ role'[t] = "primary" /\ epoch'[t] = e
        /\ \A m \in Nodes : m # t => role'[m] = role[m] /\ epoch'[m] = epoch[m]
    BY <1>0, <2>1, <2>2 DEF TypeOK
  <2>4. e = row.epoch + 1 =>
          /\ epoch[t] = row.epoch + 1 /\ row.state = "moving" /\ row.target = t
          /\ t # row.primary => PrimaryFenced /\ refs[t] = refs[row.primary]
    <3>1. SUFFICES ASSUME e = row.epoch + 1
                   PROVE  /\ epoch[t] = row.epoch + 1 /\ row.state = "moving"
                          /\ row.target = t
                          /\ t # row.primary
                               => PrimaryFenced /\ refs[t] = refs[row.primary]
      OBVIOUS
    <3>2. epoch[t] = row.epoch + 1
      BY <1>0, <2>1, <2>2, <3>1, CallerParts DEF Succeeds
    <3>3. QED
      BY <1>2, <2>2, <3>1, <3>2, ContentParts DEF Transition, SuccessorsEqual
  <2>5. \/ e = row.epoch /\ t = row.primary
        \/ e = row.epoch + 1
    BY <1>0, <1>2, <2>2, ContentParts DEF NoneAhead
  <2>6. t = row.primary => PrimaryKnown'
    <3>1. CASE e = row.epoch
      BY <2>1, <2>3, <3>1 DEF PrimaryKnown
    <3>2. CASE e = row.epoch + 1
      BY <2>1, <2>3, <2>4, <3>2 DEF PrimaryKnown
    <3>3. QED
      BY <2>5, <3>1, <3>2
  <2>7. /\ job'[p].kind = "activate" /\ job'[p].stage = "done"
        /\ \A d \in Callers : d # p => job'[d] = job[d]
    BY <1>0, <2>1, AnsweredJob
  <2>8. Fine(p)'
    <3>1. Kinded(p)' /\ SyncRouted(p)'
      BY <1>0, <2>1, <2>7, CallerParts DEF Kinded, SyncRouted, Engaged
    <3>2. Succeeds(p)'
      BY <2>1, <2>3, <2>7 DEF Succeeds, Managed
    <3>3. QED
      BY <1>0, <2>7, <3>1, <3>2 DEF Fine, WriterHolds, CopyGrows, AnswerKept
  <2>9. Alone(p) /\ HoldsRightly(p) /\ Reserved(p, t)
    BY <2>1, <2>7 DEF Alone, HoldsRightly, Holding, Reserved
  <2>10. epoch'[t] >= epoch[t] /\ epoch'[t] <= row.epoch + 1
    BY <1>2, <2>2, <2>3, <2>5
  <2>11. t # row.primary /\ role'[t] \in Managed /\ epoch'[t] = row.epoch + 1
           => PrimaryFenced /\ refs[t] = refs[row.primary]
    BY <2>3, <2>4
  <2>12. QED
    BY <1>0, <2>1, <2>2, <2>3, <2>6, <2>8, <2>9, <2>10, <2>11, OneNode DEF Managed
<1>3. QED
  BY <1>1, <1>2

-----------------------------------------------------------------------------
\* Steps that change the references of one node.

\* While somebody writes, no node has stored the next epoch.
LEMMA NoSuccessor ==
  ASSUME ContentInv, NEW w \in Writers, Writing(w), NEW n \in Nodes,
         role[n] \in Managed
  PROVE  epoch[n] # row.epoch + 1
<1>1. row.epoch \in Nat
  BY ContentParts, RowFields
<1>2. QED
  BY <1>1, WriterOnPrimary, ContentParts DEF SuccessorsEqual

\* The writer w changes the primary, perhaps from a new repository to a primary.
LEMMA PrimaryWritten ==
  ASSUME ContentInv, OwnershipInv', NEW w \in Writers, Writing(w),
         UNCHANGED <<row, epoch, up, call>>,
         \/ role' = role
         \/ /\ role' = [role EXCEPT ![call[w].node] = "primary"]
            /\ Holding(w),
         \/ refs' = refs
         \/ refs' = [refs EXCEPT ![call[w].node] = @ \cup {w}],
         job'[w].kind = job[w].kind, Alone(w),
         \/ job'[w].stage = "done" /\ w \in refs'[call[w].node]
         \/ job'[w].stage = "rejected"
  PROVE  ContentInv'
<1> DEFINE n == row.primary
<1>0. w \in Callers /\ w \notin Syncs \cup Promoters /\ TypeOK /\ n \in Nodes
      /\ row.epoch \in Nat
  BY ContentParts, Disjoint, RowFields DEF Callers
<1>1. call[w].node = n /\ epoch[n] = row.epoch /\ ~PrimaryFenced
  BY WriterOnPrimary
<1>2. /\ \A m \in Nodes : m # n => role'[m] = role[m] /\ refs'[m] = refs[m]
      /\ refs[n] \subseteq refs'[n]
      /\ (role'[n] = role[n] \/ role'[n] = "primary")
  BY <1>0, <1>1 DEF TypeOK
<1>3. Env
  BY <1>0, <1>1, <1>2, NoSuccessor, EpochsAreNumbers DEF Env
<1>4. NodesFine'
  <2>1. EpochsBounded' /\ TargetKnown' /\ PrimaryNoReplica' /\ NoDivergence'
    BY <1>0, <1>2, ContentParts
       DEF EpochsBounded, TargetKnown, PrimaryNoReplica, NoDivergence
  <2>2. PrimaryKnown'
    BY <1>0, <1>1, <1>2, ContentParts DEF PrimaryKnown
  <2>3. SuccessorsEqual'
    BY <1>2, NoSuccessor DEF SuccessorsEqual
  <2>4. QED
    BY <2>1, <2>2, <2>3 DEF NodesFine
<1>5. Kinded(w)'
  BY <1>0, CallerParts DEF Kinded, Writing
<1>6. AnswerKept(w)'
  BY <1>0, <1>1, <1>2, CallerParts DEF AnswerKept
<1>7. Fine(w)'
  BY <1>0, <1>5, <1>6
     DEF Fine, Kinded, WriterHolds, Writing, CopyGrows, SyncRouted, Succeeds
<1>8. HoldsRightly(w)
  BY DEF HoldsRightly, Holding
<1>9. ASSUME NEW d \in Callers, Holding(d), d # w
      PROVE  refs'[call[d].node] = refs[call[d].node]
  <2>1. call[d].node \in Nodes
    BY <1>0, <1>9, ContentParts, RoutedNodes DEF Holding
  <2>2. JobNode(d) = call[d].node
    BY <1>9, HolderAlone
  <2>3. call[d].node # n
    <3>1. CASE Holding(w)
      BY <1>0, <1>1, <1>9, <3>1, HolderAlone
    <3>2. CASE job[w].stage = "orphan"
      BY <1>0, <1>1, <1>9, <2>2, <3>2, CallerParts DEF WriterHolds, Writing
    <3>3. QED
      BY <3>1, <3>2 DEF Writing, Holding
  <2>4. QED
    BY <1>2, <2>1, <2>3
<1>10. ASSUME NEW v \in Writers, Writing(v), v # w
       PROVE  /\ role'[call[v].node] = role[call[v].node]
              /\ epoch'[call[v].node] = epoch[call[v].node]
  <2>1. CASE role' = role
    BY <2>1
  <2>2. CASE Holding(w)
    BY <1>0, <1>1, <1>10, <2>2, HolderAlone, WriterOnPrimary
  <2>3. QED
    BY <2>1, <2>2
<1>11. QED
  BY <1>0, <1>3, <1>4, <1>7, <1>8, <1>9, <1>10, OneCaller

LEMMA RunWriteContent ==
  ASSUME ContentInv, OwnershipInv', NEW w \in Writers, RunWrite(w) \/ LandOrphan(w)
  PROVE  ContentInv'
<1>0. w \in Callers /\ TypeOK
  BY ContentParts DEF Callers
<1>1. Writing(w) /\ UNCHANGED <<row, epoch, up, call>>
  BY DEF RunWrite, LandOrphan, Writing
<1>2. call[w].node \in Nodes
  BY <1>0, <1>1, WriterOnPrimary, RowFields
<1>3. ASSUME NEW stage \in {"done", "rejected"}, SetStage(w, stage)
      PROVE  job'[w].kind = job[w].kind /\ job'[w].stage = stage /\ Alone(w)
  BY <1>0, <1>1, <1>3, SetStageEffect DEF Alone, Stages
<1>4. CASE LandOrphan(w)
  <2>1. /\ role' = role /\ SetStage(w, "rejected")
        /\ refs' = [refs EXCEPT ![call[w].node] = @ \cup {w}]
    BY <1>4 DEF LandOrphan
  <2>2. QED
    BY <1>1, <1>3, <2>1, PrimaryWritten
<1>5. CASE RunWrite(w) /\ SetStage(w, "rejected")
  <2>1. role' = role
    BY <1>0, <1>3, <1>5, SetStageEffect DEF RunWrite, Stages
  <2>2. \/ refs' = refs
        \/ refs' = [refs EXCEPT ![call[w].node] = @ \cup {w}]
    BY <1>5 DEF RunWrite
  <2>3. QED
    BY <1>1, <1>3, <1>5, <2>1, <2>2, PrimaryWritten
<1>6. CASE RunWrite(w) /\ ~SetStage(w, "rejected")
  <2>1. /\ SetStage(w, "done") /\ Holding(w)
        /\ refs' = [refs EXCEPT ![call[w].node] = @ \cup {w}]
        /\ \/ role' = role
           \/ role' = [role EXCEPT ![call[w].node] = "primary"]
    BY <1>6 DEF RunWrite, Holding
  <2>2. w \in refs'[call[w].node]
    BY <1>0, <1>2, <2>1 DEF TypeOK
  <2>3. QED
    BY <1>1, <1>3, <2>1, <2>2, PrimaryWritten
<1>7. QED
  BY <1>4, <1>5, <1>6

LEMMA ApplyBundleContent ==
  ASSUME ContentInv, OwnershipInv', NEW c \in Syncs \cup Promoters, ApplyBundle(c)
  PROVE  ContentInv'
<1> DEFINE n == call[c].node
<1>0. c \in Callers /\ c \notin Writers /\ TypeOK /\ Holding(c)
      /\ row.primary \in Nodes /\ row.epoch \in Nat
  BY ContentParts, Disjoint, RowFields DEF Callers, ApplyBundle, Holding
<1>1. /\ UNCHANGED <<row, role, epoch, up, call>> /\ job[c].kind = "sync"
      /\ job[c].stage = "fetched" /\ refs' = [refs EXCEPT ![n] = job[c].got]
      /\ SetStage(c, "applied")
  BY DEF ApplyBundle
<1>2. /\ job'[c].stage = "applied" /\ job'[c].kind = "sync" /\ job'[c].got = job[c].got
      /\ \A d \in Callers : d # c => job'[d] = job[d]
  BY <1>0, <1>1 DEF SetStage, TypeOK, Job
<1>3. Engaged(c) /\ n \in Nodes /\ call[c].epoch \in Nat /\ epoch[n] \in Nat
  BY <1>0, <1>1, ContentParts, RoutedNodes, EpochsAreNumbers DEF Routed
<1>4. n # row.primary /\ epoch[n] <= call[c].epoch
  BY <1>0, <1>1, SyncMissesPrimary, ContentParts DEF CheckedStateHolds
<1>5. refs[n] \subseteq job[c].got /\ job[c].got \subseteq refs[row.primary]
  BY <1>0, <1>1, CallerParts DEF CopyGrows
<1>6. refs'[n] = job[c].got /\ \A m \in Nodes : m # n => refs'[m] = refs[m]
  BY <1>0, <1>1, <1>3 DEF TypeOK
<1>7. Env
  BY <1>0, <1>1, <1>3, <1>4, <1>5, <1>6, EpochsAreNumbers DEF Env
<1>8. epoch[n] = row.epoch + 1 => job[c].got = refs[row.primary]
  <2>1. SUFFICES ASSUME epoch[n] = row.epoch + 1 PROVE job[c].got = refs[row.primary]
    OBVIOUS
  <2>2. c \in Promoters /\ call[c].epoch = row.epoch + 1
    BY <1>0, <1>3, <1>4, <2>1, ContentParts DEF NoneAhead, Callers
  <2>3. QED
    BY <1>0, <1>1, <1>3, <2>2, CallerParts DEF Succeeds
<1>9. NodesFine'
  <2>1. EpochsBounded' /\ TargetKnown' /\ PrimaryNoReplica' /\ PrimaryKnown'
    BY <1>1, ContentParts
       DEF EpochsBounded, TargetKnown, PrimaryNoReplica, PrimaryKnown
  <2>2. NoDivergence'
    BY <1>0, <1>1, <1>3, <1>4, <1>5, <1>6, ContentParts DEF NoDivergence
  <2>3. SuccessorsEqual'
    BY <1>0, <1>1, <1>3, <1>4, <1>6, <1>8, ContentParts DEF SuccessorsEqual, PrimaryFenced
  <2>4. QED
    BY <2>1, <2>2, <2>3 DEF NodesFine
<1>10. CopyGrows(c)'
  BY <1>0, <1>1, <1>2, <1>4, <1>5, <1>6 DEF CopyGrows
<1>11. SyncRouted(c)' /\ Kinded(c)'
  BY <1>0, <1>1, <1>2, CallerParts DEF SyncRouted, Engaged, Kinded
<1>12. Succeeds(c)'
  BY <1>0, <1>1, <1>2, <1>4, <1>6, CallerParts DEF Succeeds, Engaged
<1>13. Fine(c)'
  BY <1>0, <1>10, <1>11, <1>12 DEF Fine, WriterHolds, AnswerKept
<1>14. Alone(c) /\ HoldsRightly(c)
  BY <1>0, <1>1, <1>2 DEF Alone, HoldsRightly, JobNode
<1>15. ASSUME NEW d \in Callers, Holding(d), d # c
       PROVE  refs'[call[d].node] = refs[call[d].node]
  <2>1. call[d].node \in Nodes /\ call[d].node # n
    BY <1>0, <1>15, ContentParts, RoutedNodes, HolderAlone DEF Holding
  <2>2. QED
    BY <1>6, <2>1
<1>16. QED
  BY <1>0, <1>1, <1>7, <1>9, <1>13, <1>14, <1>15, OneCaller

-----------------------------------------------------------------------------
\* The two steps of a promotion that change the row.

LEMMA StartPromoteContent ==
  ASSUME ContentInv, OwnershipInv', NEW p \in Promoters, NEW t \in Nodes,
         StartPromote(p, t)
  PROVE  ContentInv'
<1>0. p \in Callers /\ p \notin Writers \cup Syncs /\ TypeOK
      /\ row.primary \in Nodes /\ row.epoch \in Nat /\ row.epoch > 0
  BY ContentParts, Disjoint, RowFields DEF Callers
<1>1. /\ row'.primary = row.primary /\ row'.epoch = row.epoch
      /\ row'.target = t /\ row'.state = "moving" /\ row'.replicas = row.replicas
      /\ row.state = "ready" \/ (row.state = "moving" /\ row.target = t)
  <2>1. CASE /\ row.state = "ready"
             /\ row' = [row EXCEPT !.state = "moving", !.target = t, !.latest = {p}]
    BY <1>0, <2>1, RowType DEF Placement
  <2>2. CASE /\ row.state = "moving" /\ row.target = t
             /\ row' = [row EXCEPT !.latest = @ \cup {p}]
    <3>1. row' = [row EXCEPT !.latest = row.latest \cup {p}]
      BY <1>0, <2>2, RowType DEF Placement
    <3>2. QED
      BY <1>0, <2>2, <3>1, RowType DEF Placement
  <2>3. QED
    BY <2>1, <2>2 DEF StartPromote
<1>2. /\ call'[p].epoch = row.epoch + 1 /\ call'[p].phase = "fencing"
      /\ \A d \in Callers : d # p => call'[d] = call[d]
  BY <1>0 DEF StartPromote, TypeOK
<1>3. /\ job'[p].kind = "fence" /\ job'[p].stage = "queued"
      /\ \A d \in Callers : d # p => job'[d] = job[d]
  BY <1>0 DEF StartPromote, TypeOK, Ask
<1>4. role' = role /\ epoch' = epoch /\ refs' = refs /\ up' = up
  BY DEF StartPromote, nodeVars
<1>5. Env
  BY <1>0, <1>1, <1>4, EpochsAreNumbers DEF Env
<1>6. PrimaryFenced => PrimaryFenced'
  BY <1>0, <1>1, <1>4, ContentParts, EpochsAreNumbers DEF PrimaryFenced, PrimaryKnown
<1>7. NodesFine'
  <2>1. EpochsBounded' /\ PrimaryNoReplica' /\ NoDivergence' /\ TargetKnown'
    BY <1>0, <1>1, <1>4, ContentParts
       DEF EpochsBounded, PrimaryNoReplica, NoDivergence, TargetKnown
  <2>2. PrimaryKnown'
    BY <1>0, <1>1, <1>4, ContentParts DEF PrimaryKnown
  <2>3. SuccessorsEqual'
    BY <1>1, <1>4, <1>6, ContentParts DEF SuccessorsEqual
  <2>4. QED
    BY <2>1, <2>2, <2>3 DEF NodesFine
<1>8. Fine(p)'
  <2>1. SyncRouted(p)'
    BY <1>0, <1>2 DEF SyncRouted
  <2>2. QED
    BY <1>0, <1>2, <1>3, <2>1
       DEF Fine, Kinded, WriterHolds, CopyGrows, AnswerKept, Succeeds
<1>9. Alone(p) /\ HoldsRightly(p)
  BY <1>2, <1>3 DEF Alone, HoldsRightly, Holding
<1>10. QED
  BY <1>0, <1>4, <1>5, <1>7, <1>8, <1>9, OneCaller

\* The row moves to a target that is an active primary with the same content.
LEMMA CompletedMove ==
  ASSUME ContentInv, NEW p \in Promoters, CompletePromote(p), p \in row.latest
  PROVE  LET t == call[p].node IN
         /\ row'.primary = t /\ row'.epoch = row.epoch + 1 /\ row'.state = "ready"
         /\ row'.replicas[t].status = "none"
         /\ t \in Nodes /\ PrimaryFenced
         /\ role[t] = "primary" /\ epoch[t] = row.epoch + 1
         /\ refs[t] = refs[row.primary]
         /\ UNCHANGED <<role, epoch, refs, up>>
         /\ call'[p].node = None /\ call'[p].phase = "promoted"
         /\ job'[p].stage = "none" /\ job'[p].kind = "none" /\ Alone(p)
<1> DEFINE t == call[p].node
           e == call[p].epoch
           candidates == (({row.primary} \ {t})
                            \cup {n \in Nodes : row.replicas[n].status # "none"}) \ {t}
<1>0. /\ p \in Callers /\ TypeOK /\ call[p].phase = "activating" /\ job[p].stage = "done"
  BY ContentParts DEF Callers, CompletePromote
<1>1. PICK S \in Assignments(candidates, {row.primary} \ {t}) :
        row' = [row EXCEPT !.primary = t, !.target = None, !.epoch = e,
                  !.generation = row.generation + 1, !.pending = 0,
                  !.state = "ready", !.replicas = Assign(S), !.latest = {}]
  BY <1>0 DEF CompletePromote
<1>2. Return(p, "promoted") /\ UNCHANGED <<role, epoch, refs, up>>
  BY <1>0 DEF CompletePromote, nodeVars
<1>3. /\ row'.primary = t /\ row'.epoch = e /\ row'.state = "ready"
      /\ row'.replicas = Assign(S)
  BY <1>0, <1>1, RowType DEF Placement
<1>4. t \in Nodes /\ e \in Nat /\ row.epoch \in Nat /\ Engaged(p)
  BY <1>0, RoutedNodes, EpochsAreNumbers, ContentParts, Disjoint DEF Active, Engaged
<1>5. e = row.epoch + 1 /\ PrimaryFenced
  BY <1>0, <1>4, ContentParts DEF Transition, Active, PastFence
<1>6. job[p].kind = "activate"
  BY <1>0, CallerParts DEF Kinded
<1>7. role[t] = "primary" /\ epoch[t] = row.epoch + 1
  BY <1>0, <1>4, <1>5, <1>6, CallerParts DEF Succeeds
<1>8. refs[t] = refs[row.primary]
  BY <1>4, <1>7, ContentParts DEF SuccessorsEqual, Managed
<1>9. row'.replicas[t].status = "none"
  <2>1. t \notin S
    BY DEF Assignments
  <2>2. QED
    BY <1>3, <1>4, <2>1 DEF Assign, Unassigned
<1>10. /\ call'[p] = [IdleCall EXCEPT !.phase = "promoted"] /\ job'[p] = NoJob /\ Alone(p)
  BY <1>0, <1>2 DEF Return, Ended, Alone, TypeOK
<1>11. /\ call'[p].node = None /\ call'[p].phase = "promoted"
       /\ job'[p].stage = "none" /\ job'[p].kind = "none"
  BY <1>10 DEF IdleCall, NoJob
<1>12. QED
  BY <1>2, <1>3, <1>4, <1>5, <1>7, <1>8, <1>9, <1>10, <1>11

LEMMA CompletePromoteContent ==
  ASSUME ContentInv, OwnershipInv', NEW p \in Promoters, CompletePromote(p)
  PROVE  ContentInv'
<1> DEFINE t == call[p].node
<1>0. p \in Callers /\ p \notin Writers /\ TypeOK
      /\ row.primary \in Nodes /\ row.epoch \in Nat
  BY ContentParts, Disjoint, RowFields DEF Callers
<1>1. CASE p \notin row.latest
  BY <1>1, PromoterSteps
<1>2. CASE p \in row.latest
  <2>1. /\ row'.primary = t /\ row'.epoch = row.epoch + 1 /\ row'.state = "ready"
        /\ row'.replicas[t].status = "none" /\ t \in Nodes /\ PrimaryFenced
        /\ role[t] = "primary" /\ epoch[t] = row.epoch + 1
        /\ refs[t] = refs[row.primary]
        /\ UNCHANGED <<role, epoch, refs, up>>
        /\ call'[p].node = None /\ call'[p].phase = "promoted"
        /\ job'[p].stage = "none" /\ job'[p].kind = "none" /\ Alone(p)
    BY <1>2, CompletedMove
  <2>2. NodesFine'
    <3>1. EpochsBounded' /\ SuccessorsEqual'
      BY <1>0, <2>1, ContentParts, EpochsAreNumbers DEF EpochsBounded, SuccessorsEqual
    <3>2. PrimaryKnown' /\ PrimaryNoReplica' /\ TargetKnown'
      BY <2>1 DEF PrimaryKnown, PrimaryNoReplica, TargetKnown
    <3>3. NoDivergence'
      BY <2>1, ContentParts DEF NoDivergence
    <3>4. QED
      BY <3>1, <3>2, <3>3 DEF NodesFine
  <2>3. Fine(p)'
    <3>1. Kinded(p)'
      BY <1>0, <2>1 DEF Kinded
    <3>2. QED
      BY <1>0, <2>1, <3>1
         DEF Fine, WriterHolds, CopyGrows, AnswerKept, SyncRouted, Succeeds, Engaged
  <2>4. ASSUME NEW d \in Callers, d # p PROVE Fine(d)'
    <3>1. call'[d] = call[d] /\ job'[d] = job[d]
      BY <2>1, <2>4 DEF Alone
    <3>2. Kinded(d)' /\ CopyGrows(d)' /\ AnswerKept(d)'
      BY <2>1, <3>1, CallerParts DEF Kinded, CopyGrows, AnswerKept
    <3>3. WriterHolds(d)'
      BY <2>1, <3>1, WriterOnPrimary DEF WriterHolds, Writing
    <3>4. call[d].epoch \in Nat
      BY <1>0, EpochsAreNumbers
    <3>5. Succeeds(d)'
      <4>1. d \in Promoters /\ Engaged(d) => call[d].epoch <= row.epoch + 1
        BY ContentParts DEF NoneAhead
      <4>2. QED
        BY <1>0, <2>1, <3>1, <3>4, <4>1 DEF Succeeds, Engaged
    <3>6. SyncRouted(d)'
      <4>1. SUFFICES ASSUME d \in Syncs, Engaged(d)
                     PROVE  epoch[call[d].src] > call[d].epoch /\ call[d].epoch <= row.epoch
        BY <1>0, <2>1, <3>1, <3>4, CallerParts DEF SyncRouted, Engaged
      <4>2. call[d].epoch <= row.epoch
        BY <4>1, ContentParts DEF NoneAhead
      <4>3. d \notin Writers
        BY <4>1, Disjoint
      <4>4. CASE call[d].epoch = row.epoch
        BY <1>0, <2>1, <4>1, <4>3, <4>4, CallerParts DEF SyncRouted, PrimaryFenced
      <4>5. CASE call[d].epoch # row.epoch
        BY <1>0, <3>4, <4>1, <4>2, <4>3, <4>5, CallerParts DEF SyncRouted
      <4>6. QED
        BY <4>2, <4>4, <4>5
    <3>7. QED
      BY <3>2, <3>3, <3>5, <3>6 DEF Fine
  <2>5. QED
    BY <2>2, <2>3, <2>4 DEF ContentInv
<1>3. QED
  BY <1>1, <1>2

-----------------------------------------------------------------------------
\* Nodes that crash, stop and restart, and readers.

\* Jobs that are lost, rejected or left as orphans with their node.
LEMMA JobsEnd ==
  ASSUME ContentInv, OwnershipInv', Rest, call' = call,
         \A c \in Callers :
           \/ job'[c] = job[c]
           \/ /\ job'[c].kind = job[c].kind /\ job[c].stage # "none"
              /\ job'[c].stage \in {"lost", "rejected"}
           \/ /\ job'[c].kind = job[c].kind /\ job'[c].stage = "orphan"
              /\ c \in Writers /\ Holding(c),
         \A c \in Writers : job'[c].stage = "orphan" =>
           /\ ~up'[call[c].node]
           /\ \A d \in Callers : Holding(d)' => JobNode(d)' # call[c].node
  PROVE  ContentInv'
<1>1. /\ role' = role /\ epoch' = epoch /\ refs' = refs
      /\ row'.primary = row.primary /\ row'.epoch = row.epoch
  BY DEF Rest, nodeVars, SameOwner
<1>2. Env /\ NodesFine'
  BY StillNodes
<1>3. ASSUME NEW c \in Callers PROVE Fine(c)'
  <2>1. CASE job'[c] = job[c]
    <3>1. job[c].stage = "orphan" =>
            /\ ~up'[call[c].node]
            /\ \A d \in Callers : Holding(d)' => JobNode(d)' # call[c].node
      BY <2>1, CallerParts DEF Kinded
    <3>2. QED
      BY <1>1, <1>2, <2>1, <3>1, Bystander
  <2>2. CASE /\ job'[c].kind = job[c].kind /\ job[c].stage # "none"
             /\ job'[c].stage \in {"lost", "rejected"}
    <3>1. Kinded(c)'
      BY <2>2, CallerParts DEF Kinded
    <3>2. QED
      BY <2>2, <3>1, CallerParts, HarmlessFine DEF Harmless, AnswerKept
  <2>3. CASE /\ job'[c].kind = job[c].kind /\ job'[c].stage = "orphan"
             /\ c \in Writers /\ Holding(c)
    <3>1. Writing(c) /\ job[c].kind # "sync" /\ c \notin Syncs \cup Promoters
      BY <2>3, CallerParts, Disjoint DEF Holding, Writing, Kinded
    <3>2. Kinded(c)'
      BY <2>3, <3>1, CallerParts DEF Kinded, Holding
    <3>3. WriterHolds(c)'
      BY <1>1, <2>3, <3>1, CallerParts DEF WriterHolds
    <3>4. AnswerKept(c)'
      BY <1>1, <2>3, CallerParts DEF AnswerKept
    <3>5. QED
      BY <2>3, <3>1, <3>2, <3>3, <3>4 DEF Fine, CopyGrows, SyncRouted, Succeeds
  <2>4. QED
    BY <2>1, <2>2, <2>3
<1>4. QED
  BY <1>2, <1>3 DEF ContentInv

LEMMA NodeStepContent ==
  ASSUME ContentInv, OwnershipInv', NEW n \in Nodes, NodeStep(n)
  PROVE  ContentInv'
<1>0. TypeOK
  BY ContentParts
<1>1. Rest /\ call' = call
  BY ContentParts DEF NodeStep, Crash, Stop, Restart, Rest, SameOwner, PrimaryNoReplica
<1>2. ASSUME NEW c \in Callers, OnNode(c, n), Holding(c) \/ job[c].stage = "orphan",
             NEW stage, job'[c] = [job[c] EXCEPT !.stage = stage]
      PROVE  /\ job'[c].kind = job[c].kind /\ job'[c].stage = stage
             /\ job[c].stage # "none"
  BY <1>0, <1>2 DEF TypeOK, Job, Holding
<1>3. ASSUME NEW c \in Writers, Writing(c)
      PROVE  JobNode(c) = call[c].node /\ job[c].kind # "none" /\ c \in Callers
  <2>1. c \in Callers
    BY DEF Callers
  <2>2. QED
    BY <1>3, <2>1, CallerParts DEF Kinded, JobNode, Writing
<1>4. ASSUME NEW c \in Writers, job[c].stage = "orphan"
      PROVE  /\ ~up[call[c].node]
             /\ \A d \in Callers : Holding(d) => JobNode(d) # call[c].node
  <2>1. c \in Callers
    BY DEF Callers
  <2>2. QED
    BY <1>4, <2>1, CallerParts DEF WriterHolds, Writing
<1>5. CASE Crash(n)
  <2>1. /\ up' = up
        /\ \A c \in Callers :
             \/ job'[c] = job[c]
             \/ /\ OnNode(c, n) /\ Holding(c)
                /\ job'[c] = [job[c] EXCEPT !.stage = "lost"]
    BY <1>5 DEF Crash
  <2>2. \A c \in Callers :
          \/ job'[c] = job[c]
          \/ /\ job'[c].kind = job[c].kind /\ job[c].stage # "none"
             /\ job'[c].stage = "lost"
    BY <1>2, <2>1
  <2>3. \A d \in Callers : Holding(d)' => Holding(d) /\ JobNode(d)' = JobNode(d)
    BY <1>1, <2>2 DEF Holding, JobNode
  <2>4. \A c \in Writers : job'[c].stage = "orphan" => job[c].stage = "orphan"
    BY <2>2 DEF Callers
  <2>5. QED
    BY <1>1, <1>4, <2>1, <2>2, <2>3, <2>4, JobsEnd
<1>6. CASE Stop(n)
  <2>1. /\ up' = [up EXCEPT ![n] = FALSE]
        /\ \A c \in Callers :
             \/ job'[c] = job[c] /\ ~(OnNode(c, n) /\ Holding(c))
             \/ /\ OnNode(c, n) /\ Holding(c)
                /\ job'[c] = [job[c] EXCEPT !.stage =
                                IF c \in Writers THEN "orphan" ELSE "rejected"]
    BY <1>6 DEF Stop
  <2>2. \A c \in Callers :
          \/ job'[c] = job[c] /\ ~(OnNode(c, n) /\ Holding(c))
          \/ /\ OnNode(c, n) /\ Holding(c)
             /\ job'[c].kind = job[c].kind /\ job[c].stage # "none"
             /\ job'[c].stage = IF c \in Writers THEN "orphan" ELSE "rejected"
    BY <1>2, <2>1
  <2>3. \A d \in Callers : Holding(d)' =>
          Holding(d) /\ JobNode(d)' = JobNode(d) /\ JobNode(d) # n
    <3>1. ASSUME NEW d \in Callers, Holding(d)'
          PROVE  Holding(d) /\ JobNode(d)' = JobNode(d) /\ JobNode(d) # n
      <4>1. job'[d] = job[d] /\ ~(OnNode(d, n) /\ Holding(d))
        BY <2>2, <3>1 DEF Holding
      <4>2. Holding(d) /\ job[d].kind # "none"
        BY <3>1, <4>1, CallerParts DEF Holding, Kinded
      <4>3. QED
        BY <1>1, <4>1, <4>2 DEF OnNode, JobNode
    <3>2. QED
      BY <3>1
  <2>4. ASSUME NEW c \in Writers, job'[c].stage = "orphan"
        PROVE  /\ ~up'[call[c].node]
               /\ \A d \in Callers : Holding(d)' => JobNode(d)' # call[c].node
    <3>0. c \in Callers
      BY DEF Callers
    <3>1. CASE job[c].stage = "orphan"
      BY <1>0, <1>4, <2>1, <2>3, <3>1 DEF TypeOK
    <3>2. CASE job[c].stage # "orphan"
      <4>1. OnNode(c, n) /\ Holding(c)
        BY <2>2, <2>4, <3>0, <3>2
      <4>2. Writing(c)
        BY <3>0, <4>1, CallerParts DEF Holding, Writing, Kinded
      <4>3. call[c].node = n
        BY <1>3, <4>1, <4>2 DEF OnNode
      <4>4. QED
        BY <1>0, <2>1, <2>3, <4>3 DEF TypeOK
    <3>3. QED
      BY <3>1, <3>2
  <2>5. QED
    BY <1>1, <2>2, <2>4, JobsEnd
<1>7. CASE Restart(n)
  <2>1. /\ up' = [up EXCEPT ![n] = TRUE]
        /\ \A c \in Callers :
             \/ job'[c] = job[c] /\ ~(OnNode(c, n) /\ job[c].stage = "orphan")
             \/ /\ OnNode(c, n) /\ job[c].stage = "orphan"
                /\ job'[c] = [job[c] EXCEPT !.stage = "rejected"]
    BY <1>7 DEF Restart
  <2>2. \A c \in Callers :
          \/ job'[c] = job[c] /\ ~(OnNode(c, n) /\ job[c].stage = "orphan")
          \/ /\ job'[c].kind = job[c].kind /\ job[c].stage # "none"
             /\ job'[c].stage = "rejected"
    BY <1>2, <2>1
  <2>3. \A d \in Callers : Holding(d)' => Holding(d) /\ JobNode(d)' = JobNode(d)
    BY <1>1, <2>2 DEF Holding, JobNode
  <2>4. ASSUME NEW c \in Writers, job'[c].stage = "orphan"
        PROVE  /\ ~up'[call[c].node]
               /\ \A d \in Callers : Holding(d)' => JobNode(d)' # call[c].node
    <3>1. c \in Callers /\ job[c].stage = "orphan" /\ ~OnNode(c, n)
      BY <2>2, <2>4 DEF Callers
    <3>2. Writing(c)
      BY <3>1 DEF Writing
    <3>3. call[c].node # n
      BY <1>3, <3>1, <3>2 DEF OnNode
    <3>4. call[c].node \in Nodes
      BY <3>2, WriterOnPrimary, ContentParts, RowFields
    <3>5. QED
      BY <1>0, <1>4, <2>1, <2>3, <3>1, <3>3, <3>4 DEF TypeOK
  <2>5. QED
    BY <1>1, <2>2, <2>4, JobsEnd
<1>8. QED
  BY <1>5, <1>6, <1>7 DEF NodeStep

LEMMA ReadOrStutter ==
  ASSUME ContentInv, OwnershipInv',
         \/ \E r \in Readers : RouteRead(r)
         \/ UNCHANGED vars
  PROVE  ContentInv'
<1>1. UNCHANGED <<row, role, epoch, refs, up, call, job>>
  BY DEF RouteRead, nodeVars, vars
<1>2. Rest
  BY <1>1, ContentParts DEF Rest, SameOwner, PrimaryNoReplica, nodeVars
<1>3. ASSUME NEW c \in Writers, job'[c].stage = "orphan"
      PROVE  /\ ~up'[call[c].node]
             /\ \A d \in Callers : Holding(d)' => JobNode(d)' # call[c].node
  <2>1. c \in Callers
    BY DEF Callers
  <2>2. \A d \in Callers : Holding(d)' = Holding(d) /\ JobNode(d)' = JobNode(d)
    BY <1>1 DEF Holding, JobNode
  <2>3. QED
    BY <1>1, <1>3, <2>1, <2>2, CallerParts DEF WriterHolds, Writing
<1>4. QED
  BY <1>1, <1>2, <1>3, JobsEnd

-----------------------------------------------------------------------------
\* The invariant holds initially and is kept.

LEMMA ContentInit == Init => ContentInv
<1> SUFFICES ASSUME Init PROVE ContentInv
  OBVIOUS
<1>1. OwnershipInv
  BY OwnershipInit
<1>2. PICK first \in Nodes :
        /\ \E S \in Assignments(Nodes \ {first}, {}) :
             row = [primary |-> first, target |-> None, epoch |-> 1,
                    generation |-> 0, pending |-> 0, state |-> "ready",
                    replicas |-> Assign(S), latest |-> {}]
        /\ IF Creators = {}
             THEN /\ role = [n \in Nodes |-> IF n = first THEN "primary" ELSE "absent"]
                  /\ epoch = [n \in Nodes |-> IF n = first THEN 1 ELSE 0]
             ELSE /\ role = [n \in Nodes |-> "absent"]
                  /\ epoch = [n \in Nodes |-> 0]
  BY DEF Init
<1>3. PICK S \in Assignments(Nodes \ {first}, {}) :
        row = [primary |-> first, target |-> None, epoch |-> 1,
               generation |-> 0, pending |-> 0, state |-> "ready",
               replicas |-> Assign(S), latest |-> {}]
  BY <1>2
<1>4. first \notin S
  BY DEF Assignments
<1>5. PrimaryNoReplica
  BY <1>3, <1>4 DEF PrimaryNoReplica, Assign, Unassigned
<1>6. EpochsBounded /\ PrimaryKnown /\ SuccessorsEqual /\ TargetKnown
  BY <1>2, <1>3
     DEF EpochsBounded, PrimaryKnown, SuccessorsEqual, TargetKnown, Managed
<1>7. NoDivergence
  BY <1>3 DEF NoDivergence, Init
<1>8. ASSUME NEW c \in Callers PROVE Fine(c)
  <2>1. /\ call[c].node = None /\ call[c].phase = "idle"
        /\ job[c].kind = "none" /\ job[c].stage = "none"
    BY DEF Init, IdleCall, NoJob
  <2>2. Kinded(c)
    BY <2>1 DEF Kinded
  <2>3. QED
    BY <2>1, <2>2 DEF Fine, WriterHolds, Writing, CopyGrows, AnswerKept, SyncRouted,
       Succeeds, Engaged
<1>9. QED
  BY <1>1, <1>5, <1>6, <1>7, <1>8 DEF ContentInv, NodesFine

LEMMA ContentNext == ContentInv /\ [Next]_vars => ContentInv'
<1> SUFFICES ASSUME ContentInv, [Next]_vars PROVE ContentInv'
  OBVIOUS
<1>0. OwnershipInv'
  BY OwnershipNext DEF ContentInv
<1>1. ASSUME NEW w \in Writers, WriteStep(w) PROVE ContentInv'
  BY <1>0, <1>1, BeginWriteContent, StartWriteContent, StartInitContent,
     RunWriteContent, AnsweredWriters DEF WriteStep
<1>2. ASSUME NEW s \in Syncs, ReplicateStep(s) PROVE ContentInv'
  BY <1>0, <1>2, ClaimSyncContent, SnapshotSourceContent, ReturnedSyncs
     DEF ReplicateStep
<1>3. ASSUME NEW c \in Syncs \cup Promoters, CopyStep(c) PROVE ContentInv'
  BY <1>0, <1>3, StartSyncContent, FetchBundleContent, ApplyBundleContent,
     SaveReplicaContent, RejectedCopies DEF CopyStep
<1>4. ASSUME NEW p \in Promoters, PromoteStep(p) PROVE ContentInv'
  BY <1>0, <1>4, StartPromoteContent, ExecFenceContent, PromoterSteps,
     ExecActivateContent, CompletePromoteContent DEF PromoteStep
<1>5. CASE \E n \in Nodes : NodeStep(n)
  BY <1>0, <1>5, NodeStepContent
<1>6. CASE (\E r \in Readers : RouteRead(r)) \/ UNCHANGED vars
  BY <1>0, <1>6, ReadOrStutter
<1>7. QED
  BY <1>1, <1>2, <1>3, <1>4, <1>5, <1>6 DEF Next

\* Every caller and every node keeps what the content of the primary relies on.
THEOREM Content == Spec => []ContentInv
BY ContentInit, ContentNext, PTL DEF Spec

-----------------------------------------------------------------------------
\* What a step shows to somebody who only sees one copy.

OwnerKept == row'.primary = row.primary /\ row'.epoch = row.epoch
ContentKept == refs'[row'.primary] = refs[row.primary]
CallsKept == \A w \in Writers : call'[w].phase = call[w].phase

LEMMA Unseen ==
  ASSUME ContentKept, CallsKept PROVE UNCHANGED OneCopy!vars
BY DEF ContentKept, CallsKept, OneCopy!vars, Acked

\* The updates of the row that leave its owner.
LEMMA OwnerFields ==
  ASSUME TypeOK,
         \/ row' = row
         \/ \E i, g : row' = [row EXCEPT !.pending = i, !.generation = g, !.latest = {}]
         \/ \E i : row' = [row EXCEPT !.pending = i, !.latest = {}]
         \/ \E n, r : row' = [row EXCEPT !.latest = {}, !.replicas[n] = r]
  PROVE  OwnerKept
BY RowType DEF OwnerKept, Placement

LEMMA ReturnPhase ==
  ASSUME TypeOK, NEW c \in Callers, NEW phase, Return(c, phase)
  PROVE  call'[c].phase = phase /\ \A d \in Callers : d # c => call'[d] = call[d]
<1>1. CASE job[c].stage \in Ended
  <2>1. call' = [call EXCEPT ![c] = [IdleCall EXCEPT !.phase = phase]]
    BY <1>1 DEF Return
  <2>2. call'[c] = [IdleCall EXCEPT !.phase = phase]
    BY <2>1, CallType
  <2>3. QED
    BY <2>1, <2>2, CallType DEF IdleCall
<1>2. CASE job[c].stage \notin Ended
  <2>1. call' = [call EXCEPT ![c].phase = phase]
    BY <1>2 DEF Return, SetPhase
  <2>2. call'[c] = [call[c] EXCEPT !.phase = phase] /\ call[c] \in Call
    BY <2>1, CallType
  <2>3. QED
    BY <2>1, <2>2, CallType DEF Call
<1>3. QED
  BY <1>1, <1>2

\* A writer's step issues its write, applies it, confirms it, or is not seen.
LEMMA WriteShown ==
  ASSUME ContentInv, NEW w \in Writers, WriteStep(w)
  PROVE  OwnerKept /\ (OneCopy!Next \/ UNCHANGED OneCopy!vars)
<1>0. w \in Callers /\ TypeOK /\ row.primary \in Nodes
  BY ContentParts, RowFields DEF Callers
<1>1. \A v \in Writers : v \in Callers
  BY DEF Callers
<1>2. CASE BeginWrite(w)
  <2>1. row' = [row EXCEPT !.pending = row.pending + 1, !.latest = {}]
    BY <1>0, <1>2 DEF BeginWrite
  <2>2. OwnerKept /\ ContentKept
    BY <1>0, <1>2, <2>1, OwnerFields DEF BeginWrite, OwnerKept, ContentKept, nodeVars
  <2>3. call'[w].phase = "waiting" /\ \A d \in Callers : d # w => call'[d] = call[d]
    BY <1>0, <1>2, CallType DEF BeginWrite, Call
  <2>4. call[w].phase = "idle"
    BY <1>2 DEF BeginWrite
  <2>5. OneCopy!Issue(w)
    BY <1>1, <2>2, <2>3, <2>4 DEF OneCopy!Issue, Acked, ContentKept
  <2>6. QED
    BY <2>2, <2>5 DEF OneCopy!Next
<1>3. CASE StartWrite(w) \/ StartInit(w) \/ RejectStopping(w)
  <2>1. row' = row /\ call' = call /\ refs' = refs
    BY <1>3 DEF StartWrite, StartInit, RejectStopping, nodeVars
  <2>2. QED
    BY <2>1, Unseen DEF OwnerKept, ContentKept, CallsKept
<1>4. CASE RunWrite(w) \/ LandOrphan(w)
  <2>1. row' = row /\ call' = call /\ Writing(w)
    BY <1>4 DEF RunWrite, LandOrphan, Writing
  <2>2. call[w].node = row.primary
    BY <2>1, WriterOnPrimary
  <2>3. \/ refs' = refs
        \/ refs' = [refs EXCEPT ![row.primary] = refs[row.primary] \cup {w}]
    BY <1>0, <1>4, <2>2 DEF RunWrite, LandOrphan, TypeOK
  <2>4. refs'[row.primary] = refs[row.primary]
        \/ refs'[row.primary] = refs[row.primary] \cup {w}
    BY <1>0, <2>3 DEF TypeOK
  <2>5. call[w].phase # "idle"
    BY <1>0, <2>1, ContentParts DEF Routed, Writing
  <2>6. CASE refs'[row.primary] = refs[row.primary]
    BY <2>1, <2>6, Unseen DEF OwnerKept, ContentKept, CallsKept
  <2>7. CASE refs'[row.primary] # refs[row.primary]
    <3>1. OneCopy!Apply(w)
      BY <2>1, <2>4, <2>5, <2>7 DEF OneCopy!Apply, Acked
    <3>2. QED
      BY <2>1, <3>1 DEF OwnerKept, OneCopy!Next
  <2>8. QED
    BY <2>6, <2>7
<1>5. CASE FinishWrite(w)
  <2>1. PICK phase \in {"acked", "refused", "unsettled"} :
          Return(w, phase) /\ (phase = "acked" => job[w].stage = "done")
    BY <1>5 DEF FinishWrite
  <2>2. \/ row' = row
        \/ row' = [row EXCEPT !.pending = row.pending - 1,
                              !.generation = row.generation + 1, !.latest = {}]
    BY <1>5 DEF FinishWrite
  <2>3. OwnerKept /\ ContentKept
    <3>1. OwnerKept
      BY <1>0, <2>2, OwnerFields
    <3>2. refs' = refs
      BY <1>5 DEF FinishWrite, nodeVars
    <3>3. QED
      BY <3>1, <3>2 DEF OwnerKept, ContentKept
  <2>4. call[w].phase = "waiting" /\ call'[w].phase = phase
        /\ \A d \in Callers : d # w => call'[d] = call[d]
    BY <1>0, <1>5, <2>1, ReturnPhase DEF FinishWrite
  <2>5. UNCHANGED {v \in Writers : call[v].phase # "idle"}
    BY <1>1, <2>4
  <2>6. CASE phase = "acked"
    <3>1. w \in refs[row.primary] /\ w \notin Acked
      BY <1>0, <2>1, <2>4, <2>6, CallerParts DEF AnswerKept, Acked
    <3>2. Acked' = Acked \cup {w}
      BY <1>1, <2>4, <2>6 DEF Acked
    <3>3. OneCopy!Confirm(w)
      BY <2>3, <2>5, <3>1, <3>2 DEF OneCopy!Confirm, ContentKept
    <3>4. QED
      BY <2>3, <3>3 DEF OneCopy!Next
  <2>7. CASE phase # "acked"
    <3>1. Acked' = Acked
      BY <1>1, <2>4, <2>7 DEF Acked
    <3>2. QED
      BY <2>3, <2>5, <3>1 DEF OneCopy!vars, ContentKept
  <2>8. QED
    BY <2>6, <2>7
<1>6. CASE GiveUp(w)
  <2>1. row' = row /\ refs' = refs /\ call[w].phase = "waiting" /\ Return(w, "uncertain")
    BY <1>6 DEF GiveUp, nodeVars
  <2>2. call'[w].phase = "uncertain" /\ \A d \in Callers : d # w => call'[d] = call[d]
    BY <1>0, <2>1, ReturnPhase
  <2>3. UNCHANGED {v \in Writers : call[v].phase # "idle"} /\ Acked' = Acked
    BY <1>1, <2>1, <2>2 DEF Acked
  <2>4. QED
    BY <2>1, <2>3 DEF OneCopy!vars, OwnerKept
<1>7. QED
  BY <1>2, <1>3, <1>4, <1>5, <1>6 DEF WriteStep

\* Nobody who writes sees what a replication worker does.
LEMMA ReplicationUnseen ==
  ASSUME ContentInv, NEW s \in Syncs, ReplicateStep(s)
  PROVE  OwnerKept /\ ContentKept /\ CallsKept
<1>0. s \in Callers /\ s \notin Writers /\ TypeOK /\ \A w \in Writers : w \in Callers
  BY ContentParts, Disjoint DEF Callers
<1>1. refs' = refs
  BY DEF ReplicateStep, ClaimSync, SnapshotSource, FinishSync, AbortSync, LoseSync,
     NextTick, nodeVars
<1>2. OwnerKept
  <2>1. ASSUME NEW n \in Nodes, ClaimSync(s, n) PROVE OwnerKept
    <3>1. PICK r : row' = [row EXCEPT !.replicas[n] = r, !.latest = {}]
      BY <2>1 DEF ClaimSync
    <3>2. row' = [row EXCEPT !.latest = {}, !.replicas[n] = r]
      BY <1>0, <3>1, RowType DEF Placement
    <3>3. QED
      BY <1>0, <3>2, OwnerFields
  <2>2. CASE FinishSync(s) \/ AbortSync(s)
    <3>1. PICK ready : RecordSync(s, ready)
      BY <2>2 DEF FinishSync, AbortSync
    <3>2. \/ row' = row
          \/ \E n, r : row' = [row EXCEPT !.latest = {}, !.replicas[n] = r]
      BY <3>1 DEF RecordSync
    <3>3. QED
      BY <1>0, <3>2, OwnerFields
  <2>3. CASE SnapshotSource(s) \/ LoseSync(s) \/ NextTick(s)
    BY <2>3 DEF SnapshotSource, LoseSync, NextTick, OwnerKept
  <2>4. QED
    BY <2>1, <2>2, <2>3 DEF ReplicateStep
<1>3. \A d \in Callers : d # s => call'[d] = call[d]
  <2>1. CASE \E phase : Return(s, phase)
    BY <1>0, <2>1, ReturnPhase
  <2>2. CASE SnapshotSource(s) \/ \E n \in Nodes : ClaimSync(s, n)
    BY <1>0, <2>2, CallType DEF SnapshotSource, ClaimSync
  <2>3. QED
    BY <2>1, <2>2 DEF ReplicateStep, FinishSync, AbortSync, LoseSync, NextTick
<1>4. QED
  BY <1>0, <1>1, <1>2, <1>3 DEF OwnerKept, ContentKept, CallsKept

LEMMA CopiesUnseen ==
  ASSUME ContentInv, NEW c \in Syncs \cup Promoters, CopyStep(c)
  PROVE  OwnerKept /\ ContentKept /\ CallsKept
<1>0. c \in Callers /\ TypeOK /\ row.primary \in Nodes
  BY ContentParts, RowFields DEF Callers
<1>1. row' = row /\ call' = call
  BY DEF CopyStep, StartSync, Copyable, FetchBundle, ApplyBundle, SaveReplica, FailSync
<1>2. refs'[row.primary] = refs[row.primary]
  <2>1. CASE ApplyBundle(c)
    <3>1. call[c].node # row.primary /\ refs' = [refs EXCEPT ![call[c].node] = job[c].got]
      BY <1>0, <2>1, SyncMissesPrimary DEF ApplyBundle, Holding
    <3>2. QED
      BY <1>0, <3>1 DEF TypeOK
  <2>2. CASE ~ApplyBundle(c)
    BY <2>2 DEF CopyStep, StartSync, Copyable, FetchBundle, SaveReplica, FailSync,
       nodeVars
  <2>3. QED
    BY <2>1, <2>2
<1>3. QED
  BY <1>1, <1>2 DEF OwnerKept, ContentKept, CallsKept

\* Only the completion of a promotion moves the repository, and it moves it to a
\* node with the same content.
LEMMA PromotionUnseen ==
  ASSUME ContentInv, NEW p \in Promoters, PromoteStep(p)
  PROVE  /\ ContentKept /\ CallsKept
         /\ \/ OwnerKept
            \/ row'.epoch = row.epoch + 1 /\ refs' = refs
<1>0. p \in Callers /\ p \notin Writers /\ TypeOK /\ \A w \in Writers : w \in Callers
  BY ContentParts, Disjoint DEF Callers
<1>1. refs' = refs
  BY DEF PromoteStep, StartPromote, ExecFence, AlreadyFenced, Fenceable, Frozen,
     CheckTarget, TargetSynced,
     ExecActivate, Activatable, CompletePromote, FailPromote, nodeVars
<1>2. \A d \in Callers : d # p => call'[d] = call[d]
  <2>1. CASE \E phase : Return(p, phase)
    BY <1>0, <2>1, ReturnPhase
  <2>2. CASE ExecFence(p) \/ ExecActivate(p)
    BY <2>2 DEF ExecFence, AlreadyFenced, Fenceable, ExecActivate, Activatable
  <2>3. CASE Frozen(p) \/ CheckTarget(p) \/ TargetSynced(p)
              \/ \E t \in Nodes : StartPromote(p, t)
    BY <1>0, <2>3, CallType DEF Frozen, CheckTarget, TargetSynced, SetPhase, StartPromote
  <2>4. QED
    BY <2>1, <2>2, <2>3 DEF PromoteStep, CompletePromote, FailPromote
<1>3. CASE CompletePromote(p) /\ p \in row.latest
  BY <1>0, <1>1, <1>2, <1>3, CompletedMove DEF ContentKept, CallsKept
<1>4. CASE ~(CompletePromote(p) /\ p \in row.latest)
  <2>1. OwnerKept
    <3>1. ASSUME NEW t \in Nodes, StartPromote(p, t) PROVE OwnerKept
      <4>1. CASE row' = [row EXCEPT !.state = "moving", !.target = t, !.latest = {p}]
        BY <1>0, <4>1, RowType DEF Placement, OwnerKept
      <4>2. CASE row' = [row EXCEPT !.latest = @ \cup {p}]
        BY <1>0, <4>2, RowType DEF Placement, OwnerKept
      <4>3. QED
        BY <3>1, <4>1, <4>2 DEF StartPromote
    <3>2. QED
      BY <1>4, <3>1 DEF PromoteStep, ExecFence, AlreadyFenced, Fenceable, Frozen,
         CheckTarget, TargetSynced,
         ExecActivate, Activatable, CompletePromote, FailPromote, OwnerKept
  <2>2. QED
    BY <1>0, <1>1, <1>2, <2>1 DEF OwnerKept, ContentKept, CallsKept
<1>5. QED
  BY <1>3, <1>4

LEMMA OthersUnseen ==
  ASSUME (\E n \in Nodes : NodeStep(n)) \/ (\E r \in Readers : RouteRead(r))
           \/ UNCHANGED vars
  PROVE  OwnerKept /\ ContentKept /\ CallsKept
<1>1. UNCHANGED <<row, refs, call>>
  BY DEF NodeStep, Crash, Stop, Restart, RouteRead, nodeVars, vars
<1>2. QED
  BY <1>1 DEF OwnerKept, ContentKept, CallsKept

\* Every step is a step of the one copy, and moves the row, if at all, to an
\* equal at the next epoch.
LEMMA Shown ==
  ContentInv /\ [Next]_vars =>
    /\ [OneCopy!Next]_(OneCopy!vars)
    /\ OwnerKept \/ (row'.epoch = row.epoch + 1 /\ refs' = refs /\ ContentKept)
<1> SUFFICES ASSUME ContentInv, [Next]_vars
             PROVE  /\ [OneCopy!Next]_(OneCopy!vars)
                    /\ OwnerKept \/ (row'.epoch = row.epoch + 1 /\ refs' = refs
                                      /\ ContentKept)
  OBVIOUS
<1>1. ASSUME NEW w \in Writers, WriteStep(w)
      PROVE  OwnerKept /\ (OneCopy!Next \/ UNCHANGED OneCopy!vars)
  BY <1>1, WriteShown
<1>2. ASSUME NEW s \in Syncs, ReplicateStep(s)
      PROVE  OwnerKept /\ UNCHANGED OneCopy!vars
  BY <1>2, ReplicationUnseen, Unseen
<1>3. ASSUME NEW c \in Syncs \cup Promoters, CopyStep(c)
      PROVE  OwnerKept /\ UNCHANGED OneCopy!vars
  BY <1>3, CopiesUnseen, Unseen
<1>4. ASSUME NEW p \in Promoters, PromoteStep(p)
      PROVE  /\ UNCHANGED OneCopy!vars
             /\ OwnerKept \/ (row'.epoch = row.epoch + 1 /\ refs' = refs /\ ContentKept)
  BY <1>4, PromotionUnseen, Unseen
<1>5. CASE (\E n \in Nodes : NodeStep(n)) \/ (\E r \in Readers : RouteRead(r))
             \/ UNCHANGED vars
  BY <1>5, OthersUnseen, Unseen
<1>6. QED
  BY <1>1, <1>2, <1>3, <1>4, <1>5 DEF Next

-----------------------------------------------------------------------------
\* The theorems.

\* No node ever holds a write that the primary lacks: synchronizations, failed
\* writes, promotions that overlap and nodes that stop only leave copies behind.
THEOREM CopiesBehind == Spec => []NoDivergence
<1>1. ContentInv => NoDivergence
  BY ContentParts
<1>2. QED
  BY <1>1, Content, PTL

\* A write that was confirmed to its caller is on the node the catalog names,
\* after any number of promotions.
THEOREM ConfirmedSurvive == Spec => []AckedWritesSurvive
<1>1. ContentInv => AckedWritesSurvive
  <2> SUFFICES ASSUME ContentInv, NEW w \in Acked PROVE w \in refs[row.primary]
    BY DEF AckedWritesSurvive
  <2>1. w \in Writers /\ w \in Callers /\ call[w].phase = "acked"
    BY DEF Acked, Callers
  <2>2. QED
    BY <2>1, CallerParts DEF AnswerKept
<1>2. QED
  BY <1>1, Content, PTL

\* Another call can carry an abandoned handover through: the primary has the epoch
\* of the row or has been fenced for the next, and a target that has been activated
\* already holds exactly what it held, whichever operator compared them.
THEOREM HandoversResume == Spec => []HandoverCanResume
<1>1. ContentInv => HandoverCanResume
  <2> DEFINE next == row.epoch + 1
             t == row.target
  <2> SUFFICES ASSUME ContentInv, row.state = "moving", role[row.primary] \in Managed,
                      ~ActivatedAgain
               PROVE  /\ AlreadyFenced(row.primary, next) \/ Fenceable(row.primary, next)
                      /\ \/ t = row.primary
                         \/ Copyable(t, next)
                         \/ /\ Activatable(t, next) /\ Snapshotable(t, next)
                            /\ refs[t] = refs[row.primary]
    BY DEF HandoverCanResume
  <2>1. /\ t \in Nodes /\ row.primary \in Nodes /\ row.epoch \in Nat
        /\ epoch[t] \in Nat /\ epoch[row.primary] \in Nat /\ role[t] \in Roles
    BY ContentParts, RowFields, EpochsAreNumbers DEF TargetKnown, TypeOK
  <2>2. AlreadyFenced(row.primary, next) \/ Fenceable(row.primary, next)
    <3>1. \/ role[row.primary] = "primary" /\ epoch[row.primary] = row.epoch
          \/ role[row.primary] = "fenced" /\ epoch[row.primary] = next
      BY <2>1, ContentParts DEF PrimaryKnown, Managed, ActivatedAgain
    <3>2. QED
      BY <2>1, <3>1 DEF AlreadyFenced, Fenceable, Managed
  <2>3. ASSUME t # row.primary, ~Copyable(t, next)
        PROVE  /\ Activatable(t, next) /\ Snapshotable(t, next)
               /\ refs[t] = refs[row.primary]
    <3>1. epoch[t] <= next
      BY <2>1, ContentParts DEF EpochsBounded
    <3>2. role[t] \in {"primary", "initPrimary"}
      BY <2>1, <2>3, <3>1 DEF Copyable, Roles
    <3>3. role[t] = "primary" /\ epoch[t] = next
      BY <2>1, <2>3, <3>2, ContentParts DEF OwnersKnown
    <3>4. refs[t] = refs[row.primary]
      BY <2>1, <2>3, <3>3, ContentParts DEF SuccessorsEqual, Managed
    <3>5. QED
      BY <2>1, <3>1, <3>3, <3>4 DEF Activatable, Snapshotable, Managed
  <2>4. QED
    BY <2>2, <2>3
<1>2. QED
  BY <1>1, Content, PTL

\* The catalog moves a repository only to a node that has what the old primary
\* has, one epoch at a time.
THEOREM PromotionSafe == Spec => PromotionKeepsContent
<1>1. ContentInv /\ [Next]_vars =>
        [row'.epoch # row.epoch =>
           /\ row'.epoch = row.epoch + 1
           /\ refs[row'.primary] = refs[row.primary]]_vars
  BY Shown DEF OwnerKept, ContentKept
<1>2. QED
  BY <1>1, Content, PTL DEF Spec, PromotionKeepsContent

\* The cluster implements the one copy: a writer cannot tell it from a single
\* repository that is never moved, never synchronized and never crashes.
THEOREM OneCopyImplemented == Spec => ImplementsOneCopy
<1>1. Init => OneCopy!Init
  <2> SUFFICES ASSUME Init PROVE OneCopy!Init
    OBVIOUS
  <2>1. \A w \in Writers : call[w].phase = "idle"
    BY DEF Init, Callers, IdleCall
  <2>2. refs[row.primary] = {}
    <3>1. TypeOK
      BY InitType
    <3>2. QED
      BY <3>1, RowFields DEF Init
  <2>3. QED
    BY <2>1, <2>2 DEF OneCopy!Init, Acked
<1>2. ContentInv /\ [Next]_vars => [OneCopy!Next]_(OneCopy!vars)
  BY Shown
<1>3. QED
  BY <1>1, <1>2, Content, PTL DEF Spec, ImplementsOneCopy, OneCopy!Spec

\* What a node stored as its epoch never decreases: a synchronization, a fence or
\* an activation that arrives late is checked against it before it is executed.
THEOREM EpochsGrow == Spec => NodeEpochsGrow
<1>1. ContentInv /\ [Next]_vars => [\A n \in Nodes : epoch'[n] >= epoch[n]]_vars
  <2> SUFFICES ASSUME ContentInv, Next, NEW n \in Nodes PROVE epoch'[n] >= epoch[n]
    OBVIOUS
  <2>0. TypeOK /\ epoch[n] \in Nat /\ \A w \in Writers : w \in Callers
    BY ContentParts, EpochsAreNumbers DEF Callers
  <2>1. CASE epoch' = epoch
    BY <2>0, <2>1
  <2>2. ASSUME NEW w \in Writers, StartInit(w) PROVE epoch'[n] >= epoch[n]
    BY <2>0, <2>2, ContentParts DEF StartInit, OwnersKnown, TypeOK
  <2>3. ASSUME NEW c \in Syncs \cup Promoters, StartSync(c) \/ SaveReplica(c)
        PROVE  epoch'[n] >= epoch[n]
    <3>0. c \in Callers /\ call[c].epoch \in Nat
      BY <2>0, EpochsAreNumbers DEF Callers
    <3>1. CASE StartSync(c)
      BY <2>0, <3>0, <3>1 DEF StartSync, Copyable, TypeOK
    <3>2. CASE SaveReplica(c)
      BY <2>0, <3>0, <3>2, ContentParts
         DEF SaveReplica, CheckedStateHolds, Holding, TypeOK
    <3>3. QED
      BY <2>3, <3>1, <3>2
  <2>4. ASSUME NEW p \in Promoters, ExecFence(p) \/ ExecActivate(p)
        PROVE  epoch'[n] >= epoch[n]
    <3>0. p \in Callers /\ call[p].epoch \in Nat
      BY <2>0, EpochsAreNumbers DEF Callers
    <3>1. CASE ExecFence(p)
      BY <2>0, <3>0, <3>1 DEF ExecFence, AlreadyFenced, Fenceable, TypeOK
    <3>2. CASE ExecActivate(p)
      BY <2>0, <3>0, <3>2 DEF ExecActivate, Activatable, TypeOK
    <3>3. QED
      BY <2>4, <3>1, <3>2
  <2>5. CASE \E w \in Writers : WriteStep(w) /\ ~StartInit(w)
    BY <2>1, <2>5 DEF WriteStep, BeginWrite, StartWrite, RunWrite, FinishWrite, GiveUp,
       LandOrphan, RejectStopping, nodeVars
  <2>6. CASE \E s \in Syncs : ReplicateStep(s)
    BY <2>1, <2>6 DEF ReplicateStep, ClaimSync, SnapshotSource, FinishSync, AbortSync,
       LoseSync, NextTick, nodeVars
  <2>7. CASE \E c \in Syncs \cup Promoters :
               CopyStep(c) /\ ~(StartSync(c) \/ SaveReplica(c))
    BY <2>1, <2>7 DEF CopyStep, FetchBundle, ApplyBundle, FailSync, nodeVars
  <2>8. CASE \E p \in Promoters : PromoteStep(p) /\ ~(ExecFence(p) \/ ExecActivate(p))
    BY <2>1, <2>8 DEF PromoteStep, StartPromote, Frozen, CheckTarget, TargetSynced,
       CompletePromote, FailPromote, nodeVars
  <2>9. CASE (\E m \in Nodes : NodeStep(m)) \/ (\E r \in Readers : RouteRead(r))
    BY <2>1, <2>9 DEF NodeStep, Crash, Stop, Restart, RouteRead, nodeVars
  <2>10. QED
    BY <2>2, <2>3, <2>4, <2>5, <2>6, <2>7, <2>8, <2>9 DEF Next
<1>2. QED
  BY <1>1, Content, PTL DEF Spec, NodeEpochsGrow

-----------------------------------------------------------------------------
\* A handover to the primary itself that has been activated, and that no call can
\* confirm any more.  A call that has not passed the fence will not pass it.

DeadHandover ==
  /\ row.state = "moving" /\ ActivatedAgain
  /\ \A p \in row.latest : Promoting(p) => ~PastFence(p)

LEMMA DeadFields ==
  ASSUME ContentInv, DeadHandover
  PROVE  /\ TypeOK /\ row.primary \in Nodes /\ row.target = row.primary
         /\ row.epoch \in Nat /\ role[row.primary] = "primary"
         /\ epoch[row.primary] = row.epoch + 1
BY ContentParts, RowFields, EpochsAreNumbers
   DEF DeadHandover, ActivatedAgain, EpochsBounded

\* The row keeps its owner and its target.
DeadRow ==
  /\ row'.state = row.state /\ row'.target = row.target
  /\ row'.primary = row.primary /\ row'.epoch = row.epoch

\* What is left of the two primaries' node: it keeps its role and its epoch, which
\* no request of this transition or of an earlier one exceeds.
LEMMA DeadNode ==
  ASSUME ContentInv, DeadHandover, Next
  PROVE  role'[row.primary] = "primary" /\ epoch'[row.primary] = epoch[row.primary]
<1> DEFINE n == row.primary
           Kept == role'[n] = "primary" /\ epoch'[n] = epoch[n]
<1>0. /\ TypeOK /\ n \in Nodes /\ role[n] = "primary" /\ epoch[n] = row.epoch + 1
      /\ row.epoch \in Nat
      /\ \A w \in Writers : w \in Callers
      /\ \A c \in Syncs \cup Promoters : c \in Callers
  BY DeadFields DEF Callers
<1>1. CASE UNCHANGED <<role, epoch>>
  BY <1>0, <1>1
<1>2. ASSUME NEW w \in Writers, StartInit(w) PROVE Kept
  BY <1>0, <1>2 DEF StartInit, TypeOK
<1>3. ASSUME NEW w \in Writers, RunWrite(w) PROVE Kept
  <2>1. job[w].kind = "init" => role[call[w].node] = "initPrimary"
    BY <1>0, <1>3, ContentParts DEF RunWrite, CheckedStateHolds, Holding
  <2>2. QED
    BY <1>0, <1>3, <2>1 DEF RunWrite, TypeOK
<1>4. ASSUME NEW c \in Syncs \cup Promoters, StartSync(c) PROVE Kept
  BY <1>0, <1>4 DEF StartSync, Copyable, TypeOK
<1>5. ASSUME NEW c \in Syncs \cup Promoters, SaveReplica(c) PROVE Kept
  <2>1. role[call[c].node] # "primary"
    BY <1>0, <1>5, ContentParts DEF SaveReplica, CheckedStateHolds, Holding
  <2>2. QED
    BY <1>0, <1>5, <2>1 DEF SaveReplica, TypeOK
<1>6. ASSUME NEW p \in Promoters, ExecFence(p) \/ ExecActivate(p) PROVE Kept
  <2>1. call[p].epoch \in Nat /\ call[p].epoch <= row.epoch + 1
    <3>1. Engaged(p)
      BY <1>0, <1>6, ContentParts DEF ExecFence, ExecActivate, Queued, Routed
    <3>2. QED
      BY <1>0, <3>1, ContentParts, EpochsAreNumbers DEF NoneAhead
  <2>2. CASE ExecFence(p)
    BY <1>0, <2>1, <2>2 DEF ExecFence, AlreadyFenced, Fenceable, TypeOK
  <2>3. CASE ExecActivate(p)
    BY <1>0, <2>1, <2>3 DEF ExecActivate, Activatable, TypeOK
  <2>4. QED
    BY <1>6, <2>2, <2>3
<1>7. CASE \E w \in Writers : WriteStep(w) /\ ~StartInit(w) /\ ~RunWrite(w)
  BY <1>1, <1>7 DEF WriteStep, BeginWrite, StartWrite, FinishWrite, GiveUp,
     LandOrphan, RejectStopping, nodeVars
<1>8. CASE \E s \in Syncs : ReplicateStep(s)
  BY <1>1, <1>8 DEF ReplicateStep, ClaimSync, SnapshotSource, FinishSync, AbortSync,
     LoseSync, NextTick, nodeVars
<1>9. CASE \E c \in Syncs \cup Promoters : CopyStep(c) /\ ~(StartSync(c) \/ SaveReplica(c))
  BY <1>1, <1>9 DEF CopyStep, FetchBundle, ApplyBundle, FailSync, nodeVars
<1>10. CASE \E p \in Promoters : PromoteStep(p) /\ ~(ExecFence(p) \/ ExecActivate(p))
  BY <1>1, <1>10 DEF PromoteStep, StartPromote, Frozen, CheckTarget, TargetSynced,
     CompletePromote, FailPromote, nodeVars
<1>11. CASE (\E m \in Nodes : NodeStep(m)) \/ (\E r \in Readers : RouteRead(r))
  BY <1>1, <1>11 DEF NodeStep, Crash, Stop, Restart, RouteRead, nodeVars
<1>12. QED
  BY <1>2, <1>3, <1>4, <1>5, <1>6, <1>7, <1>8, <1>9, <1>10, <1>11 DEF Next

\* What is known of a call that may still confirm: it waits for the fence.
LEMMA DeadCall ==
  ASSUME ContentInv, DeadHandover, NEW p \in row.latest, Promoting(p)
  PROVE  /\ p \in Promoters /\ p \in Callers /\ call[p].phase = "fencing"
         /\ call[p].src = row.primary /\ call[p].epoch = row.epoch + 1
         /\ job[p].kind \notin {"sync", "activate"} /\ job[p].stage # "done"
<1>1. /\ p \in Promoters /\ p \in Callers /\ ~PastFence(p)
  BY DeadFields, RowFields DEF DeadHandover, Callers
<1>2. call[p].phase = "fencing" /\ call[p].phase \in Active
  BY <1>1 DEF PastFence, Promoting, Active
<1>3. Engaged(p)
  BY <1>1, <1>2, ContentParts DEF Routed
<1>4. QED
  BY <1>1, <1>2, <1>3, ContentParts DEF Transition, PastFence

\* No call that may confirm passes the fence, and none takes up the work there.
LEMMA DeadCalls ==
  ASSUME ContentInv, DeadHandover, NEW p \in row.latest, call'[p] = call[p],
         \/ job'[p] = job[p]
         \/ job'[p].kind = job[p].kind /\ job'[p].stage \in Stages \ {"done"}
         \/ ~Promoting(p)
  PROVE  Promoting(p)' => ~PastFence(p)'
<1>1. Promoting(p)' = Promoting(p)
  BY DEF Promoting
<1>2. CASE Promoting(p)
  BY <1>2, DeadCall DEF PastFence
<1>3. QED
  BY <1>1, <1>2

LEMMA DeadWrites ==
  ASSUME ContentInv, DeadHandover, NEW w \in Writers, WriteStep(w)
  PROVE  DeadRow /\ \A p \in row'.latest : Promoting(p)' => ~PastFence(p)'
<1>0. TypeOK /\ w \in Callers /\ row.state = "moving"
  BY DeadFields DEF DeadHandover, Callers
<1>1. row' = row
  BY <1>0 DEF WriteStep, BeginWrite, StartWrite, StartInit, RunWrite, FinishWrite, GiveUp,
     LandOrphan, RejectStopping
<1>2. ASSUME NEW p \in row.latest PROVE call'[p] = call[p] /\ job'[p] = job[p]
  <2>1. p # w
    BY <1>0, RowFields, Disjoint
  <2>2. p \in Callers /\ job \in [Callers -> Job] /\ call \in [Callers -> Call]
    BY <1>0, RowFields, CallType DEF TypeOK, Callers
  <2>3. ASSUME NEW stage, SetStage(w, stage), call' = call
        PROVE  call'[p] = call[p] /\ job'[p] = job[p]
    BY <2>1, <2>2, <2>3 DEF SetStage
  <2>4. ASSUME NEW phase, Return(w, phase) PROVE call'[p] = call[p] /\ job'[p] = job[p]
    BY <2>1, <2>2, <2>4 DEF Return, SetPhase
  <2>5. QED
    BY <1>0, <2>3, <2>4 DEF WriteStep, BeginWrite, StartWrite, StartInit, RunWrite,
       FinishWrite, GiveUp, LandOrphan, RejectStopping
<1>3. QED
  BY <1>1, <1>2, DeadCalls DEF DeadRow

LEMMA DeadCopies ==
  ASSUME ContentInv, DeadHandover, NEW c \in Syncs \cup Promoters, CopyStep(c)
  PROVE  DeadRow /\ \A p \in row'.latest : Promoting(p)' => ~PastFence(p)'
<1>0. TypeOK /\ c \in Callers
  BY DeadFields DEF Callers
<1>1. row' = row /\ call' = call /\ job[c].kind = "sync"
  BY DEF CopyStep, StartSync, FetchBundle, ApplyBundle, SaveReplica, FailSync, Queued
<1>2. \A d \in Callers : d # c => job'[d] = job[d]
  BY <1>0 DEF CopyStep, StartSync, FetchBundle, ApplyBundle, SaveReplica, FailSync,
     SetStage, TypeOK
<1>3. ASSUME NEW p \in row.latest PROVE job'[p] = job[p] \/ ~Promoting(p)
  BY <1>0, <1>1, <1>2, DeadCall, RowFields DEF Callers
<1>4. QED
  BY <1>1, <1>3, DeadCalls DEF DeadRow

LEMMA DeadReplication ==
  ASSUME ContentInv, DeadHandover, NEW s \in Syncs, ReplicateStep(s)
  PROVE  DeadRow /\ \A p \in row'.latest : Promoting(p)' => ~PastFence(p)'
<1>0. TypeOK /\ s \in Callers /\ row.state = "moving"
  BY DeadFields DEF DeadHandover, Callers
<1>1. \/ row' = row
      \/ \E n, r : row' = [row EXCEPT !.latest = {}, !.replicas[n] = r]
  BY <1>0 DEF ReplicateStep, ClaimSync, SnapshotSource, FinishSync, AbortSync, LoseSync,
     NextTick, RecordSync
<1>2. DeadRow /\ row'.latest \subseteq row.latest
  BY <1>0, <1>1, RowType DEF Placement, DeadRow
<1>3. ASSUME NEW p \in row.latest PROVE call'[p] = call[p] /\ job'[p] = job[p]
  <2>1. p # s
    BY <1>0, RowFields, Disjoint
  <2>2. p \in Callers /\ job \in [Callers -> Job] /\ call \in [Callers -> Call]
    BY <1>0, RowFields, CallType DEF TypeOK, Callers
  <2>3. CASE SnapshotSource(s) \/ \E n \in Nodes : ClaimSync(s, n)
    BY <2>1, <2>2, <2>3 DEF SnapshotSource, ClaimSync
  <2>4. ASSUME NEW phase, Return(s, phase) PROVE call'[p] = call[p] /\ job'[p] = job[p]
    BY <2>1, <2>2, <2>4 DEF Return, SetPhase
  <2>5. QED
    BY <2>3, <2>4 DEF ReplicateStep, FinishSync, AbortSync, LoseSync, NextTick
<1>4. QED
  BY <1>2, <1>3, DeadCalls

LEMMA DeadPromotion ==
  ASSUME ContentInv, DeadHandover, NEW q \in Promoters, PromoteStep(q)
  PROVE  DeadRow /\ \A p \in row'.latest : Promoting(p)' => ~PastFence(p)'
<1> DEFINE Goal == DeadRow /\ \A p \in row'.latest : Promoting(p)' => ~PastFence(p)'
<1>0. /\ TypeOK /\ q \in Callers /\ row.state = "moving"
      /\ row.latest \subseteq Promoters /\ row.latest \subseteq Callers
  BY DeadFields, RowFields DEF DeadHandover, Callers
<1>1. ASSUME NEW t \in Nodes, StartPromote(q, t) PROVE Goal
  <2>1. row' = [row EXCEPT !.latest = @ \cup {q}]
    BY <1>0, <1>1 DEF StartPromote
  <2>2. DeadRow /\ row'.latest = row.latest \cup {q}
    BY <1>0, <2>1, RowType DEF Placement, DeadRow
  <2>3. /\ call'[q].phase = "fencing" /\ job'[q] = Ask("fence")
        /\ \A d \in Callers : d # q => call'[d] = call[d] /\ job'[d] = job[d]
    BY <1>0, <1>1, CallType DEF StartPromote, TypeOK
  <2>4. Promoting(q)' => ~PastFence(q)'
    BY <2>3 DEF PastFence, Ask
  <2>5. ASSUME NEW p \in row.latest, p # q PROVE Promoting(p)' => ~PastFence(p)'
    BY <1>0, <2>3, <2>5, DeadCalls DEF Callers
  <2>6. QED
    BY <2>2, <2>4, <2>5
<1>2. ASSUME row' = row,
             \A p \in row.latest : p # q => call'[p] = call[p] /\ job'[p] = job[p],
             q \in row.latest => (Promoting(q)' => ~PastFence(q)')
      PROVE  Goal
  BY <1>2, DeadCalls DEF DeadRow
<1>3. CASE ExecFence(q)
  <2>1. q \in row.latest /\ Promoting(q) =>
          job'[q].kind = job[q].kind /\ job'[q].stage = "rejected"
    <3> SUFFICES ASSUME q \in row.latest, Promoting(q)
                 PROVE  job'[q].kind = job[q].kind /\ job'[q].stage = "rejected"
      OBVIOUS
    <3>1. SetStage(q, "rejected")
      BY <1>3, DeadCall, DeadFields DEF ExecFence, AlreadyFenced, Fenceable
    <3>2. QED
      BY <1>0, <3>1, SetStageEffect DEF Stages
  <2>2. row' = row /\ call' = call /\ \A d \in Callers : d # q => job'[d] = job[d]
    BY <1>0, <1>3 DEF ExecFence, SetStage, TypeOK
  <2>3. q \in row.latest => (Promoting(q)' => ~PastFence(q)')
    BY <2>1, <2>2, DeadCalls DEF Stages
  <2>4. QED
    BY <1>0, <1>2, <2>2, <2>3
<1>4. CASE ExecActivate(q)
  <2>1. /\ row' = row /\ call' = call /\ job[q].kind = "activate"
        /\ \A d \in Callers : d # q => job'[d] = job[d]
    BY <1>0, <1>4 DEF ExecActivate, SetStage, Queued, TypeOK
  <2>2. q \in row.latest => (Promoting(q)' => ~PastFence(q)')
    BY <2>1, DeadCall, DeadCalls
  <2>3. QED
    BY <1>0, <1>2, <2>1, <2>2
<1>5. CASE Frozen(q) \/ CheckTarget(q) \/ TargetSynced(q)
  <2>1. q \notin row.latest
    <3>1. Promoting(q) /\ PastFence(q)
      BY <1>5 DEF Frozen, CheckTarget, TargetSynced, Promoting, PastFence
    <3>2. QED
      BY <3>1 DEF DeadHandover
  <2>2. row' = row /\ \A d \in Callers : d # q => call'[d] = call[d] /\ job'[d] = job[d]
    BY <1>0, <1>5, CallType DEF Frozen, CheckTarget, TargetSynced, SetPhase, TypeOK
  <2>3. QED
    BY <1>0, <1>2, <2>1, <2>2
<1>6. CASE CompletePromote(q) \/ FailPromote(q)
  <2>1. row' = row
    <3>1. CASE CompletePromote(q)
      <4>1. Promoting(q) /\ PastFence(q)
        BY <3>1 DEF CompletePromote, Promoting, PastFence
      <4>2. q \notin row.latest
        BY <4>1 DEF DeadHandover
      <4>3. QED
        BY <3>1, <4>2 DEF CompletePromote
    <3>2. CASE FailPromote(q)
      BY <3>2 DEF FailPromote
    <3>3. QED
      BY <1>6, <3>1, <3>2
  <2>2. Return(q, "failed")
    <3>1. CASE CompletePromote(q)
      <4>1. Promoting(q) /\ PastFence(q)
        BY <3>1 DEF CompletePromote, Promoting, PastFence
      <4>2. q \notin row.latest
        BY <4>1 DEF DeadHandover
      <4>3. QED
        BY <3>1, <4>2 DEF CompletePromote
    <3>2. QED
      BY <1>6, <3>1 DEF FailPromote
  <2>3. /\ call'[q].phase = "failed"
        /\ \A d \in Callers : d # q => call'[d] = call[d] /\ job'[d] = job[d]
    BY <1>0, <2>2, ReturnPhase DEF Return, SetPhase, TypeOK
  <2>4. QED
    BY <1>0, <1>2, <2>1, <2>3 DEF Promoting
<1>7. QED
  BY <1>1, <1>3, <1>4, <1>5, <1>6 DEF PromoteStep

LEMMA DeadOthers ==
  ASSUME ContentInv, DeadHandover,
         (\E n \in Nodes : NodeStep(n)) \/ (\E r \in Readers : RouteRead(r))
  PROVE  DeadRow /\ \A p \in row'.latest : Promoting(p)' => ~PastFence(p)'
<1>0. TypeOK /\ row.latest \subseteq Callers
  BY DeadFields, RowFields DEF Callers
<1>1. row' = row /\ call' = call
  BY DEF NodeStep, Crash, Stop, Restart, RouteRead
<1>2. ASSUME NEW p \in row.latest
      PROVE  \/ job'[p] = job[p]
             \/ job'[p].kind = job[p].kind /\ job'[p].stage \in Stages \ {"done"}
  <2>1. job[p] \in Job
    BY <1>0 DEF TypeOK
  <2>2. \/ job'[p] = job[p]
        \/ \E stage \in {"lost", "orphan", "rejected"} :
             job'[p] = [job[p] EXCEPT !.stage = stage]
    BY <1>0 DEF NodeStep, Crash, Stop, Restart, RouteRead
  <2>3. QED
    BY <2>1, <2>2 DEF Job, Stages
<1>3. QED
  BY <1>1, <1>2, DeadCalls DEF DeadRow

\* Nothing revives it, for any nodes, callers and faults: no retry of the same
\* target, no other target, no worker and no restart changes the owner or the
\* state of the row, so that the repository takes no write any more.
THEOREM DeadHandoverStays == Spec => [](DeadHandover => []DeadHandover)
<1>1. ContentInv /\ DeadHandover /\ [Next]_vars => DeadHandover'
  <2> SUFFICES ASSUME ContentInv, DeadHandover, [Next]_vars PROVE DeadHandover'
    OBVIOUS
  <2>1. CASE Next
    <3>1. DeadRow /\ \A p \in row'.latest : Promoting(p)' => ~PastFence(p)'
      BY <2>1, DeadWrites, DeadReplication, DeadCopies, DeadPromotion, DeadOthers DEF Next
    <3>2. /\ row.state = "moving" /\ row.target = row.primary
          /\ role'[row.primary] = "primary" /\ epoch'[row.primary] > row.epoch
      BY <2>1, DeadNode DEF DeadHandover, ActivatedAgain
    <3>3. QED
      BY <3>1, <3>2 DEF DeadHandover, DeadRow, ActivatedAgain
  <2>2. CASE UNCHANGED vars
    BY <2>2 DEF vars, nodeVars, DeadHandover, ActivatedAgain, Promoting, PastFence
  <2>3. QED
    BY <2>1, <2>2
<1>2. QED
  BY <1>1, Content, PTL DEF Spec

=============================================================================
