-------------------------- MODULE SearchJobsProofs --------------------------
(***************************************************************************)
(* Theorems about SearchJobs for any number of workers, names, generations *)
(* and faults: the published namespace is stored and as fresh as its       *)
(* generation says, and the rows, the engine and the workers together      *)
(* implement SearchIndex.                                                  *)
(***************************************************************************)
EXTENDS SearchJobs, TLAPS

-----------------------------------------------------------------------------
\* The inductive invariant.

Leq(a, b) == \A p \in Parts : a[p] <= b[p]

\* Nothing is newer than the project.
BelowAsked == \A g \in Generations : Leq(asked[g], data)
BelowSpace == \A t \in Tokens : Leq(space[t], data)
BelowDocs == \A w \in Workers : Leq(worker[w].docs, data)
Below == BelowAsked /\ BelowSpace /\ BelowDocs

\* A name has one owner: one worker, or the row when it is published.
Named ==
  \A w \in Workers : worker[w].pc \notin {"idle", "claiming"} =>
    worker[w].token # NoToken
OneOwner ==
  \A v, w \in Workers : v # w /\ worker[v].token = worker[w].token =>
    worker[v].token = NoToken
PublishedIsDone ==
  \A w \in Workers : worker[w].token = row.published /\ row.published # NoToken =>
    worker[w].pc = "obsolete"
PriorIsDone ==
  \A v, w \in Workers : worker[v].prior = worker[w].token
                        /\ worker[w].token # NoToken =>
    worker[w].pc = "obsolete"
PriorIsObsolete ==
  \A w \in Workers : worker[w].pc = "obsolete" /\ worker[w].prior # NoToken =>
    worker[w].prior # row.published
Owners == Named /\ OneOwner /\ PublishedIsDone /\ PriorIsDone /\ PriorIsObsolete

\* What a worker in state s has read, or has written as content, is at least
\* as new as content c.
Covers(s, content, c) ==
  /\ s.pc \in {"code", "check", "write"} => c["issues"] <= s.docs["issues"]
  /\ s.pc \in {"check", "write"} => c["code"] <= s.docs["code"]
  /\ s.pc = "publish" => Leq(c, content)

\* It is as new as its generation, and while the worker has the lease as new
\* as what queries see.
Fresh ==
  \A w \in Workers :
    /\ worker[w].gen <= row.requested
    /\ Covers(worker[w], space[worker[w].token], asked[worker[w].gen])
Ahead ==
  \A w \in Workers : row.lease = worker[w].token /\ row.lease # NoToken =>
    Covers(worker[w], space[worker[w].token], Visible)

IInv == TypeOK /\ Below /\ Owners /\ Fresh /\ Ahead /\ NotPendingIsFresh


-----------------------------------------------------------------------------
\* Types.

LEMMA RowFields ==
  ASSUME TypeOK
  PROVE  /\ row.requested \in Generations /\ row.completed \in Generations
         /\ row.published \in Tokens \cup {NoToken} /\ row.pgen \in Generations
         /\ row.lease \in Tokens \cup {NoToken, BackOff}
         /\ row.leased \in Generations /\ row.live \in BOOLEAN
BY DEF TypeOK, Rows

LEMMA WorkerFields ==
  ASSUME TypeOK, NEW w \in Workers
  PROVE  /\ worker[w] \in WorkerStates
         /\ worker[w].token \in Tokens \cup {NoToken}
         /\ worker[w].prior \in Tokens \cup {NoToken}
         /\ worker[w].gen \in Generations /\ worker[w].docs \in Docs
BY DEF TypeOK, WorkerStates

\* A step of one worker: the others stay as they are.
LEMMA WorkerMoves ==
  ASSUME TypeOK, NEW w \in Workers, NEW s \in WorkerStates,
         worker' = [worker EXCEPT ![w] = s]
  PROVE  /\ worker' \in [Workers -> WorkerStates] /\ worker'[w] = s
         /\ \A v \in Workers \ {w} : worker'[v] = worker[v]
BY DEF TypeOK

LEMMA IdleType == IdleWorker \in WorkerStates
BY SearchAssumption DEF IdleWorker, WorkerStates, Absent, Docs, Generations

\* A claim takes some name that nobody uses.
Claims(w, t) ==
  /\ t \in Tokens /\ Forgotten(t)
  /\ worker[w].pc = "claiming" /\ Claimable(w)
  /\ row' = [row EXCEPT !.lease = t, !.leased = worker[w].gen, !.live = TRUE]
  /\ worker' = [worker EXCEPT ![w].pc = "issues", ![w].token = t]
  /\ UNCHANGED <<data, asked, events, space, faults>>

LEMMA ClaimTakes ==
  ASSUME NEW w \in Workers, Claim(w)
  PROVE  \E t \in Tokens : Claims(w, t)
<1> DEFINE t == CHOOSE u \in Tokens : Forgotten(u)
<1>1. t \in Tokens /\ Forgotten(t)
  BY DEF Claim
<1>2. Claims(w, t)
  BY <1>1 DEF Claim, Claims
<1>3. QED
  BY <1>1, <1>2

-----------------------------------------------------------------------------
\* What the steps of a worker do to its record and to the row.

\* The record of a worker, field by field.
State(pc, token, gen, docs, prior) ==
  [pc |-> pc, token |-> token, gen |-> gen, docs |-> docs, prior |-> prior]
Others(w) == \A v \in Workers \ {w} : worker'[v] = worker[v]

LEMMA RestMoves ==
  ASSUME TypeOK, NEW w \in Workers, Rest(w)
  PROVE  /\ worker' \in [Workers -> WorkerStates] /\ Others(w)
         /\ worker'[w] = IdleWorker
BY IdleType, WorkerMoves, WorkerFields DEF WorkerStates, State, Rest, Others

LEMMA GotoMoves ==
  ASSUME TypeOK, NEW w \in Workers,
         NEW pc \in {"publish", "obsolete", "discard", "cleanup", "retry"},
         Goto(w, pc)
  PROVE  /\ worker' \in [Workers -> WorkerStates] /\ Others(w)
         /\ worker'[w] = State(pc, worker[w].token, worker[w].gen, worker[w].docs,
                                worker[w].prior)
<1>1. [worker[w] EXCEPT !.pc = pc] \in WorkerStates
  BY WorkerFields DEF WorkerStates
<1>2. worker' = [worker EXCEPT ![w] = [worker[w] EXCEPT !.pc = pc]]
  BY DEF Goto
<1>3. QED
  BY <1>1, <1>2, WorkerMoves, WorkerFields DEF WorkerStates, State, Others

LEMMA ReadMoves ==
  ASSUME TypeOK, NEW w \in Workers, NEW p \in Parts, NEW next \in {"code", "check"},
         ReadPart(w, p, next)
  PROVE  /\ UNCHANGED <<data, row, asked, events, space, faults>>
         /\ worker' \in [Workers -> WorkerStates] /\ Others(w)
         /\ worker'[w] = State(next, worker[w].token, worker[w].gen,
                                [worker[w].docs EXCEPT ![p] = data[p]],
                                worker[w].prior)
<1> DEFINE s == [worker[w] EXCEPT !.docs = [@ EXCEPT ![p] = data[p]], !.pc = next]
<1>1. [worker[w].docs EXCEPT ![p] = data[p]] \in Docs
  BY WorkerFields DEF TypeOK, Content, Docs
<1>2. s \in WorkerStates
  BY <1>1, WorkerFields DEF WorkerStates
<1>3. worker' = [worker EXCEPT ![w] = s]
  BY DEF ReadPart
<1>4. QED
  <2>1. worker' \in [Workers -> WorkerStates] /\ Others(w) /\ worker'[w] = s
    BY <1>2, <1>3, WorkerMoves DEF Others
  <2>2. worker'[w] = State(next, worker[w].token, worker[w].gen,
                           [worker[w].docs EXCEPT ![p] = data[p]], worker[w].prior)
    BY <2>1, WorkerFields DEF WorkerStates, State
  <2>3. UNCHANGED <<data, row, asked, events, space, faults>>
    BY DEF ReadPart
  <2>4. QED
    BY <2>1, <2>2, <2>3

LEMMA ReadIssuesMoves ==
  ASSUME TypeOK, NEW w \in Workers, ReadIssues(w)
  PROVE  /\ worker[w].pc = "issues" /\ worker' \in [Workers -> WorkerStates]
         /\ UNCHANGED <<data, row, asked, events, space, faults>>
         /\ Others(w) /\ worker'[w] \in WorkerStates
         /\ worker'[w].pc = "code" /\ worker'[w].token = worker[w].token
         /\ worker'[w].gen = worker[w].gen /\ worker'[w].prior = worker[w].prior
         /\ worker'[w].docs["issues"] = data["issues"]
         /\ worker'[w].docs["code"] = worker[w].docs["code"]
<1>1. worker[w].docs \in Docs
  BY WorkerFields
<1>2. worker[w].pc = "issues" /\ ReadPart(w, "issues", "code") /\ "issues" \in Parts
  BY DEF ReadIssues, Parts
<1>3. /\ UNCHANGED <<data, row, asked, events, space, faults>>
      /\ worker' \in [Workers -> WorkerStates] /\ Others(w)
      /\ worker'[w] = State("code", worker[w].token, worker[w].gen,
                             [worker[w].docs EXCEPT !["issues"] = data["issues"]],
                             worker[w].prior)
  BY <1>2, ReadMoves
<1>4. QED
  BY <1>1, <1>2, <1>3 DEF State, Docs, Parts

LEMMA ReadCodeMoves ==
  ASSUME TypeOK, NEW w \in Workers, ReadCode(w)
  PROVE  /\ worker[w].pc = "code" /\ worker' \in [Workers -> WorkerStates]
         /\ UNCHANGED <<data, row, asked, events, space, faults>>
         /\ Others(w) /\ worker'[w] \in WorkerStates
         /\ worker'[w].pc = "check" /\ worker'[w].token = worker[w].token
         /\ worker'[w].gen = worker[w].gen /\ worker'[w].prior = worker[w].prior
         /\ worker'[w].docs["issues"] = worker[w].docs["issues"]
         /\ worker'[w].docs["code"] = data["code"]
<1>1. worker[w].docs \in Docs
  BY WorkerFields
<1>2. worker[w].pc = "code" /\ ReadPart(w, "code", "check") /\ "code" \in Parts
  BY DEF ReadCode, Parts
<1>3. /\ UNCHANGED <<data, row, asked, events, space, faults>>
      /\ worker' \in [Workers -> WorkerStates] /\ Others(w)
      /\ worker'[w] = State("check", worker[w].token, worker[w].gen,
                             [worker[w].docs EXCEPT !["code"] = data["code"]],
                             worker[w].prior)
  BY <1>2, ReadMoves
<1>4. QED
  BY <1>1, <1>2, <1>3 DEF State, Docs, Parts

LEMMA CheckMoves ==
  ASSUME TypeOK, NEW w \in Workers, CheckCurrent(w)
  PROVE  /\ worker' \in [Workers -> WorkerStates] /\ Others(w)
         /\ worker[w].pc = "check"
         /\ UNCHANGED <<data, row, asked, events, space, faults>>
         /\ \/ worker'[w] = IdleWorker
            \/ worker'[w] = State("write", worker[w].token, worker[w].gen, worker[w].docs,
                                row.published)
<1> DEFINE s == [worker[w] EXCEPT !.pc = "write", !.prior = row.published]
<1>1. s \in WorkerStates
  BY WorkerFields, RowFields DEF WorkerStates
<1>2. CASE Rest(w)
  BY <1>2, RestMoves DEF CheckCurrent
<1>3. CASE worker' = [worker EXCEPT ![w].pc = "write", ![w].prior = row.published]
  <2>1. worker' = [worker EXCEPT ![w] = s]
    BY <1>3
  <2>2. QED
    BY <1>1, <2>1, WorkerMoves, WorkerFields DEF WorkerStates, State, CheckCurrent, Others
<1>4. QED
  BY <1>2, <1>3 DEF CheckCurrent

LEMMA WrittenState ==
  ASSUME NEW s \in WorkerStates, NEW pc \in {"publish", "cleanup"}, NEW docs \in Docs
  PROVE  [s EXCEPT !.pc = pc, !.docs = docs]
           = State(pc, s.token, s.gen, docs, s.prior)
<1> DEFINE r == [s EXCEPT !.pc = pc, !.docs = docs]
<1>1. r \in WorkerStates
  BY DEF WorkerStates
<1>2. /\ r.pc = pc /\ r.docs = docs /\ r.token = s.token /\ r.gen = s.gen
      /\ r.prior = s.prior
  BY DEF WorkerStates
<1> HIDE DEF r
<1>3. r = State(pc, s.token, s.gen, docs, s.prior)
  BY <1>1, <1>2 DEF WorkerStates, State
<1>4. QED
  BY <1>3 DEF r

LEMMA WriteMoves ==
  ASSUME TypeOK, NEW w \in Workers, NEW pc \in {"publish", "cleanup"},
         worker' = [worker EXCEPT ![w].pc = pc, ![w].docs = Absent]
  PROVE  /\ worker' \in [Workers -> WorkerStates] /\ Others(w)
         /\ worker'[w] = State(pc, worker[w].token, worker[w].gen, Absent,
                                worker[w].prior)
<1> DEFINE s == [worker[w] EXCEPT !.pc = pc, !.docs = Absent]
<1>1. Absent \in Docs
  BY DEF Absent, Docs
<1>2. s \in WorkerStates
  BY <1>1, WorkerFields DEF WorkerStates
<1>3. worker' = [worker EXCEPT ![w] = s]
  OBVIOUS
<1>4. QED
  <2>1. worker' \in [Workers -> WorkerStates] /\ Others(w) /\ worker'[w] = s
    BY <1>2, <1>3, WorkerMoves DEF Others
  <2>2. worker'[w] = State(pc, worker[w].token, worker[w].gen, Absent,
                           worker[w].prior)
    BY <2>1, <1>1, WorkerFields, WrittenState
  <2>3. QED
    BY <2>1, <2>2

LEMMA FindMoves ==
  ASSUME TypeOK, NEW w \in Workers, FindWork(w)
  PROVE  /\ worker[w].pc = "idle" /\ UNCHANGED <<data, row, asked, events, space, faults>>
         /\ worker' \in [Workers -> WorkerStates] /\ Others(w)
         /\ worker'[w] = State("claiming", worker[w].token, row.requested, worker[w].docs,
                                worker[w].prior)
<1> DEFINE s == [worker[w] EXCEPT !.pc = "claiming", !.gen = row.requested]
<1>1. s \in WorkerStates
  BY WorkerFields, RowFields DEF WorkerStates
<1>2. worker' = [worker EXCEPT ![w] = s]
  BY DEF FindWork
<1>3. QED
  <2>1. worker' \in [Workers -> WorkerStates] /\ Others(w) /\ worker'[w] = s
    BY <1>1, <1>2, WorkerMoves DEF Others
  <2>2. worker'[w] = State("claiming", worker[w].token, row.requested,
                           worker[w].docs, worker[w].prior)
    BY <2>1, WorkerFields DEF WorkerStates, State
  <2>3. worker[w].pc = "idle" /\ UNCHANGED <<data, row, asked, events, space, faults>>
    BY DEF FindWork
  <2>4. QED
    BY <2>1, <2>2, <2>3

LEMMA ClaimMoves ==
  ASSUME TypeOK, NEW w \in Workers, NEW t \in Tokens, Claims(w, t)
  PROVE  /\ worker' \in [Workers -> WorkerStates] /\ Others(w)
         /\ worker'[w] = State("issues", t, worker[w].gen, worker[w].docs,
                                worker[w].prior)
         /\ row' \in Rows /\ row'.requested = row.requested
         /\ row'.completed = row.completed /\ row'.pgen = row.pgen
         /\ row'.published = row.published /\ row'.lease = t
         /\ worker[w].pc = "claiming" /\ Forgotten(t)
         /\ UNCHANGED <<data, asked, events, space, faults>>
<1> DEFINE s == [worker[w] EXCEPT !.pc = "issues", !.token = t]
<1>1. s \in WorkerStates
  BY WorkerFields DEF WorkerStates
<1>2. worker' = [worker EXCEPT ![w] = s]
  BY DEF Claims
<1>3. /\ row' \in Rows /\ row'.requested = row.requested
      /\ row'.completed = row.completed /\ row'.pgen = row.pgen
      /\ row'.published = row.published /\ row'.lease = t
  <2>1. worker[w].gen \in Generations /\ row \in Rows
    BY WorkerFields DEF TypeOK
  <2>2. QED
    BY <2>1 DEF Claims, Rows
<1>4. QED
  <2>1. worker' \in [Workers -> WorkerStates] /\ Others(w) /\ worker'[w] = s
    BY <1>1, <1>2, WorkerMoves DEF Others
  <2>2. worker'[w] = State("issues", t, worker[w].gen, worker[w].docs, worker[w].prior)
    BY <2>1, WorkerFields DEF WorkerStates, State
  <2>3. QED
    BY <1>3, <2>1, <2>2 DEF Claims

LEMMA CompleteMoves ==
  ASSUME TypeOK, NEW w \in Workers, Complete(w)
  PROVE  /\ worker' \in [Workers -> WorkerStates] /\ Others(w)
         /\ worker[w].pc = "publish"
         /\ UNCHANGED <<data, asked, events, space, faults>>
         /\ row' \in Rows
         /\ \/ /\ Holds(w) /\ row'.requested = row.requested
               /\ row'.completed = worker[w].gen /\ row'.pgen = worker[w].gen
               /\ row'.published = worker[w].token /\ row'.lease = NoToken
               /\ worker'[w] = State("obsolete", worker[w].token, worker[w].gen,
                                      worker[w].docs, worker[w].prior)
            \/ row' = row /\ worker'[w] = State("discard", worker[w].token, worker[w].gen,
                                   worker[w].docs, worker[w].prior)
<1>1. CASE ~Holds(w)
  <2>1. Goto(w, "discard") /\ row' = row
    BY <1>1 DEF Complete
  <2>2. QED
    BY <2>1, GotoMoves DEF Complete, TypeOK
<1>2. CASE Holds(w)
  <2>1. Goto(w, "obsolete") /\ row' = Published(w)
    BY <1>2 DEF Complete
  <2>2. 0 \in Generations /\ worker[w].gen \in Generations /\ row \in Rows
        /\ worker[w].token \in Tokens \cup {NoToken}
    BY WorkerFields, SearchAssumption DEF Generations, TypeOK
  <2>3. row' \in Rows
    BY <2>1, <2>2 DEF Published, Rows
  <2>4. /\ row'.requested = row.requested
        /\ row'.completed = worker[w].gen /\ row'.pgen = worker[w].gen
        /\ row'.published = worker[w].token /\ row'.lease = NoToken
    BY <2>1, <2>2 DEF Published, Rows
  <2>5. QED
    BY <1>2, <2>1, <2>3, <2>4, GotoMoves DEF Complete
<1>3. QED
  BY <1>1, <1>2

LEMMA RetryMoves ==
  ASSUME TypeOK, NEW w \in Workers, Retry(w)
  PROVE  /\ row' \in Rows /\ row'.requested = row.requested
         /\ row'.completed = row.completed /\ row'.pgen = row.pgen
         /\ row'.published = row.published /\ row'.lease \in {row.lease, BackOff}
<1>1. 0 \in Generations /\ row \in Rows
  BY SearchAssumption DEF Generations, TypeOK
<1>2. CASE row' = row
  BY <1>1, <1>2
<1>3. CASE row' = [row EXCEPT !.lease = BackOff, !.leased = 0, !.live = TRUE]
  BY <1>1, <1>3 DEF Rows
<1>4. QED
  BY <1>2, <1>3 DEF Retry

LEMMA ExpireMoves ==
  ASSUME TypeOK, ExpireLease
  PROVE  /\ row' \in Rows /\ row'.requested = row.requested
         /\ row'.completed = row.completed /\ row'.pgen = row.pgen
         /\ row'.published = row.published /\ row'.lease = row.lease
BY DEF ExpireLease, TypeOK, Rows

LEMMA MarkMoves ==
  ASSUME TypeOK, MayMark, Marked, data' \in Content
  PROVE  /\ row' \in Rows /\ row'.requested = row.requested + 1
         /\ row'.completed = row.completed /\ row'.pgen = row.pgen
         /\ row'.published = row.published /\ row'.lease = row.lease
         /\ asked' \in [Generations -> Content]
         /\ \A g \in Generations :
              asked'[g] = IF g = row.requested + 1 THEN data' ELSE asked[g]
<1>1. row.requested + 1 \in Generations /\ row \in Rows
  BY RowFields, SearchAssumption DEF Generations, MayMark, TypeOK
<1>2. QED
  BY <1>1 DEF Marked, TypeOK, Rows

LEMMA DeleteMoves ==
  ASSUME TypeOK, NEW t, Delete(t)
  PROVE  /\ space' \in [Tokens -> Docs] /\ faults' \in 0 .. MaxFaults
         /\ \A u \in Tokens : space'[u] \in {space[u], Absent}
         /\ \A u \in Tokens \ {t} : space'[u] = space[u]
<1>1. Absent \in Docs
  BY DEF Absent, Docs
<1>2. QED
  BY <1>1, SearchAssumption DEF Delete, Fault, TypeOK

\* A rebuild is requested, of the project as it is then.
Demand == WriteIssue \/ MarkEvent \/ Reconcile

LEMMA DemandMoves ==
  ASSUME TypeOK, Demand
  PROVE  /\ data' \in Content /\ Leq(data, data') /\ events' \in 0 .. 1
         /\ row' \in Rows /\ row'.requested = row.requested + 1
         /\ row'.completed = row.completed /\ row'.pgen = row.pgen
         /\ row'.published = row.published /\ row'.lease = row.lease
         /\ asked' \in [Generations -> Content]
         /\ \A g \in Generations :
              asked'[g] = IF g = row.requested + 1 THEN data' ELSE asked[g]
         /\ UNCHANGED <<space, worker, faults>>
<1>1. data' \in Content /\ Leq(data, data') /\ events' \in 0 .. 1
  BY DEF Demand, WriteIssue, MarkEvent, Reconcile, TypeOK, Content, Leq, Parts
<1>2. MayMark /\ Marked /\ UNCHANGED <<space, worker, faults>>
  BY RowFields, SearchAssumption
  DEF Demand, WriteIssue, MarkEvent, Reconcile, MayMark, MayChange, Generations
<1>3. QED
  BY <1>1, <1>2, MarkMoves

LEMMA PushMoves ==
  ASSUME TypeOK, PushCode
  PROVE  /\ data' \in Content /\ Leq(data, data') /\ events' \in 0 .. 1
         /\ UNCHANGED <<row, asked, space, worker, faults>>
BY DEF PushCode, TypeOK, Content, Leq, Parts

LEMMA LoseMoves ==
  ASSUME TypeOK, LoseEvent
  PROVE  events' \in 0 .. 1 /\ UNCHANGED <<data, row, asked, space, worker, faults>>
BY DEF LoseEvent, TypeOK

LEMMA RefuseMoves ==
  ASSUME TypeOK, NEW w \in Workers, RefuseBuild(w)
  PROVE  /\ worker[w].pc = "code"
         /\ worker' \in [Workers -> WorkerStates] /\ Others(w)
         /\ worker'[w] = State("cleanup", worker[w].token, worker[w].gen, Absent,
                                worker[w].prior)
         /\ UNCHANGED <<data, row, asked, events, space, faults>>
BY WriteMoves DEF RefuseBuild

LEMMA TimeOutWorker ==
  ASSUME TypeOK, NEW w \in Workers, TimeOut(w)
  PROVE  /\ worker' \in [Workers -> WorkerStates] /\ Others(w)
         /\ worker[w].pc \notin {"idle", "claiming", "obsolete"}
         /\ worker'[w] = State("cleanup", worker[w].token, worker[w].gen, Absent,
                                worker[w].prior)
         /\ UNCHANGED <<data, row, asked, events>>
BY WriteMoves DEF TimeOut

LEMMA TimeOutMoves ==
  ASSUME TypeOK, NEW w \in Workers, TimeOut(w)
  PROVE  /\ worker' \in [Workers -> WorkerStates] /\ Others(w)
         /\ space' \in [Tokens -> Docs] /\ faults' \in 0 .. MaxFaults
         /\ UNCHANGED <<data, row, asked, events>>
         /\ \A t \in Tokens :
              \/ space'[t] = space[t]
              \/ /\ t = worker[w].token /\ worker[w].pc = "write"
                 /\ space'[t] = worker[w].docs
<1>1. worker[w].docs \in Docs /\ space \in [Tokens -> Docs]
  BY WorkerFields DEF TypeOK
<1>2. /\ space' \in [Tokens -> Docs]
      /\ \A t \in Tokens :
           \/ space'[t] = space[t]
           \/ /\ t = worker[w].token /\ worker[w].pc = "write"
              /\ space'[t] = worker[w].docs
  <2>1. CASE space' = space
    BY <1>1, <2>1
  <2>2. CASE /\ worker[w].pc = "write"
             /\ space' = [space EXCEPT ![worker[w].token] = worker[w].docs]
    BY <1>1, <2>2
  <2>3. QED
    BY <2>1, <2>2 DEF TimeOut
<1>3. faults' \in 0 .. MaxFaults
  BY SearchAssumption DEF TimeOut, Fault, TypeOK
<1>4. worker' = [worker EXCEPT ![w].pc = "cleanup", ![w].docs = Absent]
  BY DEF TimeOut
<1>5. QED
  BY <1>2, <1>3, <1>4, WriteMoves DEF TimeOut

LEMMA WriteSpaceMoves ==
  ASSUME TypeOK, NEW w \in Workers, WriteSpace(w)
  PROVE  /\ worker[w].pc = "write"
         /\ worker' \in [Workers -> WorkerStates] /\ Others(w)
         /\ worker'[w] = State("publish", worker[w].token, worker[w].gen, Absent,
                                worker[w].prior)
         /\ space' \in [Tokens -> Docs]
         /\ \A t \in Tokens :
              space'[t] = IF t = worker[w].token THEN worker[w].docs ELSE space[t]
         /\ UNCHANGED <<data, row, asked, events, faults>>
<1>1. worker[w].docs \in Docs /\ space \in [Tokens -> Docs]
  BY WorkerFields DEF TypeOK
<1>2. space' = [space EXCEPT ![worker[w].token] = worker[w].docs]
  BY DEF WriteSpace
<1>3. worker' = [worker EXCEPT ![w].pc = "publish", ![w].docs = Absent]
  BY DEF WriteSpace
<1>4. QED
  BY <1>1, <1>2, <1>3, WriteMoves DEF WriteSpace

-----------------------------------------------------------------------------
\* What a step leaves as it is.

\* The generation that is done, and the lease unless it goes to nobody or to
\* a name that no worker has.
RowKept ==
  /\ row'.completed = row.completed /\ row'.published = row.published
  /\ row.requested <= row'.requested
  /\ \/ row'.lease \in {row.lease, BackOff}
     \/ \A w \in Workers : worker[w].token # row'.lease
Finishes ==
  \E w \in Workers :
    /\ Complete(w) /\ Holds(w) /\ row'.requested = row.requested
    /\ row'.completed = worker[w].gen /\ row'.published = worker[w].token
    /\ row'.lease = NoToken
PublishedKept ==
  row.published # NoToken => space'[row.published] = space[row.published]

\* What becomes of worker v.
Early == {"idle", "claiming", "issues", "obsolete", "discard", "cleanup", "retry"}
Kept(v) ==
  /\ worker'[v] = worker[v]
  /\ worker[v].pc = "publish" => space'[worker[v].token] = space[worker[v].token]
StepOf(v) ==
  \/ /\ worker'[v].pc \in Early
     /\ worker'[v].gen \in {worker[v].gen, row.requested, 0}
  \/ Kept(v)
  \/ ReadIssues(v) \/ ReadCode(v) \/ WriteSpace(v)
  \/ CheckCurrent(v) /\ worker'[v].pc = "write"

LEMMA TypeStep ==
  ASSUME TypeOK, Fresh, [Next]_vars
  PROVE  TypeOK'
<1> USE TokenAssumption, RowFields, WorkerFields,
        SearchAssumption DEF Fresh
<1>1. CASE Demand
  BY <1>1, DemandMoves DEF TypeOK, Generations
<1>2. CASE PushCode
  BY <1>2, PushMoves DEF TypeOK
<1>3. CASE LoseEvent
  BY <1>3, LoseMoves DEF TypeOK
<1>4. CASE ExpireLease
  BY <1>4, ExpireMoves DEF ExpireLease, Fault, TypeOK
<1>5. ASSUME NEW w \in Workers, FindWork(w) PROVE TypeOK'
  BY <1>5, FindMoves DEF Others, TypeOK
<1>6. ASSUME NEW w \in Workers, Claim(w) PROVE TypeOK'
  <2>1. PICK t \in Tokens : Claims(w, t)
    BY <1>6, ClaimTakes
  <2>2. QED
    BY <2>1, ClaimMoves DEF Others, TypeOK
<1>7. ASSUME NEW w \in Workers, LoseClaim(w) PROVE TypeOK'
  BY <1>7, RestMoves DEF LoseClaim, Others, TypeOK
<1>8. ASSUME NEW w \in Workers, ReadIssues(w) PROVE TypeOK'
  BY <1>8, ReadIssuesMoves DEF Others, TypeOK
<1>9. ASSUME NEW w \in Workers, ReadCode(w) PROVE TypeOK'
  BY <1>9, ReadCodeMoves DEF Others, TypeOK
<1>10. ASSUME NEW w \in Workers, CheckCurrent(w) PROVE TypeOK'
  BY <1>10, CheckMoves DEF Others, TypeOK
<1>11. ASSUME NEW w \in Workers, WriteSpace(w) PROVE TypeOK'
  BY <1>11, WriteSpaceMoves DEF Others, TypeOK
<1>12. ASSUME NEW w \in Workers, Complete(w) PROVE TypeOK'
  BY <1>12, CompleteMoves DEF Others, TypeOK
<1>13. ASSUME NEW w \in Workers, DeletePrior(w) PROVE TypeOK'
  BY <1>13, RestMoves, DeleteMoves DEF DeletePrior, Prior, Others, TypeOK
<1>14. ASSUME NEW w \in Workers, Discard(w) PROVE TypeOK'
  BY <1>14, RestMoves, DeleteMoves DEF Discard, Others, TypeOK
<1>15. ASSUME NEW w \in Workers, CleanUp(w) PROVE TypeOK'
  BY <1>15, GotoMoves, DeleteMoves DEF CleanUp, Others, TypeOK
<1>16. ASSUME NEW w \in Workers, ScheduleRetry(w) PROVE TypeOK'
  BY <1>16, RestMoves, RetryMoves DEF ScheduleRetry, Others, TypeOK
<1>17. ASSUME NEW w \in Workers, TimeOut(w) PROVE TypeOK'
  BY <1>17, TimeOutMoves DEF Others, TypeOK
<1>18. ASSUME NEW w \in Workers, Stop(w) PROVE TypeOK'
  BY <1>18, RestMoves DEF Stop, Fault, Others, TypeOK
<1>19. CASE UNCHANGED vars
  BY <1>19 DEF vars, TypeOK
<1>20. ASSUME NEW w \in Workers, RefuseBuild(w) PROVE TypeOK'
  BY <1>20, RefuseMoves
  DEF Others, WorkerStates, State, TypeOK
<1>21. QED
  BY <1>1, <1>2, <1>3, <1>4, <1>5, <1>6, <1>7, <1>8, <1>9, <1>10, <1>11, <1>12,
     <1>13, <1>14, <1>15, <1>16, <1>17, <1>18, <1>19, <1>20
  DEF Next, ProjectNext, Work, Demand

LEMMA NamedStep ==
  ASSUME IInv, TypeOK', [Next]_vars
  PROVE  Named'
<1> USE TokenAssumption, RowFields, WorkerFields DEF IInv
<1>1. CASE Demand
  BY <1>1, DemandMoves DEF TypeOK, WorkerStates, State, IdleWorker, Owners, Named
<1>2. CASE PushCode
  BY <1>2, PushMoves DEF TypeOK, WorkerStates, State, IdleWorker, Owners, Named
<1>3. CASE LoseEvent
  BY <1>3, LoseMoves DEF TypeOK, WorkerStates, State, IdleWorker, Owners, Named
<1>4. CASE ExpireLease
  BY <1>4, ExpireMoves
  DEF ExpireLease, Fault, TypeOK, WorkerStates, State, IdleWorker, Owners, Named
<1>5. ASSUME NEW w \in Workers, FindWork(w) PROVE Named'
  BY <1>5, FindMoves DEF Others, TypeOK, WorkerStates, State, IdleWorker, Owners, Named
<1>6. ASSUME NEW w \in Workers, Claim(w) PROVE Named'
  <2>1. PICK t \in Tokens : Claims(w, t)
    BY <1>6, ClaimTakes
  <2>2. QED
    BY <2>1, ClaimMoves
    DEF Others, TypeOK, WorkerStates, State, IdleWorker, Owners, Named
<1>7. ASSUME NEW w \in Workers, LoseClaim(w) PROVE Named'
  BY <1>7, RestMoves
  DEF LoseClaim, Others, TypeOK, WorkerStates, State, IdleWorker, Owners, Named
<1>8. ASSUME NEW w \in Workers, ReadIssues(w) PROVE Named'
  BY <1>8, ReadIssuesMoves
  DEF Others, TypeOK, WorkerStates, State, IdleWorker, Owners, Named
<1>9. ASSUME NEW w \in Workers, ReadCode(w) PROVE Named'
  BY <1>9, ReadCodeMoves
  DEF Others, TypeOK, WorkerStates, State, IdleWorker, Owners, Named
<1>10. ASSUME NEW w \in Workers, CheckCurrent(w) PROVE Named'
  BY <1>10, CheckMoves
  DEF Others, TypeOK, WorkerStates, State, IdleWorker, Owners, Named
<1>11. ASSUME NEW w \in Workers, WriteSpace(w) PROVE Named'
  BY <1>11, WriteSpaceMoves
  DEF Others, TypeOK, WorkerStates, State, IdleWorker, Owners, Named
<1>12. ASSUME NEW w \in Workers, Complete(w) PROVE Named'
  BY <1>12, CompleteMoves
  DEF Others, TypeOK, WorkerStates, State, IdleWorker, Owners, Named
<1>13. ASSUME NEW w \in Workers, DeletePrior(w) PROVE Named'
  BY <1>13, RestMoves
  DEF DeletePrior, Prior, Others, TypeOK, WorkerStates, State, IdleWorker, Owners,
      Named
<1>14. ASSUME NEW w \in Workers, Discard(w) PROVE Named'
  BY <1>14, RestMoves
  DEF Discard, Others, TypeOK, WorkerStates, State, IdleWorker, Owners, Named
<1>15. ASSUME NEW w \in Workers, CleanUp(w) PROVE Named'
  BY <1>15, GotoMoves
  DEF CleanUp, Others, TypeOK, WorkerStates, State, IdleWorker, Owners, Named
<1>16. ASSUME NEW w \in Workers, ScheduleRetry(w) PROVE Named'
  BY <1>16, RestMoves
  DEF ScheduleRetry, Others, TypeOK, WorkerStates, State, IdleWorker, Owners, Named
<1>17. ASSUME NEW w \in Workers, TimeOut(w) PROVE Named'
  BY <1>17, TimeOutWorker
  DEF Others, TypeOK, WorkerStates, State, IdleWorker, Owners, Named
<1>18. ASSUME NEW w \in Workers, Stop(w) PROVE Named'
  BY <1>18, RestMoves
  DEF Stop, Fault, Others, TypeOK, WorkerStates, State, IdleWorker, Owners, Named
<1>19. CASE UNCHANGED vars
  BY <1>19 DEF vars, TypeOK, WorkerStates, State, IdleWorker, Owners, Named
<1>20. ASSUME NEW w \in Workers, RefuseBuild(w) PROVE Named'
  BY <1>20, RefuseMoves
  DEF Others, TypeOK, WorkerStates, State, IdleWorker, Owners, Named
<1>21. QED
  BY <1>1, <1>2, <1>3, <1>4, <1>5, <1>6, <1>7, <1>8, <1>9, <1>10, <1>11, <1>12,
     <1>13, <1>14, <1>15, <1>16, <1>17, <1>18, <1>19, <1>20
  DEF Next, ProjectNext, Work, Demand

LEMMA OneOwnerStep ==
  ASSUME IInv, TypeOK', [Next]_vars
  PROVE  OneOwner'
<1> USE TokenAssumption, RowFields, WorkerFields DEF IInv
<1>1. CASE Demand
  BY <1>1, DemandMoves DEF TypeOK, WorkerStates, State, IdleWorker, Owners, OneOwner
<1>2. CASE PushCode
  BY <1>2, PushMoves DEF TypeOK, WorkerStates, State, IdleWorker, Owners, OneOwner
<1>3. CASE LoseEvent
  BY <1>3, LoseMoves DEF TypeOK, WorkerStates, State, IdleWorker, Owners, OneOwner
<1>4. CASE ExpireLease
  BY <1>4, ExpireMoves
  DEF ExpireLease, Fault, TypeOK, WorkerStates, State, IdleWorker, Owners, OneOwner
<1>5. ASSUME NEW w \in Workers, FindWork(w) PROVE OneOwner'
  BY <1>5, FindMoves
  DEF Others, TypeOK, WorkerStates, State, IdleWorker, Owners, OneOwner
<1>6. ASSUME NEW w \in Workers, Claim(w) PROVE OneOwner'
  <2>1. PICK t \in Tokens : Claims(w, t)
    BY <1>6, ClaimTakes
  <2>2. QED
    BY <2>1, ClaimMoves
    DEF Others, TypeOK, WorkerStates, State, IdleWorker, Owners, OneOwner, Forgotten
<1>7. ASSUME NEW w \in Workers, LoseClaim(w) PROVE OneOwner'
  BY <1>7, RestMoves
  DEF LoseClaim, Others, TypeOK, WorkerStates, State, IdleWorker, Owners, OneOwner
<1>8. ASSUME NEW w \in Workers, ReadIssues(w) PROVE OneOwner'
  BY <1>8, ReadIssuesMoves
  DEF Others, TypeOK, WorkerStates, State, IdleWorker, Owners, OneOwner
<1>9. ASSUME NEW w \in Workers, ReadCode(w) PROVE OneOwner'
  BY <1>9, ReadCodeMoves
  DEF Others, TypeOK, WorkerStates, State, IdleWorker, Owners, OneOwner
<1>10. ASSUME NEW w \in Workers, CheckCurrent(w) PROVE OneOwner'
  BY <1>10, CheckMoves
  DEF Others, TypeOK, WorkerStates, State, IdleWorker, Owners, OneOwner
<1>11. ASSUME NEW w \in Workers, WriteSpace(w) PROVE OneOwner'
  <2>1. /\ Others(w)
        /\ worker'[w] = State("publish", worker[w].token, worker[w].gen, Absent,
                              worker[w].prior)
    BY <1>11, WriteSpaceMoves
  <2>2. worker'[w].token = worker[w].token
    BY <2>1 DEF State
  <2>3. QED
    BY <2>1, <2>2 DEF Others, Owners, OneOwner
<1>12. ASSUME NEW w \in Workers, Complete(w) PROVE OneOwner'
  BY <1>12, CompleteMoves
  DEF Others, TypeOK, WorkerStates, State, IdleWorker, Owners, OneOwner
<1>13. ASSUME NEW w \in Workers, DeletePrior(w) PROVE OneOwner'
  BY <1>13, RestMoves
  DEF DeletePrior, Prior, Others, TypeOK, WorkerStates, State, IdleWorker, Owners,
      OneOwner
<1>14. ASSUME NEW w \in Workers, Discard(w) PROVE OneOwner'
  BY <1>14, RestMoves
  DEF Discard, Others, TypeOK, WorkerStates, State, IdleWorker, Owners, OneOwner
<1>15. ASSUME NEW w \in Workers, CleanUp(w) PROVE OneOwner'
  BY <1>15, GotoMoves
  DEF CleanUp, Others, TypeOK, WorkerStates, State, IdleWorker, Owners, OneOwner
<1>16. ASSUME NEW w \in Workers, ScheduleRetry(w) PROVE OneOwner'
  BY <1>16, RestMoves
  DEF ScheduleRetry, Others, TypeOK, WorkerStates, State, IdleWorker, Owners,
      OneOwner
<1>17. ASSUME NEW w \in Workers, TimeOut(w) PROVE OneOwner'
  BY <1>17, TimeOutWorker
  DEF Others, TypeOK, WorkerStates, State, IdleWorker, Owners, OneOwner
<1>18. ASSUME NEW w \in Workers, Stop(w) PROVE OneOwner'
  BY <1>18, RestMoves
  DEF Stop, Fault, Others, TypeOK, WorkerStates, State, IdleWorker, Owners, OneOwner
<1>19. CASE UNCHANGED vars
  BY <1>19 DEF vars, TypeOK, WorkerStates, State, IdleWorker, Owners, OneOwner
<1>20. ASSUME NEW w \in Workers, RefuseBuild(w) PROVE OneOwner'
  BY <1>20, RefuseMoves
  DEF Others, TypeOK, WorkerStates, State, IdleWorker, Owners, OneOwner
<1>21. QED
  BY <1>1, <1>2, <1>3, <1>4, <1>5, <1>6, <1>7, <1>8, <1>9, <1>10, <1>11, <1>12,
     <1>13, <1>14, <1>15, <1>16, <1>17, <1>18, <1>19, <1>20
  DEF Next, ProjectNext, Work, Demand

LEMMA PublishedStep ==
  ASSUME IInv, TypeOK', [Next]_vars
  PROVE  PublishedIsDone'
<1> USE TokenAssumption, RowFields, WorkerFields DEF IInv
<1>1. CASE Demand
  BY <1>1, DemandMoves
  DEF TypeOK, WorkerStates, State, IdleWorker, Owners, OneOwner, PublishedIsDone
<1>2. CASE PushCode
  BY <1>2, PushMoves
  DEF TypeOK, WorkerStates, State, IdleWorker, Owners, OneOwner, PublishedIsDone
<1>3. CASE LoseEvent
  BY <1>3, LoseMoves
  DEF TypeOK, WorkerStates, State, IdleWorker, Owners, OneOwner, PublishedIsDone
<1>4. CASE ExpireLease
  BY <1>4, ExpireMoves
  DEF ExpireLease, Fault, TypeOK, WorkerStates, State, IdleWorker, Owners, OneOwner,
      PublishedIsDone
<1>5. ASSUME NEW w \in Workers, FindWork(w) PROVE PublishedIsDone'
  BY <1>5, FindMoves
  DEF Others, TypeOK, WorkerStates, State, IdleWorker, Owners, OneOwner,
      PublishedIsDone
<1>6. ASSUME NEW w \in Workers, Claim(w) PROVE PublishedIsDone'
  <2>1. PICK t \in Tokens : Claims(w, t)
    BY <1>6, ClaimTakes
  <2>2. QED
    BY <2>1, ClaimMoves
    DEF Others, TypeOK, WorkerStates, State, IdleWorker, Owners, OneOwner,
        PublishedIsDone, Forgotten, Rows
<1>7. ASSUME NEW w \in Workers, LoseClaim(w) PROVE PublishedIsDone'
  BY <1>7, RestMoves
  DEF LoseClaim, Others, TypeOK, WorkerStates, State, IdleWorker, Owners, OneOwner,
      PublishedIsDone
<1>8. ASSUME NEW w \in Workers, ReadIssues(w) PROVE PublishedIsDone'
  BY <1>8, ReadIssuesMoves
  DEF Others, TypeOK, WorkerStates, State, IdleWorker, Owners, OneOwner,
      PublishedIsDone
<1>9. ASSUME NEW w \in Workers, ReadCode(w) PROVE PublishedIsDone'
  BY <1>9, ReadCodeMoves
  DEF Others, TypeOK, WorkerStates, State, IdleWorker, Owners, OneOwner,
      PublishedIsDone
<1>10. ASSUME NEW w \in Workers, CheckCurrent(w) PROVE PublishedIsDone'
  BY <1>10, CheckMoves
  DEF Others, TypeOK, WorkerStates, State, IdleWorker, Owners, OneOwner,
      PublishedIsDone
<1>11. ASSUME NEW w \in Workers, WriteSpace(w) PROVE PublishedIsDone'
  BY <1>11, WriteSpaceMoves
  DEF Others, TypeOK, WorkerStates, State, IdleWorker, Owners, OneOwner,
      PublishedIsDone
<1>12. ASSUME NEW w \in Workers, Complete(w) PROVE PublishedIsDone'
  BY <1>12, CompleteMoves
  DEF Others, TypeOK, WorkerStates, State, IdleWorker, Owners, OneOwner,
      PublishedIsDone
<1>13. ASSUME NEW w \in Workers, DeletePrior(w) PROVE PublishedIsDone'
  BY <1>13, RestMoves, DeleteMoves
  DEF DeletePrior, Prior, Others, TypeOK, WorkerStates, State, IdleWorker, Owners,
      OneOwner, PublishedIsDone
<1>14. ASSUME NEW w \in Workers, Discard(w) PROVE PublishedIsDone'
  BY <1>14, RestMoves, DeleteMoves
  DEF Discard, Others, TypeOK, WorkerStates, State, IdleWorker, Owners, OneOwner,
      PublishedIsDone
<1>15. ASSUME NEW w \in Workers, CleanUp(w) PROVE PublishedIsDone'
  BY <1>15, GotoMoves, DeleteMoves
  DEF CleanUp, Others, TypeOK, WorkerStates, State, IdleWorker, Owners, OneOwner,
      PublishedIsDone
<1>16. ASSUME NEW w \in Workers, ScheduleRetry(w) PROVE PublishedIsDone'
  BY <1>16, RestMoves, RetryMoves
  DEF ScheduleRetry, Others, TypeOK, WorkerStates, State, IdleWorker, Owners,
      OneOwner, PublishedIsDone
<1>17. ASSUME NEW w \in Workers, TimeOut(w) PROVE PublishedIsDone'
  BY <1>17, TimeOutWorker
  DEF Others, TypeOK, WorkerStates, State, IdleWorker, Owners, OneOwner,
      PublishedIsDone
<1>18. ASSUME NEW w \in Workers, Stop(w) PROVE PublishedIsDone'
  BY <1>18, RestMoves
  DEF Stop, Fault, Others, TypeOK, WorkerStates, State, IdleWorker, Owners,
      OneOwner, PublishedIsDone
<1>19. CASE UNCHANGED vars
  BY <1>19
  DEF vars, TypeOK, WorkerStates, State, IdleWorker, Owners, OneOwner,
      PublishedIsDone
<1>20. ASSUME NEW w \in Workers, RefuseBuild(w) PROVE PublishedIsDone'
  BY <1>20, RefuseMoves
  DEF Others, TypeOK, WorkerStates, State, IdleWorker, Owners, OneOwner,
      PublishedIsDone
<1>21. QED
  BY <1>1, <1>2, <1>3, <1>4, <1>5, <1>6, <1>7, <1>8, <1>9, <1>10, <1>11, <1>12,
     <1>13, <1>14, <1>15, <1>16, <1>17, <1>18, <1>19, <1>20
  DEF Next, ProjectNext, Work, Demand

LEMMA PriorStep ==
  ASSUME IInv, TypeOK', [Next]_vars
  PROVE  PriorIsDone'
<1> USE TokenAssumption, RowFields, WorkerFields DEF IInv
<1>1. CASE Demand
  BY <1>1, DemandMoves
  DEF TypeOK, WorkerStates, State, IdleWorker, Owners, PublishedIsDone, PriorIsDone
<1>2. CASE PushCode
  BY <1>2, PushMoves
  DEF TypeOK, WorkerStates, State, IdleWorker, Owners, PublishedIsDone, PriorIsDone
<1>3. CASE LoseEvent
  BY <1>3, LoseMoves
  DEF TypeOK, WorkerStates, State, IdleWorker, Owners, PublishedIsDone, PriorIsDone
<1>4. CASE ExpireLease
  BY <1>4, ExpireMoves
  DEF ExpireLease, Fault, TypeOK, WorkerStates, State, IdleWorker, Owners,
      PublishedIsDone, PriorIsDone
<1>5. ASSUME NEW w \in Workers, FindWork(w) PROVE PriorIsDone'
  BY <1>5, FindMoves
  DEF Others, TypeOK, WorkerStates, State, IdleWorker, Owners, PublishedIsDone,
      PriorIsDone
<1>6. ASSUME NEW w \in Workers, Claim(w) PROVE PriorIsDone'
  <2>1. PICK t \in Tokens : Claims(w, t)
    BY <1>6, ClaimTakes
  <2>2. QED
    BY <2>1, ClaimMoves
    DEF Others, TypeOK, WorkerStates, State, IdleWorker, Owners, PublishedIsDone,
        PriorIsDone, Forgotten, Rows
<1>7. ASSUME NEW w \in Workers, LoseClaim(w) PROVE PriorIsDone'
  BY <1>7, RestMoves
  DEF LoseClaim, Others, TypeOK, WorkerStates, State, IdleWorker, Owners,
      PublishedIsDone, PriorIsDone
<1>8. ASSUME NEW w \in Workers, ReadIssues(w) PROVE PriorIsDone'
  BY <1>8, ReadIssuesMoves
  DEF Others, TypeOK, WorkerStates, State, IdleWorker, Owners, PublishedIsDone,
      PriorIsDone
<1>9. ASSUME NEW w \in Workers, ReadCode(w) PROVE PriorIsDone'
  BY <1>9, ReadCodeMoves
  DEF Others, TypeOK, WorkerStates, State, IdleWorker, Owners, PublishedIsDone,
      PriorIsDone
<1>10. ASSUME NEW w \in Workers, CheckCurrent(w) PROVE PriorIsDone'
  BY <1>10, CheckMoves
  DEF Others, TypeOK, WorkerStates, State, IdleWorker, Owners, PublishedIsDone,
      PriorIsDone
<1>11. ASSUME NEW w \in Workers, WriteSpace(w) PROVE PriorIsDone'
  BY <1>11, WriteSpaceMoves
  DEF Others, TypeOK, WorkerStates, State, IdleWorker, Owners, PublishedIsDone,
      PriorIsDone
<1>12. ASSUME NEW w \in Workers, Complete(w) PROVE PriorIsDone'
  BY <1>12, CompleteMoves
  DEF Others, TypeOK, WorkerStates, State, IdleWorker, Owners, PublishedIsDone,
      PriorIsDone
<1>13. ASSUME NEW w \in Workers, DeletePrior(w) PROVE PriorIsDone'
  BY <1>13, RestMoves, DeleteMoves
  DEF DeletePrior, Prior, Others, TypeOK, WorkerStates, State, IdleWorker, Owners,
      PublishedIsDone, PriorIsDone
<1>14. ASSUME NEW w \in Workers, Discard(w) PROVE PriorIsDone'
  BY <1>14, RestMoves, DeleteMoves
  DEF Discard, Others, TypeOK, WorkerStates, State, IdleWorker, Owners,
      PublishedIsDone, PriorIsDone
<1>15. ASSUME NEW w \in Workers, CleanUp(w) PROVE PriorIsDone'
  BY <1>15, GotoMoves, DeleteMoves
  DEF CleanUp, Others, TypeOK, WorkerStates, State, IdleWorker, Owners,
      PublishedIsDone, PriorIsDone
<1>16. ASSUME NEW w \in Workers, ScheduleRetry(w) PROVE PriorIsDone'
  BY <1>16, RestMoves, RetryMoves
  DEF ScheduleRetry, Others, TypeOK, WorkerStates, State, IdleWorker, Owners,
      PublishedIsDone, PriorIsDone
<1>17. ASSUME NEW w \in Workers, TimeOut(w) PROVE PriorIsDone'
  BY <1>17, TimeOutWorker
  DEF Others, TypeOK, WorkerStates, State, IdleWorker, Owners, PublishedIsDone,
      PriorIsDone
<1>18. ASSUME NEW w \in Workers, Stop(w) PROVE PriorIsDone'
  BY <1>18, RestMoves
  DEF Stop, Fault, Others, TypeOK, WorkerStates, State, IdleWorker, Owners,
      PublishedIsDone, PriorIsDone
<1>19. CASE UNCHANGED vars
  BY <1>19
  DEF vars, TypeOK, WorkerStates, State, IdleWorker, Owners, PublishedIsDone,
      PriorIsDone
<1>20. ASSUME NEW w \in Workers, RefuseBuild(w) PROVE PriorIsDone'
  BY <1>20, RefuseMoves
  DEF Others, TypeOK, WorkerStates, State, IdleWorker, Owners,
      PublishedIsDone, PriorIsDone
<1>21. QED
  BY <1>1, <1>2, <1>3, <1>4, <1>5, <1>6, <1>7, <1>8, <1>9, <1>10, <1>11, <1>12,
     <1>13, <1>14, <1>15, <1>16, <1>17, <1>18, <1>19, <1>20
  DEF Next, ProjectNext, Work, Demand

LEMMA ObsoleteStep ==
  ASSUME IInv, TypeOK', [Next]_vars
  PROVE  PriorIsObsolete'
<1> USE TokenAssumption, RowFields, WorkerFields DEF IInv
<1>1. CASE Demand
  BY <1>1, DemandMoves
  DEF TypeOK, WorkerStates, State, IdleWorker, Owners, Named, PublishedIsDone,
      PriorIsDone, PriorIsObsolete
<1>2. CASE PushCode
  BY <1>2, PushMoves
  DEF TypeOK, WorkerStates, State, IdleWorker, Owners, Named, PublishedIsDone,
      PriorIsDone, PriorIsObsolete
<1>3. CASE LoseEvent
  BY <1>3, LoseMoves
  DEF TypeOK, WorkerStates, State, IdleWorker, Owners, Named, PublishedIsDone,
      PriorIsDone, PriorIsObsolete
<1>4. CASE ExpireLease
  BY <1>4, ExpireMoves
  DEF ExpireLease, Fault, TypeOK, WorkerStates, State, IdleWorker, Owners, Named,
      PublishedIsDone, PriorIsDone, PriorIsObsolete
<1>5. ASSUME NEW w \in Workers, FindWork(w) PROVE PriorIsObsolete'
  BY <1>5, FindMoves
  DEF Others, TypeOK, WorkerStates, State, IdleWorker, Owners, Named,
      PublishedIsDone, PriorIsDone, PriorIsObsolete
<1>6. ASSUME NEW w \in Workers, Claim(w) PROVE PriorIsObsolete'
  <2>1. PICK t \in Tokens : Claims(w, t)
    BY <1>6, ClaimTakes
  <2>2. QED
    BY <2>1, ClaimMoves
    DEF Others, TypeOK, WorkerStates, State, IdleWorker, Owners, Named,
        PublishedIsDone, PriorIsDone, PriorIsObsolete, Forgotten, Rows
<1>7. ASSUME NEW w \in Workers, LoseClaim(w) PROVE PriorIsObsolete'
  BY <1>7, RestMoves
  DEF LoseClaim, Others, TypeOK, WorkerStates, State, IdleWorker, Owners, Named,
      PublishedIsDone, PriorIsDone, PriorIsObsolete
<1>8. ASSUME NEW w \in Workers, ReadIssues(w) PROVE PriorIsObsolete'
  BY <1>8, ReadIssuesMoves
  DEF Others, TypeOK, WorkerStates, State, IdleWorker, Owners, Named,
      PublishedIsDone, PriorIsDone, PriorIsObsolete
<1>9. ASSUME NEW w \in Workers, ReadCode(w) PROVE PriorIsObsolete'
  BY <1>9, ReadCodeMoves
  DEF Others, TypeOK, WorkerStates, State, IdleWorker, Owners, Named,
      PublishedIsDone, PriorIsDone, PriorIsObsolete
<1>10. ASSUME NEW w \in Workers, CheckCurrent(w) PROVE PriorIsObsolete'
  BY <1>10, CheckMoves
  DEF Others, TypeOK, WorkerStates, State, IdleWorker, Owners, Named,
      PublishedIsDone, PriorIsDone, PriorIsObsolete
<1>11. ASSUME NEW w \in Workers, WriteSpace(w) PROVE PriorIsObsolete'
  BY <1>11, WriteSpaceMoves
  DEF Others, TypeOK, WorkerStates, State, IdleWorker, Owners, Named,
      PublishedIsDone, PriorIsDone, PriorIsObsolete
<1>12. ASSUME NEW w \in Workers, Complete(w) PROVE PriorIsObsolete'
  BY <1>12, CompleteMoves
  DEF Others, TypeOK, WorkerStates, State, IdleWorker, Owners, Named,
      PublishedIsDone, PriorIsDone, PriorIsObsolete
<1>13. ASSUME NEW w \in Workers, DeletePrior(w) PROVE PriorIsObsolete'
  BY <1>13, RestMoves, DeleteMoves
  DEF DeletePrior, Prior, Others, TypeOK, WorkerStates, State, IdleWorker, Owners,
      Named, PublishedIsDone, PriorIsDone, PriorIsObsolete
<1>14. ASSUME NEW w \in Workers, Discard(w) PROVE PriorIsObsolete'
  BY <1>14, RestMoves, DeleteMoves
  DEF Discard, Others, TypeOK, WorkerStates, State, IdleWorker, Owners, Named,
      PublishedIsDone, PriorIsDone, PriorIsObsolete
<1>15. ASSUME NEW w \in Workers, CleanUp(w) PROVE PriorIsObsolete'
  BY <1>15, GotoMoves, DeleteMoves
  DEF CleanUp, Others, TypeOK, WorkerStates, State, IdleWorker, Owners, Named,
      PublishedIsDone, PriorIsDone, PriorIsObsolete
<1>16. ASSUME NEW w \in Workers, ScheduleRetry(w) PROVE PriorIsObsolete'
  BY <1>16, RestMoves, RetryMoves
  DEF ScheduleRetry, Others, TypeOK, WorkerStates, State, IdleWorker, Owners, Named,
      PublishedIsDone, PriorIsDone, PriorIsObsolete
<1>17. ASSUME NEW w \in Workers, TimeOut(w) PROVE PriorIsObsolete'
  BY <1>17, TimeOutWorker
  DEF Others, TypeOK, WorkerStates, State, IdleWorker, Owners, Named,
      PublishedIsDone, PriorIsDone, PriorIsObsolete
<1>18. ASSUME NEW w \in Workers, Stop(w) PROVE PriorIsObsolete'
  BY <1>18, RestMoves
  DEF Stop, Fault, Others, TypeOK, WorkerStates, State, IdleWorker, Owners, Named,
      PublishedIsDone, PriorIsDone, PriorIsObsolete
<1>19. CASE UNCHANGED vars
  BY <1>19
  DEF vars, TypeOK, WorkerStates, State, IdleWorker, Owners, Named, PublishedIsDone,
      PriorIsDone, PriorIsObsolete
<1>20. ASSUME NEW w \in Workers, RefuseBuild(w) PROVE PriorIsObsolete'
  BY <1>20, RefuseMoves
  DEF Others, TypeOK, WorkerStates, State, IdleWorker, Owners, Named,
      PublishedIsDone, PriorIsDone, PriorIsObsolete
<1>21. QED
  BY <1>1, <1>2, <1>3, <1>4, <1>5, <1>6, <1>7, <1>8, <1>9, <1>10, <1>11, <1>12,
     <1>13, <1>14, <1>15, <1>16, <1>17, <1>18, <1>19, <1>20
  DEF Next, ProjectNext, Work, Demand

\* Order of contents.
LEMMA LeqFacts ==
  /\ \A a, b, c \in Docs : Leq(a, b) /\ Leq(b, c) => Leq(a, c)
  /\ \A a \in Docs : Leq(a, a)
  /\ \A a \in Content : Leq(Absent, a)
  /\ Content \subseteq Docs /\ Absent \in Docs
  /\ \A a \in Docs : \A b \in Content : Leq(b, a) => a \in Content /\ a # Absent
  /\ Empty \in Content
BY DEF Leq, Docs, Content, Absent, Empty, Parts

LEMMA BelowAskedStep ==
  ASSUME IInv, TypeOK', [Next]_vars
  PROVE  BelowAsked'
<1> USE TokenAssumption, RowFields, WorkerFields, LeqFacts DEF IInv
<1>1. CASE Demand
  BY <1>1, DemandMoves
  DEF TypeOK, WorkerStates, State, IdleWorker, Below, BelowAsked, BelowSpace,
      BelowDocs
<1>2. CASE PushCode
  BY <1>2, PushMoves
  DEF TypeOK, WorkerStates, State, IdleWorker, Below, BelowAsked, BelowSpace,
      BelowDocs
<1>3. CASE LoseEvent
  BY <1>3, LoseMoves
  DEF TypeOK, WorkerStates, State, IdleWorker, Below, BelowAsked, BelowSpace,
      BelowDocs
<1>4. CASE ExpireLease
  BY <1>4, ExpireMoves
  DEF ExpireLease, Fault, TypeOK, WorkerStates, State, IdleWorker, Below,
      BelowAsked, BelowSpace, BelowDocs
<1>5. ASSUME NEW w \in Workers, FindWork(w) PROVE BelowAsked'
  BY <1>5, FindMoves
  DEF Others, TypeOK, WorkerStates, State, IdleWorker, Below, BelowAsked,
      BelowSpace, BelowDocs
<1>6. ASSUME NEW w \in Workers, Claim(w) PROVE BelowAsked'
  <2>1. PICK t \in Tokens : Claims(w, t)
    BY <1>6, ClaimTakes
  <2>2. QED
    BY <2>1, ClaimMoves
    DEF Others, TypeOK, WorkerStates, State, IdleWorker, Below, BelowAsked,
        BelowSpace, BelowDocs
<1>7. ASSUME NEW w \in Workers, LoseClaim(w) PROVE BelowAsked'
  BY <1>7, RestMoves
  DEF LoseClaim, Others, TypeOK, WorkerStates, State, IdleWorker, Below, BelowAsked,
      BelowSpace, BelowDocs
<1>8. ASSUME NEW w \in Workers, ReadIssues(w) PROVE BelowAsked'
  BY <1>8, ReadIssuesMoves
  DEF Others, TypeOK, WorkerStates, State, IdleWorker, Below, BelowAsked,
      BelowSpace, BelowDocs
<1>9. ASSUME NEW w \in Workers, ReadCode(w) PROVE BelowAsked'
  BY <1>9, ReadCodeMoves
  DEF Others, TypeOK, WorkerStates, State, IdleWorker, Below, BelowAsked,
      BelowSpace, BelowDocs
<1>10. ASSUME NEW w \in Workers, CheckCurrent(w) PROVE BelowAsked'
  BY <1>10, CheckMoves
  DEF Others, TypeOK, WorkerStates, State, IdleWorker, Below, BelowAsked,
      BelowSpace, BelowDocs
<1>11. ASSUME NEW w \in Workers, WriteSpace(w) PROVE BelowAsked'
  BY <1>11, WriteSpaceMoves
  DEF Others, TypeOK, WorkerStates, State, IdleWorker, Below, BelowAsked,
      BelowSpace, BelowDocs
<1>12. ASSUME NEW w \in Workers, Complete(w) PROVE BelowAsked'
  BY <1>12, CompleteMoves
  DEF Others, TypeOK, WorkerStates, State, IdleWorker, Below, BelowAsked,
      BelowSpace, BelowDocs
<1>13. ASSUME NEW w \in Workers, DeletePrior(w) PROVE BelowAsked'
  BY <1>13, RestMoves
  DEF DeletePrior, Prior, Others, TypeOK, WorkerStates, State, IdleWorker, Below,
      BelowAsked, BelowSpace, BelowDocs
<1>14. ASSUME NEW w \in Workers, Discard(w) PROVE BelowAsked'
  BY <1>14, RestMoves
  DEF Discard, Others, TypeOK, WorkerStates, State, IdleWorker, Below, BelowAsked,
      BelowSpace, BelowDocs
<1>15. ASSUME NEW w \in Workers, CleanUp(w) PROVE BelowAsked'
  BY <1>15, GotoMoves
  DEF CleanUp, Others, TypeOK, WorkerStates, State, IdleWorker, Below, BelowAsked,
      BelowSpace, BelowDocs
<1>16. ASSUME NEW w \in Workers, ScheduleRetry(w) PROVE BelowAsked'
  BY <1>16, RestMoves
  DEF ScheduleRetry, Others, TypeOK, WorkerStates, State, IdleWorker, Below,
      BelowAsked, BelowSpace, BelowDocs
<1>17. ASSUME NEW w \in Workers, TimeOut(w) PROVE BelowAsked'
  BY <1>17, TimeOutWorker
  DEF Others, TypeOK, WorkerStates, State, IdleWorker, Below, BelowAsked,
      BelowSpace, BelowDocs
<1>18. ASSUME NEW w \in Workers, Stop(w) PROVE BelowAsked'
  BY <1>18, RestMoves
  DEF Stop, Fault, Others, TypeOK, WorkerStates, State, IdleWorker, Below,
      BelowAsked, BelowSpace, BelowDocs
<1>19. CASE UNCHANGED vars
  BY <1>19
  DEF vars, TypeOK, WorkerStates, State, IdleWorker, Below, BelowAsked, BelowSpace,
      BelowDocs
<1>20. ASSUME NEW w \in Workers, RefuseBuild(w) PROVE BelowAsked'
  BY <1>20, RefuseMoves
  DEF Others, TypeOK, WorkerStates, State, IdleWorker, Below, BelowAsked,
      BelowSpace, BelowDocs
<1>21. QED
  BY <1>1, <1>2, <1>3, <1>4, <1>5, <1>6, <1>7, <1>8, <1>9, <1>10, <1>11, <1>12,
     <1>13, <1>14, <1>15, <1>16, <1>17, <1>18, <1>19, <1>20
  DEF Next, ProjectNext, Work, Demand

LEMMA BelowSpaceStep ==
  ASSUME IInv, TypeOK', [Next]_vars
  PROVE  BelowSpace'
<1> USE TokenAssumption, RowFields, WorkerFields, LeqFacts DEF IInv
<1>1. CASE Demand
  BY <1>1, DemandMoves
  DEF TypeOK, WorkerStates, State, IdleWorker, Below, BelowAsked, BelowSpace,
      BelowDocs
<1>2. CASE PushCode
  BY <1>2, PushMoves
  DEF TypeOK, WorkerStates, State, IdleWorker, Below, BelowAsked, BelowSpace,
      BelowDocs
<1>3. CASE LoseEvent
  BY <1>3, LoseMoves
  DEF TypeOK, WorkerStates, State, IdleWorker, Below, BelowAsked, BelowSpace,
      BelowDocs
<1>4. CASE ExpireLease
  BY <1>4, ExpireMoves
  DEF ExpireLease, Fault, TypeOK, WorkerStates, State, IdleWorker, Below,
      BelowAsked, BelowSpace, BelowDocs
<1>5. ASSUME NEW w \in Workers, FindWork(w) PROVE BelowSpace'
  BY <1>5, FindMoves
  DEF Others, TypeOK, WorkerStates, State, IdleWorker, Below, BelowAsked,
      BelowSpace, BelowDocs
<1>6. ASSUME NEW w \in Workers, Claim(w) PROVE BelowSpace'
  <2>1. PICK t \in Tokens : Claims(w, t)
    BY <1>6, ClaimTakes
  <2>2. QED
    BY <2>1, ClaimMoves
    DEF Others, TypeOK, WorkerStates, State, IdleWorker, Below, BelowAsked,
        BelowSpace, BelowDocs
<1>7. ASSUME NEW w \in Workers, LoseClaim(w) PROVE BelowSpace'
  BY <1>7, RestMoves
  DEF LoseClaim, Others, TypeOK, WorkerStates, State, IdleWorker, Below, BelowAsked,
      BelowSpace, BelowDocs
<1>8. ASSUME NEW w \in Workers, ReadIssues(w) PROVE BelowSpace'
  BY <1>8, ReadIssuesMoves
  DEF Others, TypeOK, WorkerStates, State, IdleWorker, Below, BelowAsked,
      BelowSpace, BelowDocs
<1>9. ASSUME NEW w \in Workers, ReadCode(w) PROVE BelowSpace'
  BY <1>9, ReadCodeMoves
  DEF Others, TypeOK, WorkerStates, State, IdleWorker, Below, BelowAsked,
      BelowSpace, BelowDocs
<1>10. ASSUME NEW w \in Workers, CheckCurrent(w) PROVE BelowSpace'
  BY <1>10, CheckMoves
  DEF Others, TypeOK, WorkerStates, State, IdleWorker, Below, BelowAsked,
      BelowSpace, BelowDocs
<1>11. ASSUME NEW w \in Workers, WriteSpace(w) PROVE BelowSpace'
  BY <1>11, WriteSpaceMoves
  DEF Others, TypeOK, WorkerStates, State, IdleWorker, Below, BelowAsked,
      BelowSpace, BelowDocs
<1>12. ASSUME NEW w \in Workers, Complete(w) PROVE BelowSpace'
  BY <1>12, CompleteMoves
  DEF Others, TypeOK, WorkerStates, State, IdleWorker, Below, BelowAsked,
      BelowSpace, BelowDocs
<1>13. ASSUME NEW w \in Workers, DeletePrior(w) PROVE BelowSpace'
  <2>1. data' = data /\ Delete(Prior(w))
    BY <1>13 DEF DeletePrior
  <2>2. QED
    BY <2>1, DeleteMoves DEF Below, BelowAsked, BelowSpace, BelowDocs, TypeOK
<1>14. ASSUME NEW w \in Workers, Discard(w) PROVE BelowSpace'
  <2>1. data' = data /\ Delete(worker[w].token)
    BY <1>14 DEF Discard
  <2>2. QED
    BY <2>1, DeleteMoves DEF Below, BelowAsked, BelowSpace, BelowDocs, TypeOK
<1>15. ASSUME NEW w \in Workers, CleanUp(w) PROVE BelowSpace'
  BY <1>15, DeleteMoves
  DEF CleanUp, Others, TypeOK, WorkerStates, State, IdleWorker, Below, BelowAsked,
      BelowSpace, BelowDocs
<1>16. ASSUME NEW w \in Workers, ScheduleRetry(w) PROVE BelowSpace'
  BY <1>16, RestMoves, RetryMoves
  DEF ScheduleRetry, Others, TypeOK, WorkerStates, State, IdleWorker, Below,
      BelowAsked, BelowSpace, BelowDocs
<1>17. ASSUME NEW w \in Workers, TimeOut(w) PROVE BelowSpace'
  <2>1. /\ data' = data /\ space' \in [Tokens -> Docs]
        /\ \A t \in Tokens : space'[t] \in {space[t], worker[w].docs}
    BY <1>17, TimeOutMoves
  <2>2. Leq(worker[w].docs, data) /\ \A t \in Tokens : Leq(space[t], data)
    BY DEF Below, BelowSpace, BelowDocs
  <2>3. QED
    BY <2>1, <2>2 DEF BelowSpace
<1>18. ASSUME NEW w \in Workers, Stop(w) PROVE BelowSpace'
  BY <1>18, RestMoves
  DEF Stop, Fault, Others, TypeOK, WorkerStates, State, IdleWorker, Below,
      BelowAsked, BelowSpace, BelowDocs
<1>19. CASE UNCHANGED vars
  BY <1>19
  DEF vars, TypeOK, WorkerStates, State, IdleWorker, Below, BelowAsked, BelowSpace,
      BelowDocs
<1>20. ASSUME NEW w \in Workers, RefuseBuild(w) PROVE BelowSpace'
  BY <1>20, RefuseMoves
  DEF Others, TypeOK, WorkerStates, State, IdleWorker, Below, BelowAsked,
      BelowSpace, BelowDocs
<1>21. QED
  BY <1>1, <1>2, <1>3, <1>4, <1>5, <1>6, <1>7, <1>8, <1>9, <1>10, <1>11, <1>12,
     <1>13, <1>14, <1>15, <1>16, <1>17, <1>18, <1>19, <1>20
  DEF Next, ProjectNext, Work, Demand

LEMMA BelowDocsStep ==
  ASSUME IInv, TypeOK', [Next]_vars
  PROVE  BelowDocs'
<1> USE TokenAssumption, RowFields, WorkerFields, LeqFacts DEF IInv
<1>1. CASE Demand
  BY <1>1, DemandMoves
  DEF TypeOK, WorkerStates, State, IdleWorker, Below, BelowAsked, BelowSpace,
      BelowDocs
<1>2. CASE PushCode
  BY <1>2, PushMoves
  DEF TypeOK, WorkerStates, State, IdleWorker, Below, BelowAsked, BelowSpace,
      BelowDocs
<1>3. CASE LoseEvent
  BY <1>3, LoseMoves
  DEF TypeOK, WorkerStates, State, IdleWorker, Below, BelowAsked, BelowSpace,
      BelowDocs
<1>4. CASE ExpireLease
  BY <1>4, ExpireMoves
  DEF ExpireLease, Fault, TypeOK, WorkerStates, State, IdleWorker, Below,
      BelowAsked, BelowSpace, BelowDocs
<1>5. ASSUME NEW w \in Workers, FindWork(w) PROVE BelowDocs'
  BY <1>5, FindMoves
  DEF Others, TypeOK, WorkerStates, State, IdleWorker, Below, BelowAsked,
      BelowSpace, BelowDocs
<1>6. ASSUME NEW w \in Workers, Claim(w) PROVE BelowDocs'
  <2>1. PICK t \in Tokens : Claims(w, t)
    BY <1>6, ClaimTakes
  <2>2. /\ data' = data /\ Others(w)
        /\ worker'[w] = State("issues", t, worker[w].gen, worker[w].docs,
                               worker[w].prior)
    BY <2>1, ClaimMoves
  <2>3. worker'[w].docs = worker[w].docs
    BY <2>2 DEF State
  <2>4. QED
    BY <2>2, <2>3 DEF Others, Below, BelowDocs
<1>7. ASSUME NEW w \in Workers, LoseClaim(w) PROVE BelowDocs'
  BY <1>7, RestMoves
  DEF LoseClaim, Others, TypeOK, WorkerStates, State, IdleWorker, Below, BelowAsked,
      BelowSpace, BelowDocs
<1>8. ASSUME NEW w \in Workers, ReadIssues(w) PROVE BelowDocs'
  <2>1. Leq(worker'[w].docs, data)
    BY <1>8, ReadIssuesMoves DEF Leq, Parts, Below, BelowDocs, TypeOK, Content
  <2>2. QED
    BY <1>8, <2>1, ReadIssuesMoves DEF Below, BelowDocs, Others
<1>9. ASSUME NEW w \in Workers, ReadCode(w) PROVE BelowDocs'
  <2>1. Leq(worker'[w].docs, data)
    BY <1>9, ReadCodeMoves DEF Leq, Parts, Below, BelowDocs, TypeOK, Content
  <2>2. QED
    BY <1>9, <2>1, ReadCodeMoves DEF Below, BelowDocs, Others
<1>10. ASSUME NEW w \in Workers, CheckCurrent(w) PROVE BelowDocs'
  BY <1>10, CheckMoves
  DEF Others, TypeOK, WorkerStates, State, IdleWorker, Below, BelowAsked,
      BelowSpace, BelowDocs
<1>11. ASSUME NEW w \in Workers, WriteSpace(w) PROVE BelowDocs'
  BY <1>11, WriteSpaceMoves
  DEF Others, TypeOK, WorkerStates, State, IdleWorker, Below, BelowAsked,
      BelowSpace, BelowDocs
<1>12. ASSUME NEW w \in Workers, Complete(w) PROVE BelowDocs'
  BY <1>12, CompleteMoves
  DEF Others, TypeOK, WorkerStates, State, IdleWorker, Below, BelowAsked,
      BelowSpace, BelowDocs
<1>13. ASSUME NEW w \in Workers, DeletePrior(w) PROVE BelowDocs'
  <2>1. data' = data /\ Rest(w)
    BY <1>13 DEF DeletePrior
  <2>2. worker'[w].docs = Absent /\ Others(w)
    BY <2>1, RestMoves DEF IdleWorker
  <2>3. QED
    BY <2>1, <2>2 DEF Others, Below, BelowAsked, BelowSpace, BelowDocs, TypeOK
<1>14. ASSUME NEW w \in Workers, Discard(w) PROVE BelowDocs'
  <2>1. data' = data /\ Rest(w)
    BY <1>14 DEF Discard
  <2>2. worker'[w].docs = Absent /\ Others(w)
    BY <2>1, RestMoves DEF IdleWorker
  <2>3. QED
    BY <2>1, <2>2 DEF Others, Below, BelowAsked, BelowSpace, BelowDocs, TypeOK
<1>15. ASSUME NEW w \in Workers, CleanUp(w) PROVE BelowDocs'
  BY <1>15, GotoMoves
  DEF CleanUp, Others, TypeOK, WorkerStates, State, IdleWorker, Below, BelowAsked,
      BelowSpace, BelowDocs
<1>16. ASSUME NEW w \in Workers, ScheduleRetry(w) PROVE BelowDocs'
  BY <1>16, RestMoves
  DEF ScheduleRetry, Others, TypeOK, WorkerStates, State, IdleWorker, Below,
      BelowAsked, BelowSpace, BelowDocs
<1>17. ASSUME NEW w \in Workers, TimeOut(w) PROVE BelowDocs'
  BY <1>17, TimeOutWorker
  DEF Others, TypeOK, WorkerStates, State, IdleWorker, Below, BelowAsked,
      BelowSpace, BelowDocs
<1>18. ASSUME NEW w \in Workers, Stop(w) PROVE BelowDocs'
  BY <1>18, RestMoves
  DEF Stop, Fault, Others, TypeOK, WorkerStates, State, IdleWorker, Below,
      BelowAsked, BelowSpace, BelowDocs
<1>19. CASE UNCHANGED vars
  BY <1>19
  DEF vars, TypeOK, WorkerStates, State, IdleWorker, Below, BelowAsked, BelowSpace,
      BelowDocs
<1>20. ASSUME NEW w \in Workers, RefuseBuild(w) PROVE BelowDocs'
  BY <1>20, RefuseMoves
  DEF Others, TypeOK, WorkerStates, State, IdleWorker, Below, BelowAsked,
      BelowSpace, BelowDocs
<1>21. QED
  BY <1>1, <1>2, <1>3, <1>4, <1>5, <1>6, <1>7, <1>8, <1>9, <1>10, <1>11, <1>12,
     <1>13, <1>14, <1>15, <1>16, <1>17, <1>18, <1>19, <1>20
  DEF Next, ProjectNext, Work, Demand

LEMMA RowStays ==
  ASSUME IInv, TypeOK', [Next]_vars
  PROVE  RowKept \/ Finishes
<1> USE TokenAssumption, RowFields, WorkerFields DEF IInv
<1>1. CASE Demand
  BY <1>1, DemandMoves
  DEF RowKept, TypeOK, Rows, Generations, Owners, Named, OneOwner, PublishedIsDone,
      PriorIsDone, PriorIsObsolete
<1>2. CASE PushCode
  BY <1>2, PushMoves
  DEF RowKept, TypeOK, Rows, Generations, Owners, Named, OneOwner, PublishedIsDone,
      PriorIsDone, PriorIsObsolete
<1>3. CASE LoseEvent
  BY <1>3, LoseMoves
  DEF RowKept, TypeOK, Rows, Generations, Owners, Named, OneOwner, PublishedIsDone,
      PriorIsDone, PriorIsObsolete
<1>4. CASE ExpireLease
  BY <1>4, ExpireMoves
  DEF ExpireLease, Fault, RowKept, TypeOK, Rows, Generations, Owners, Named,
      OneOwner, PublishedIsDone, PriorIsDone, PriorIsObsolete
<1>5. ASSUME NEW w \in Workers, FindWork(w) PROVE RowKept \/ Finishes
  BY <1>5, FindMoves
  DEF Others, RowKept, TypeOK, Rows, Generations, Owners, Named, OneOwner,
      PublishedIsDone, PriorIsDone, PriorIsObsolete
<1>6. ASSUME NEW w \in Workers, Claim(w) PROVE RowKept \/ Finishes
  <2>1. PICK t \in Tokens : Claims(w, t)
    BY <1>6, ClaimTakes
  <2>2. QED
    BY <2>1, ClaimMoves
    DEF Others, RowKept, TypeOK, Rows, Generations, Owners, Named, OneOwner,
        PublishedIsDone, PriorIsDone, PriorIsObsolete, Forgotten
<1>7. ASSUME NEW w \in Workers, LoseClaim(w) PROVE RowKept \/ Finishes
  BY <1>7, RestMoves
  DEF LoseClaim, Others, RowKept, TypeOK, Rows, Generations, Owners, Named,
      OneOwner, PublishedIsDone, PriorIsDone, PriorIsObsolete
<1>8. ASSUME NEW w \in Workers, ReadIssues(w) PROVE RowKept \/ Finishes
  BY <1>8, ReadIssuesMoves
  DEF Others, RowKept, TypeOK, Rows, Generations, Owners, Named, OneOwner,
      PublishedIsDone, PriorIsDone, PriorIsObsolete
<1>9. ASSUME NEW w \in Workers, ReadCode(w) PROVE RowKept \/ Finishes
  BY <1>9, ReadCodeMoves
  DEF Others, RowKept, TypeOK, Rows, Generations, Owners, Named, OneOwner,
      PublishedIsDone, PriorIsDone, PriorIsObsolete
<1>10. ASSUME NEW w \in Workers, CheckCurrent(w) PROVE RowKept \/ Finishes
  BY <1>10, CheckMoves
  DEF Others, RowKept, TypeOK, Rows, Generations, Owners, Named, OneOwner,
      PublishedIsDone, PriorIsDone, PriorIsObsolete
<1>11. ASSUME NEW w \in Workers, WriteSpace(w) PROVE RowKept \/ Finishes
  BY <1>11, WriteSpaceMoves
  DEF Others, RowKept, TypeOK, Rows, Generations, Owners, Named, OneOwner,
      PublishedIsDone, PriorIsDone, PriorIsObsolete
<1>12. ASSUME NEW w \in Workers, Complete(w) PROVE RowKept \/ Finishes
  <2>1. CASE row' = row
    BY <2>1 DEF RowKept, Generations
  <2>2. CASE row' # row
    BY <1>12, <2>2, CompleteMoves DEF Finishes
  <2>3. QED
    BY <2>1, <2>2
<1>13. ASSUME NEW w \in Workers, DeletePrior(w) PROVE RowKept \/ Finishes
  BY <1>13, RestMoves, DeleteMoves
  DEF DeletePrior, Prior, Others, RowKept, TypeOK, Rows, Generations, Owners, Named,
      OneOwner, PublishedIsDone, PriorIsDone, PriorIsObsolete
<1>14. ASSUME NEW w \in Workers, Discard(w) PROVE RowKept \/ Finishes
  BY <1>14, RestMoves, DeleteMoves
  DEF Discard, Others, RowKept, TypeOK, Rows, Generations, Owners, Named, OneOwner,
      PublishedIsDone, PriorIsDone, PriorIsObsolete
<1>15. ASSUME NEW w \in Workers, CleanUp(w) PROVE RowKept \/ Finishes
  BY <1>15, GotoMoves, DeleteMoves
  DEF CleanUp, Others, RowKept, TypeOK, Rows, Generations, Owners, Named, OneOwner,
      PublishedIsDone, PriorIsDone, PriorIsObsolete
<1>16. ASSUME NEW w \in Workers, ScheduleRetry(w) PROVE RowKept \/ Finishes
  BY <1>16, RestMoves, RetryMoves
  DEF ScheduleRetry, Others, RowKept, TypeOK, Rows, Generations, Owners, Named,
      OneOwner, PublishedIsDone, PriorIsDone, PriorIsObsolete
<1>17. ASSUME NEW w \in Workers, TimeOut(w) PROVE RowKept \/ Finishes
  BY <1>17, TimeOutMoves
  DEF Others, RowKept, TypeOK, Rows, Generations, Owners, Named, OneOwner,
      PublishedIsDone, PriorIsDone, PriorIsObsolete
<1>18. ASSUME NEW w \in Workers, Stop(w) PROVE RowKept \/ Finishes
  BY <1>18, RestMoves
  DEF Stop, Fault, Others, RowKept, TypeOK, Rows, Generations, Owners, Named,
      OneOwner, PublishedIsDone, PriorIsDone, PriorIsObsolete
<1>19. CASE UNCHANGED vars
  BY <1>19
  DEF vars, RowKept, TypeOK, Rows, Generations, Owners, Named, OneOwner,
      PublishedIsDone, PriorIsDone, PriorIsObsolete
<1>20. ASSUME NEW w \in Workers, RefuseBuild(w) PROVE RowKept \/ Finishes
  BY <1>20, RefuseMoves
  DEF Others, RowKept, TypeOK, Rows, Generations, Owners, Named,
      OneOwner, PublishedIsDone, PriorIsDone, PriorIsObsolete
<1>21. QED
  BY <1>1, <1>2, <1>3, <1>4, <1>5, <1>6, <1>7, <1>8, <1>9, <1>10, <1>11, <1>12,
     <1>13, <1>14, <1>15, <1>16, <1>17, <1>18, <1>19, <1>20
  DEF Next, ProjectNext, Work, Demand

LEMMA PublishedStays ==
  ASSUME IInv, TypeOK', [Next]_vars
  PROVE  PublishedKept
<1> USE TokenAssumption, RowFields, WorkerFields DEF IInv
<1>1. CASE Demand
  BY <1>1, DemandMoves
  DEF PublishedKept, TypeOK, WorkerStates, State, Owners, Named, OneOwner,
      PublishedIsDone, PriorIsDone, PriorIsObsolete
<1>2. CASE PushCode
  BY <1>2, PushMoves
  DEF PublishedKept, TypeOK, WorkerStates, State, Owners, Named, OneOwner,
      PublishedIsDone, PriorIsDone, PriorIsObsolete
<1>3. CASE LoseEvent
  BY <1>3, LoseMoves
  DEF PublishedKept, TypeOK, WorkerStates, State, Owners, Named, OneOwner,
      PublishedIsDone, PriorIsDone, PriorIsObsolete
<1>4. CASE ExpireLease
  BY <1>4, ExpireMoves
  DEF ExpireLease, Fault, PublishedKept, TypeOK, WorkerStates, State, Owners, Named,
      OneOwner, PublishedIsDone, PriorIsDone, PriorIsObsolete
<1>5. ASSUME NEW w \in Workers, FindWork(w) PROVE PublishedKept
  BY <1>5, FindMoves
  DEF Others, PublishedKept, TypeOK, WorkerStates, State, Owners, Named, OneOwner,
      PublishedIsDone, PriorIsDone, PriorIsObsolete
<1>6. ASSUME NEW w \in Workers, Claim(w) PROVE PublishedKept
  <2>1. PICK t \in Tokens : Claims(w, t)
    BY <1>6, ClaimTakes
  <2>2. QED
    BY <2>1, ClaimMoves
    DEF Others, PublishedKept, TypeOK, WorkerStates, State, Owners, Named, OneOwner,
        PublishedIsDone, PriorIsDone, PriorIsObsolete
<1>7. ASSUME NEW w \in Workers, LoseClaim(w) PROVE PublishedKept
  BY <1>7, RestMoves
  DEF LoseClaim, Others, PublishedKept, TypeOK, WorkerStates, State, Owners, Named,
      OneOwner, PublishedIsDone, PriorIsDone, PriorIsObsolete
<1>8. ASSUME NEW w \in Workers, ReadIssues(w) PROVE PublishedKept
  BY <1>8, ReadIssuesMoves
  DEF Others, PublishedKept, TypeOK, WorkerStates, State, Owners, Named, OneOwner,
      PublishedIsDone, PriorIsDone, PriorIsObsolete
<1>9. ASSUME NEW w \in Workers, ReadCode(w) PROVE PublishedKept
  BY <1>9, ReadCodeMoves
  DEF Others, PublishedKept, TypeOK, WorkerStates, State, Owners, Named, OneOwner,
      PublishedIsDone, PriorIsDone, PriorIsObsolete
<1>10. ASSUME NEW w \in Workers, CheckCurrent(w) PROVE PublishedKept
  BY <1>10, CheckMoves
  DEF Others, PublishedKept, TypeOK, WorkerStates, State, Owners, Named, OneOwner,
      PublishedIsDone, PriorIsDone, PriorIsObsolete
<1>11. ASSUME NEW w \in Workers, WriteSpace(w) PROVE PublishedKept
  BY <1>11, WriteSpaceMoves
  DEF Others, PublishedKept, TypeOK, WorkerStates, State, Owners, Named, OneOwner,
      PublishedIsDone, PriorIsDone, PriorIsObsolete
<1>12. ASSUME NEW w \in Workers, Complete(w) PROVE PublishedKept
  BY <1>12, CompleteMoves
  DEF Others, PublishedKept, TypeOK, WorkerStates, State, Owners, Named, OneOwner,
      PublishedIsDone, PriorIsDone, PriorIsObsolete
<1>13. ASSUME NEW w \in Workers, DeletePrior(w) PROVE PublishedKept
  BY <1>13, RestMoves, DeleteMoves
  DEF DeletePrior, Prior, Others, PublishedKept, TypeOK, WorkerStates, State,
      Owners, Named, OneOwner, PublishedIsDone, PriorIsDone, PriorIsObsolete
<1>14. ASSUME NEW w \in Workers, Discard(w) PROVE PublishedKept
  BY <1>14, RestMoves, DeleteMoves
  DEF Discard, Others, PublishedKept, TypeOK, WorkerStates, State, Owners, Named,
      OneOwner, PublishedIsDone, PriorIsDone, PriorIsObsolete
<1>15. ASSUME NEW w \in Workers, CleanUp(w) PROVE PublishedKept
  BY <1>15, GotoMoves, DeleteMoves
  DEF CleanUp, Others, PublishedKept, TypeOK, WorkerStates, State, Owners, Named,
      OneOwner, PublishedIsDone, PriorIsDone, PriorIsObsolete
<1>16. ASSUME NEW w \in Workers, ScheduleRetry(w) PROVE PublishedKept
  BY <1>16, RestMoves, RetryMoves
  DEF ScheduleRetry, Others, PublishedKept, TypeOK, WorkerStates, State, Owners,
      Named, OneOwner, PublishedIsDone, PriorIsDone, PriorIsObsolete
<1>17. ASSUME NEW w \in Workers, TimeOut(w) PROVE PublishedKept
  BY <1>17, TimeOutMoves
  DEF Others, PublishedKept, TypeOK, WorkerStates, State, Owners, Named, OneOwner,
      PublishedIsDone, PriorIsDone, PriorIsObsolete
<1>18. ASSUME NEW w \in Workers, Stop(w) PROVE PublishedKept
  BY <1>18, RestMoves
  DEF Stop, Fault, Others, PublishedKept, TypeOK, WorkerStates, State, Owners,
      Named, OneOwner, PublishedIsDone, PriorIsDone, PriorIsObsolete
<1>19. CASE UNCHANGED vars
  BY <1>19
  DEF vars, PublishedKept, TypeOK, WorkerStates, State, Owners, Named, OneOwner,
      PublishedIsDone, PriorIsDone, PriorIsObsolete
<1>20. ASSUME NEW w \in Workers, RefuseBuild(w) PROVE PublishedKept
  BY <1>20, RefuseMoves
  DEF Others, PublishedKept, TypeOK, WorkerStates, State, Owners, Named,
      OneOwner, PublishedIsDone, PriorIsDone, PriorIsObsolete
<1>21. QED
  BY <1>1, <1>2, <1>3, <1>4, <1>5, <1>6, <1>7, <1>8, <1>9, <1>10, <1>11, <1>12,
     <1>13, <1>14, <1>15, <1>16, <1>17, <1>18, <1>19, <1>20
  DEF Next, ProjectNext, Work, Demand

LEMMA StepCases ==
  ASSUME IInv, TypeOK', [Next]_vars
  PROVE  \A v \in Workers : StepOf(v)
<1> USE TokenAssumption, RowFields, WorkerFields DEF IInv
<1>1. CASE Demand
  BY <1>1, DemandMoves
  DEF StepOf, Kept, TypeOK, WorkerStates, State, IdleWorker, Early, Generations,
      Owners, Named, OneOwner, PublishedIsDone, PriorIsDone, PriorIsObsolete
<1>2. CASE PushCode
  BY <1>2, PushMoves
  DEF StepOf, Kept, TypeOK, WorkerStates, State, IdleWorker, Early, Generations,
      Owners, Named, OneOwner, PublishedIsDone, PriorIsDone, PriorIsObsolete
<1>3. CASE LoseEvent
  BY <1>3, LoseMoves
  DEF StepOf, Kept, TypeOK, WorkerStates, State, IdleWorker, Early, Generations,
      Owners, Named, OneOwner, PublishedIsDone, PriorIsDone, PriorIsObsolete
<1>4. CASE ExpireLease
  BY <1>4, ExpireMoves
  DEF ExpireLease, Fault, StepOf, Kept, TypeOK, WorkerStates, State, IdleWorker,
      Early, Generations, Owners, Named, OneOwner, PublishedIsDone, PriorIsDone,
      PriorIsObsolete
<1>5. ASSUME NEW w \in Workers, FindWork(w) PROVE \A v \in Workers : StepOf(v)
  BY <1>5, FindMoves
  DEF Others, StepOf, Kept, TypeOK, WorkerStates, State, IdleWorker, Early,
      Generations, Owners, Named, OneOwner, PublishedIsDone, PriorIsDone,
      PriorIsObsolete
<1>6. ASSUME NEW w \in Workers, Claim(w) PROVE \A v \in Workers : StepOf(v)
  <2>1. PICK t \in Tokens : Claims(w, t)
    BY <1>6, ClaimTakes
  <2>2. QED
    BY <2>1, ClaimMoves
    DEF Others, StepOf, Kept, TypeOK, WorkerStates, State, IdleWorker, Early,
        Generations, Owners, Named, OneOwner, PublishedIsDone, PriorIsDone,
        PriorIsObsolete
<1>7. ASSUME NEW w \in Workers, LoseClaim(w) PROVE \A v \in Workers : StepOf(v)
  BY <1>7, RestMoves
  DEF LoseClaim, Others, StepOf, Kept, TypeOK, WorkerStates, State, IdleWorker,
      Early, Generations, Owners, Named, OneOwner, PublishedIsDone, PriorIsDone,
      PriorIsObsolete
<1>8. ASSUME NEW w \in Workers, ReadIssues(w) PROVE \A v \in Workers : StepOf(v)
  BY <1>8, ReadIssuesMoves
  DEF Others, StepOf, Kept, TypeOK, WorkerStates, State, IdleWorker, Early,
      Generations, Owners, Named, OneOwner, PublishedIsDone, PriorIsDone,
      PriorIsObsolete
<1>9. ASSUME NEW w \in Workers, ReadCode(w) PROVE \A v \in Workers : StepOf(v)
  BY <1>9, ReadCodeMoves
  DEF Others, StepOf, Kept, TypeOK, WorkerStates, State, IdleWorker, Early,
      Generations, Owners, Named, OneOwner, PublishedIsDone, PriorIsDone,
      PriorIsObsolete
<1>10. ASSUME NEW w \in Workers, CheckCurrent(w) PROVE \A v \in Workers : StepOf(v)
  BY <1>10, CheckMoves
  DEF Others, StepOf, Kept, TypeOK, WorkerStates, State, IdleWorker, Early,
      Generations, Owners, Named, OneOwner, PublishedIsDone, PriorIsDone,
      PriorIsObsolete
<1>11. ASSUME NEW w \in Workers, WriteSpace(w) PROVE \A v \in Workers : StepOf(v)
  BY <1>11, WriteSpaceMoves
  DEF Others, StepOf, Kept, TypeOK, WorkerStates, State, IdleWorker, Early,
      Generations, Owners, Named, OneOwner, PublishedIsDone, PriorIsDone,
      PriorIsObsolete
<1>12. ASSUME NEW w \in Workers, Complete(w) PROVE \A v \in Workers : StepOf(v)
  BY <1>12, CompleteMoves
  DEF Others, StepOf, Kept, TypeOK, WorkerStates, State, IdleWorker, Early,
      Generations, Owners, Named, OneOwner, PublishedIsDone, PriorIsDone,
      PriorIsObsolete
<1>13. ASSUME NEW w \in Workers, DeletePrior(w) PROVE \A v \in Workers : StepOf(v)
  BY <1>13, RestMoves, DeleteMoves
  DEF DeletePrior, Prior, Others, StepOf, Kept, TypeOK, WorkerStates, State,
      IdleWorker, Early, Generations, Owners, Named, OneOwner, PublishedIsDone,
      PriorIsDone, PriorIsObsolete
<1>14. ASSUME NEW w \in Workers, Discard(w) PROVE \A v \in Workers : StepOf(v)
  BY <1>14, RestMoves, DeleteMoves
  DEF Discard, Others, StepOf, Kept, TypeOK, WorkerStates, State, IdleWorker, Early,
      Generations, Owners, Named, OneOwner, PublishedIsDone, PriorIsDone,
      PriorIsObsolete
<1>15. ASSUME NEW w \in Workers, CleanUp(w) PROVE \A v \in Workers : StepOf(v)
  BY <1>15, GotoMoves, DeleteMoves
  DEF CleanUp, Others, StepOf, Kept, TypeOK, WorkerStates, State, IdleWorker, Early,
      Generations, Owners, Named, OneOwner, PublishedIsDone, PriorIsDone,
      PriorIsObsolete
<1>16. ASSUME NEW w \in Workers, ScheduleRetry(w) PROVE \A v \in Workers : StepOf(v)
  BY <1>16, RestMoves, RetryMoves
  DEF ScheduleRetry, Others, StepOf, Kept, TypeOK, WorkerStates, State, IdleWorker,
      Early, Generations, Owners, Named, OneOwner, PublishedIsDone, PriorIsDone,
      PriorIsObsolete
<1>17. ASSUME NEW w \in Workers, TimeOut(w) PROVE \A v \in Workers : StepOf(v)
  <2> SUFFICES ASSUME NEW v \in Workers PROVE StepOf(v)
    OBVIOUS
  <2>1. CASE v = w
    <3>1. worker'[v] = State("cleanup", worker[v].token, worker[v].gen, Absent,
                             worker[v].prior)
      BY <1>17, <2>1, TimeOutWorker
    <3>2. QED
      BY <3>1 DEF StepOf, State, Early
  <2>2. CASE v # w
    <3>1. worker[v].pc = "publish" => worker[v].token \in Tokens \ {worker[w].token}
      BY <2>2 DEF Owners, OneOwner, Named
    <3>2. QED
      BY <1>17, <2>2, <3>1, TimeOutMoves DEF Others, StepOf, Kept
  <2>3. QED
    BY <2>1, <2>2
<1>18. ASSUME NEW w \in Workers, Stop(w) PROVE \A v \in Workers : StepOf(v)
  BY <1>18, RestMoves
  DEF Stop, Fault, Others, StepOf, Kept, TypeOK, WorkerStates, State, IdleWorker,
      Early, Generations, Owners, Named, OneOwner, PublishedIsDone, PriorIsDone,
      PriorIsObsolete
<1>19. CASE UNCHANGED vars
  BY <1>19
  DEF vars, StepOf, Kept, TypeOK, WorkerStates, State, IdleWorker, Early,
      Generations, Owners, Named, OneOwner, PublishedIsDone, PriorIsDone,
      PriorIsObsolete
<1>20. ASSUME NEW w \in Workers, RefuseBuild(w) PROVE \A v \in Workers : StepOf(v)
  BY <1>20, RefuseMoves
  DEF Others, StepOf, Kept, TypeOK, WorkerStates, State, IdleWorker,
      Early, Generations, Owners, Named, OneOwner, PublishedIsDone, PriorIsDone,
      PriorIsObsolete
<1>21. QED
  BY <1>1, <1>2, <1>3, <1>4, <1>5, <1>6, <1>7, <1>8, <1>9, <1>10, <1>11, <1>12,
     <1>13, <1>14, <1>15, <1>16, <1>17, <1>18, <1>19, <1>20
  DEF Next, ProjectNext, Work, Demand


\* A record that is not changed covers what it has covered, with the part that
\* is read or written taking the place of the one before.
LEMMA CoversFacts ==
  /\ \A s, x, c : s.pc \in Early => Covers(s, x, c)
  /\ \A s, x, y, c : s.pc # "publish" /\ Covers(s, x, c) => Covers(s, y, c)
BY DEF Covers, Early

\* The worker goes on reading and writing what is at least as new as c.
GoesOn(v) ==
  \/ Kept(v) \/ ReadIssues(v) \/ ReadCode(v) \/ WriteSpace(v)
  \/ CheckCurrent(v) /\ worker'[v].pc = "write"

LEMMA GoesOnNames ==
  ASSUME TypeOK, NEW v \in Workers, GoesOn(v)
  PROVE  worker'[v].gen = worker[v].gen /\ worker'[v].token = worker[v].token
<1>1. CASE Kept(v)
  BY <1>1 DEF Kept
<1>2. CASE ReadIssues(v) \/ ReadCode(v)
  BY <1>2, ReadIssuesMoves, ReadCodeMoves
<1>3. CASE WriteSpace(v)
  <2>1. worker'[v] = State("publish", worker[v].token, worker[v].gen, Absent,
                           worker[v].prior)
    BY <1>3, WriteSpaceMoves
  <2>2. QED
    BY <2>1 DEF State
<1>4. CASE CheckCurrent(v) /\ worker'[v].pc = "write"
  <2>1. worker'[v] = State("write", worker[v].token, worker[v].gen, worker[v].docs,
                           row.published)
    BY <1>4, CheckMoves DEF IdleWorker
  <2>2. QED
    BY <2>1 DEF State
<1>5. QED
  BY <1>1, <1>2, <1>3, <1>4 DEF GoesOn

LEMMA CoversStays ==
  ASSUME IInv, TypeOK', NEW v \in Workers, GoesOn(v), NEW c \in Content,
         Leq(c, data), Covers(worker[v], space[worker[v].token], c)
  PROVE  Covers(worker'[v], space'[worker'[v].token], c)
<1> USE DEF IInv
<1>1. CASE Kept(v)
  BY <1>1 DEF Kept, Covers
<1>2. CASE ReadIssues(v)
  BY <1>2, ReadIssuesMoves DEF Covers, Leq, Parts
<1>3. CASE ReadCode(v)
  BY <1>3, ReadCodeMoves DEF Covers, Leq, Parts
<1>4. CASE WriteSpace(v)
  <2>1. worker[v].token \in Tokens
    BY <1>4, WriteSpaceMoves, WorkerFields DEF Owners, Named
  <2>2. /\ worker[v].pc = "write" /\ space'[worker[v].token] = worker[v].docs
        /\ worker'[v] = State("publish", worker[v].token, worker[v].gen, Absent,
                              worker[v].prior)
    BY <1>4, <2>1, WriteSpaceMoves
  <2>3. Leq(c, worker[v].docs)
    BY <2>2 DEF Covers, Leq, Parts
  <2>4. QED
    BY <2>2, <2>3 DEF Covers, State
<1>5. CASE CheckCurrent(v) /\ worker'[v].pc = "write"
  <2>1. /\ worker[v].pc = "check"
        /\ worker'[v] = State("write", worker[v].token, worker[v].gen,
                              worker[v].docs, row.published)
    BY <1>5, CheckMoves DEF IdleWorker
  <2>2. QED
    BY <1>5, <2>1 DEF Covers, State
<1>6. QED
  BY <1>1, <1>2, <1>3, <1>4, <1>5 DEF GoesOn

\* Only the next generation is given a content.
LEMMA AskedStays ==
  ASSUME IInv, TypeOK', [Next]_vars, NEW g \in Generations, g <= row.requested
  PROVE  asked'[g] = asked[g]
<1>1. CASE Demand
  BY <1>1, DemandMoves, RowFields DEF IInv, Generations
<1>2. CASE ~Demand
  BY <1>2 DEF Next, ProjectNext, Work, Demand, PushCode, LoseEvent, ExpireLease, FindWork,
     Claim, LoseClaim, ReadIssues, ReadCode, ReadPart, RefuseBuild, CheckCurrent,
     WriteSpace, Complete, DeletePrior, Discard, CleanUp, ScheduleRetry, TimeOut, Stop,
     vars
<1>3. QED
  BY <1>1, <1>2

LEMMA FreshStep ==
  ASSUME IInv, TypeOK', [Next]_vars
  PROVE  Fresh'
<1> SUFFICES ASSUME NEW v \in Workers
    PROVE  /\ worker'[v].gen <= row'.requested
           /\ Covers(worker'[v], space'[worker'[v].token], asked'[worker'[v].gen])
  BY DEF Fresh
<1> DEFINE g == worker[v].gen
<1>1. g \in Generations /\ g <= row.requested /\ row.requested <= row'.requested
      /\ row.requested \in Generations /\ row'.requested \in Generations
  <2>1. row.requested <= row'.requested
    BY RowStays, RowFields DEF RowKept, Finishes, IInv, Generations
  <2>2. QED
    BY <2>1, WorkerFields, RowFields DEF IInv, Fresh, TypeOK, Rows
<1>2. CASE worker'[v].pc \in Early /\ worker'[v].gen \in {g, row.requested, 0}
  <2>1. worker'[v].gen <= row'.requested
    BY <1>1, <1>2 DEF Generations
  <2>2. QED
    BY <1>2, <2>1, CoversFacts
<1>3. CASE GoesOn(v)
  <2>1. asked'[g] = asked[g] /\ asked[g] \in Content /\ Leq(asked[g], data)
    BY <1>1, AskedStays DEF IInv, TypeOK, Below, BelowAsked, BelowSpace, BelowDocs
  <2>2. /\ Covers(worker'[v], space'[worker'[v].token], asked[g])
        /\ worker'[v].gen = g
    BY <1>3, <2>1, CoversStays, GoesOnNames DEF IInv, Fresh
  <2>3. worker'[v].gen <= row'.requested
    BY <1>1, <2>2 DEF Generations
  <2>4. QED
    BY <2>1, <2>2, <2>3
<1>4. QED
  BY <1>2, <1>3, StepCases DEF StepOf, GoesOn

\* Queries see what they have seen, unless a worker finishes.
LEMMA VisibleStays ==
  ASSUME IInv, TypeOK', [Next]_vars, row'.published = row.published
  PROVE  Visible' = Visible
BY PublishedStays DEF PublishedKept, Visible

LEMMA VisibleType ==
  ASSUME IInv
  PROVE  Visible \in Content /\ Leq(Visible, data)
<1>1. asked[row.completed] \in Content
  BY RowFields DEF IInv, TypeOK
<1>2. CASE row.published = NoToken
  BY <1>2, LeqFacts DEF Visible, IInv, TypeOK, Leq, Empty, Content, Parts
<1>3. CASE row.published # NoToken
  <2>1. row.published \in Tokens
    BY <1>3, RowFields DEF IInv
  <2>2. Visible \in Docs /\ Leq(Visible, data)
    BY <1>3, <2>1 DEF Visible, IInv, TypeOK, Below, BelowAsked, BelowSpace, BelowDocs
  <2>3. Leq(asked[row.completed], Visible)
    BY DEF IInv, NotPendingIsFresh, Leq
  <2>4. QED
    BY <1>1, <2>2, <2>3, LeqFacts
<1>4. QED
  BY <1>2, <1>3

LEMMA AheadStep ==
  ASSUME IInv, TypeOK', [Next]_vars
  PROVE  Ahead'
<1> SUFFICES ASSUME NEW v \in Workers,
                    row'.lease = worker'[v].token, row'.lease # NoToken
    PROVE  Covers(worker'[v], space'[worker'[v].token], Visible')
  BY DEF Ahead
<1>1. CASE worker'[v].pc \in Early
  BY <1>1, CoversFacts
<1>2. CASE GoesOn(v)
  <2>1. worker'[v].token = worker[v].token
    BY <1>2, GoesOnNames DEF IInv
  <2>2. RowKept /\ row'.published = row.published
    BY RowStays DEF RowKept, Finishes
  <2>3. row.lease = worker[v].token /\ row.lease # NoToken
    BY <2>1, <2>2, WorkerFields, TokenAssumption DEF RowKept, IInv
  <2>4. Covers(worker[v], space[worker[v].token], Visible)
    BY <2>3 DEF IInv, Ahead
  <2>5. QED
    BY <1>2, <2>2, <2>4, VisibleStays, VisibleType, CoversStays
<1>3. QED
  BY <1>1, <1>2, StepCases DEF StepOf, GoesOn

\* What a worker with the lease has written when it finishes.
LEMMA FinishMoves ==
  ASSUME IInv, Finishes
  PROVE  \E w \in Workers :
           /\ row'.completed = worker[w].gen /\ row'.published = worker[w].token
           /\ worker[w].token \in Tokens
           /\ Visible' = space[worker[w].token]
           /\ Leq(asked[worker[w].gen], space[worker[w].token])
           /\ Leq(Visible, space[worker[w].token])
           /\ UNCHANGED <<data, asked>>
<1>1. PICK w \in Workers :
        /\ Complete(w) /\ Holds(w) /\ row'.completed = worker[w].gen
        /\ row'.published = worker[w].token
  BY DEF Finishes
<1>2. worker[w].pc = "publish" /\ UNCHANGED <<data, asked, space>>
  BY <1>1 DEF Complete
<1>3. worker[w].token \in Tokens /\ worker[w].token # NoToken
  BY <1>2, WorkerFields, TokenAssumption DEF IInv, Owners, Named
<1>4. Covers(worker[w], space[worker[w].token], asked[worker[w].gen])
  BY DEF IInv, Fresh
<1>5. Covers(worker[w], space[worker[w].token], Visible)
  BY <1>1, <1>3 DEF IInv, Ahead, Holds
<1>6. Visible' = space[worker[w].token]
  BY <1>1, <1>2, <1>3 DEF Visible
<1>7. QED
  BY <1>1, <1>2, <1>3, <1>4, <1>5, <1>6 DEF Covers

LEMMA FreshVisibleStep ==
  ASSUME IInv, TypeOK', [Next]_vars
  PROVE  NotPendingIsFresh'
<1> SUFFICES Leq(asked'[row'.completed], Visible')
  BY DEF NotPendingIsFresh, Leq
<1>1. CASE RowKept
  <2>1. Visible' = Visible
    BY <1>1, VisibleStays DEF RowKept
  <2>2. row'.completed = row.completed /\ row.completed \in Generations
        /\ row.completed <= row.requested
    BY <1>1, RowFields DEF RowKept, IInv, TypeOK
  <2>3. asked'[row.completed] = asked[row.completed]
    BY <2>2, AskedStays
  <2>4. QED
    BY <2>1, <2>2, <2>3 DEF IInv, NotPendingIsFresh, Leq
<1>2. CASE Finishes
  BY <1>2, FinishMoves
<1>3. QED
  BY <1>1, <1>2, RowStays


-----------------------------------------------------------------------------
\* The theorems.

LEMMA InitIInv == Init => IInv
<1> SUFFICES ASSUME Init PROVE IInv
  OBVIOUS
<1> USE SearchAssumption, TokenAssumption DEF Init
<1>1. TypeOK
  BY IdleType, LeqFacts DEF TypeOK, Rows, Generations, Content, Empty, Parts
<1>2. Below
  <2>1. Leq(Empty, Empty) /\ Leq(Absent, Empty)
    BY LeqFacts
  <2>2. /\ \A g \in Generations : asked[g] = Empty
        /\ \A t \in Tokens : space[t] = Absent
        /\ \A w \in Workers : worker[w].docs = Absent
    BY DEF Generations, IdleWorker
  <2>3. QED
    BY <2>1, <2>2 DEF Below, BelowAsked, BelowSpace, BelowDocs
<1>3. Owners
  BY DEF Owners, Named, OneOwner, PublishedIsDone, PriorIsDone, PriorIsObsolete,
         IdleWorker
<1>4. Fresh
  BY DEF Fresh, Covers, IdleWorker
<1>5. Ahead /\ NotPendingIsFresh
  BY DEF Ahead, NotPendingIsFresh, Visible, Generations, Empty, Parts
<1>6. QED
  BY <1>1, <1>2, <1>3, <1>4, <1>5 DEF IInv

LEMMA NextIInv == IInv /\ [Next]_vars => IInv'
<1> SUFFICES ASSUME IInv, [Next]_vars PROVE IInv'
  OBVIOUS
<1>1. TypeOK'
  BY TypeStep DEF IInv
<1>2. Below'
  BY <1>1, BelowAskedStep, BelowSpaceStep, BelowDocsStep DEF Below
<1>3. Owners'
  BY <1>1, NamedStep, OneOwnerStep, PublishedStep, PriorStep, ObsoleteStep DEF Owners
<1>4. QED
  BY <1>1, <1>2, <1>3, FreshStep, AheadStep, FreshVisibleStep DEF IInv

THEOREM Invariance == Spec => []IInv
BY InitIInv, NextIInv, PTL DEF Spec

\* The types of the row, the engine and the workers, for every number of
\* workers, names, generations and faults.
THEOREM TypeCorrect == Spec => []TypeOK
<1>1. IInv => TypeOK
  BY DEF IInv
<1>2. QED
  BY <1>1, Invariance, PTL

\* What has_pending calls done can be found: a generation counts as done only
\* with a content read after it was requested.
THEOREM DoneIsFresh == Spec => []NotPendingIsFresh
<1>1. IInv => NotPendingIsFresh
  BY DEF IInv
<1>2. QED
  BY <1>1, Invariance, PTL

\* The published namespace is never deleted and never a part of one.
THEOREM PublishedIsThere == Spec => []PublishedIsStored
<1>1. IInv => PublishedIsStored
  <2> SUFFICES ASSUME IInv, row.published # NoToken PROVE space[row.published] # Absent
    BY DEF PublishedIsStored
  <2>1. Visible \in Content /\ Visible = space[row.published]
    BY VisibleType DEF Visible
  <2>2. Absent \notin Content
    BY DEF Absent, Content, Parts
  <2>3. QED
    BY <2>1, <2>2
<1>2. QED
  BY <1>1, Invariance, PTL

\* Every step of the index.
LEMMA StepImplements ==
  ASSUME IInv, IInv', [Next]_vars
  PROVE  [Index!Next]_<<data, Visible>>
<1>1. CASE Finishes
  <2>1. PICK w \in Workers :
          /\ Visible' = space[worker[w].token] /\ worker[w].token \in Tokens
          /\ Leq(Visible, space[worker[w].token]) /\ UNCHANGED data
    BY <1>1, FinishMoves
  <2>2. Visible' \in Content /\ Leq(Visible, Visible') /\ Leq(Visible', data)
    <3>1. Leq(Visible', data)
      BY <2>1 DEF IInv, Below, BelowSpace
    <3>2. Visible' \in Docs /\ Visible \in Content
      BY <2>1, VisibleType DEF IInv, TypeOK
    <3>3. Leq(Visible, Visible')
      BY <2>1
    <3>4. QED
      BY <3>1, <3>2, <3>3, LeqFacts
  <2>3. Index!Publish
    BY <2>1, <2>2 DEF Index!Publish, Content, Leq
  <2>4. QED
    BY <2>3 DEF Index!Next
<1>2. CASE RowKept
  <2>1. Visible' = Visible
    BY <1>2, VisibleStays DEF RowKept, IInv
  <2>2. CASE WriteIssue
    <3>1. Index!Change
      BY <2>1, <2>2 DEF WriteIssue, Index!Change, Parts
    <3>2. QED
      BY <3>1 DEF Index!Next
  <2>3. CASE PushCode
    <3>1. Index!Change
      BY <2>1, <2>3 DEF PushCode, Index!Change, Parts
    <3>2. QED
      BY <3>1 DEF Index!Next
  <2>4. CASE ~WriteIssue /\ ~PushCode
    <3>1. data' = data
      BY <2>4 DEF Next, ProjectNext, Work, MarkEvent, Reconcile, LoseEvent, ExpireLease,
         FindWork, Claim, LoseClaim, ReadIssues, ReadCode, ReadPart, RefuseBuild,
         CheckCurrent, WriteSpace, Complete, DeletePrior, Discard, CleanUp, ScheduleRetry, TimeOut,
         Stop, vars
    <3>2. QED
      BY <2>1, <3>1
  <2>5. QED
    BY <2>2, <2>3, <2>4
<1>3. QED
  BY <1>1, <1>2, RowStays DEF IInv

\* Row, engine and workers implement the index: queries never go back.
THEOREM Implements == Spec => ImplementsIndex
<1>1. Init => Index!Init
  BY DEF Init, Index!Init, Visible, Empty
<1>2. QED
  BY <1>1, StepImplements, Invariance, PTL DEF Spec, ImplementsIndex, Index!Spec

=============================================================================
