----------------------------- MODULE MergeDecision -----------------------------
(***************************************************************************)
(* What a merge promises, without branches, locks, retries or failures: an *)
(* operation is bound to one merge request, is decided at most once, and   *)
(* the database records that decision and no other.  A merge request has   *)
(* one open operation at a time and is merged by at most one of them.      *)
(***************************************************************************)
CONSTANTS Ops, MRs, Commits, Rejected, Nothing, NoMR

VARIABLES
  owner,     \* owner[o]: the merge request operation o belongs to
  decision,  \* decision[o]: the commit o merged, or Rejected
  recorded,  \* operations whose decision the database has
  merged     \* merged[m]: the commit of merge request m

vars == <<owner, decision, recorded, merged>>

Init ==
  /\ owner = [o \in Ops |-> NoMR]
  /\ decision = [o \in Ops |-> Nothing]
  /\ recorded = {}
  /\ merged = [m \in MRs |-> Nothing]

Bind(o, m) ==
  /\ owner[o] = NoMR /\ merged[m] = Nothing
  /\ \A p \in Ops : owner[p] = m => p \in recorded
  /\ owner' = [owner EXCEPT ![o] = m]
  /\ UNCHANGED <<decision, recorded, merged>>

Decide(o, outcome) ==
  /\ owner[o] # NoMR /\ decision[o] = Nothing
  /\ decision' = [decision EXCEPT ![o] = outcome]
  /\ UNCHANGED <<owner, recorded, merged>>

\* The decision may be one that only the target branch shows: it is decided
\* and recorded at once then.
Record(o, outcome) ==
  /\ owner[o] # NoMR /\ o \notin recorded
  /\ decision[o] = outcome \/ (decision[o] = Nothing /\ outcome # Rejected)
  /\ decision' = [decision EXCEPT ![o] = outcome]
  /\ recorded' = recorded \cup {o}
  /\ merged' = IF outcome = Rejected THEN merged
               ELSE [merged EXCEPT ![owner[o]] = outcome]
  /\ UNCHANGED owner

Next ==
  \E o \in Ops :
    \/ \E m \in MRs : Bind(o, m)
    \/ \E outcome \in Commits \cup {Rejected} : Decide(o, outcome) \/ Record(o, outcome)

Spec == Init /\ [][Next]_vars

=============================================================================
