---------------------------- MODULE GitRepository ----------------------------
(***************************************************************************)
(* What a hosted repository promises its writers: it behaves like ONE copy.*)
(* A write takes effect on it at most once, after it was issued and while  *)
(* the repository exists; it is confirmed only after it took effect; and   *)
(* nothing ever takes an effect back.  Nodes, epochs, replicas, promotions *)
(* and crashes are not visible here.                                       *)
(***************************************************************************)
CONSTANT Writers

VARIABLES
  issued,    \* the writes a caller has asked for
  content,   \* the writes the repository contains
  confirmed  \* the writes whose caller was told they succeeded

vars == <<issued, content, confirmed>>

Init == issued = {} /\ content = {} /\ confirmed = {}

Issue(w) ==
  /\ w \notin issued
  /\ issued' = issued \cup {w}
  /\ UNCHANGED <<content, confirmed>>

Apply(w) ==
  /\ w \in issued \ content
  /\ content' = content \cup {w}
  /\ UNCHANGED <<issued, confirmed>>

Confirm(w) ==
  /\ w \in content \ confirmed
  /\ confirmed' = confirmed \cup {w}
  /\ UNCHANGED <<issued, content>>

Next == \E w \in Writers : Issue(w) \/ Apply(w) \/ Confirm(w)

Spec == Init /\ [][Next]_vars

=============================================================================
