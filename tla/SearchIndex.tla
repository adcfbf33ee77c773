----------------------------- MODULE SearchIndex -----------------------------
(***************************************************************************)
(* What the search of a project promises: queries see the issues and the   *)
(* code as they were at some time, and never go back behind what they have *)
(* seen.                                                                   *)
(***************************************************************************)
EXTENDS Naturals

CONSTANTS Parts  \* the parts of the content that are read one by one

VARIABLES
  data,     \* data[p]: version of part p
  visible   \* visible[p]: the version of it that queries see

Init == data = [p \in Parts |-> 0] /\ visible = data

Change == /\ \E p \in Parts : data' = [data EXCEPT ![p] = @ + 1]
          /\ UNCHANGED visible

Publish ==
  /\ visible' \in [Parts -> Nat]
  /\ \A p \in Parts : visible[p] <= visible'[p] /\ visible'[p] <= data[p]
  /\ UNCHANGED data

Next == Change \/ Publish
Spec == Init /\ [][Next]_<<data, visible>>
=============================================================================
