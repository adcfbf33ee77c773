---------------------------- MODULE MCMergeJournal ----------------------------
(***************************************************************************)
(* Small instances of MergeJournal for TLC.  Application instances are     *)
(* interchangeable, and so are merge requests.  In the larger instance the *)
(* merge of the first operation makes a commit without a .gity-ci.yml.     *)
(***************************************************************************)
EXTENDS MergeJournal, TLC

FirstMerge == {MergeOf(1)}

Symmetric == Permutations(Callers) \cup Permutations(MRs)

=============================================================================
