----------------------------- MODULE MCGitCluster -----------------------------
(***************************************************************************)
(* Small instances of GitCluster for TLC.  The members of each set are     *)
(* interchangeable, so safety runs use their permutations as symmetry.     *)
(***************************************************************************)
EXTENDS GitCluster, TLC

Symmetric ==
  Permutations(Nodes) \cup Permutations(Writers \ Creators)
    \cup Permutations(Syncs) \cup Permutations(Promoters)

=============================================================================
