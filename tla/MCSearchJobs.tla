---------------------------- MODULE MCSearchJobs ----------------------------
(***************************************************************************)
(* Small instances of SearchJobs.                                          *)
(***************************************************************************)
EXTENDS SearchJobs

CONSTANTS w1, w2, t1, t2, t3, t4, t5

OneWorker == {w1}
TwoWorkers == {w1, w2}
ThreeTokens == {t1, t2, t3}
FiveTokens == {t1, t2, t3, t4, t5}

\* The first push brings a branch that is not the default one.
OtherBranchFirst == {d \in [Parts -> 0 .. MaxGen] : d["code"] = 1}
=============================================================================
