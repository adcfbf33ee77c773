---------------------------- MODULE MCCiPipeline ----------------------------
(***************************************************************************)
(* Small instances of CiPipeline for TLC: a build job, and a test that     *)
(* needs it.  Runners that may be removed, and those that may not, are     *)
(* interchangeable.                                                        *)
(***************************************************************************)
EXTENDS CiPipeline, TLC

CONSTANTS build, test

TestNeedsBuild == [j \in Jobs |-> IF j = test THEN {build} ELSE {}]
Symmetric == Permutations(Removable) \cup Permutations(Runners \ Removable)
=============================================================================
