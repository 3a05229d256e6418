-------------------------- MODULE MCRockerMaster ---------------------------
(***************************************************************************)
(* RockerMaster for TLC: requests, loop devices and pids are model values,   *)
(* interchangeable in the safety runs.                                      *)
(***************************************************************************)
EXTENDS RockerMasterInv, TLC

Symmetry == Permutations(Req) \cup Permutations(LoopId) \cup Permutations(Pid)
=============================================================================
