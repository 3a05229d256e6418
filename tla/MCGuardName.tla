----------------------------- MODULE MCGuardName -----------------------------
(***************************************************************************)
(* GuardName for TLC: every counter of three digits to the base five.       *)
(***************************************************************************)
EXTENDS GuardName, TLC

Symmetry == Permutations(Client) \cup Permutations(Pid)
=============================================================================
