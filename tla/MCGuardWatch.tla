---------------------------- MODULE MCGuardWatch ----------------------------
(***************************************************************************)
(* GuardWatch for TLC: a client that is in before the guard first looks, as *)
(* with the 3 s and 20 s of the code, and time counted in steps of 7 s.     *)
(***************************************************************************)
EXTENDS GuardWatch

\* Besides the guard: an application, its child, and one whose number is new.
Processes == 4
SleepSteps == 3
EnterSteps == 2
=============================================================================
