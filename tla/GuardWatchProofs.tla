-------------------------- MODULE GuardWatchProofs --------------------------
(***************************************************************************)
(* Proofs about the guard's watch, for any number of pids, any sleep and    *)
(* any delay of the client.                                                 *)
(***************************************************************************)
EXTENDS GuardWatch, TLAPS

\* How long the guard has been up, when the client is faster than its sleep:
\* the first sleep counts the age, and all that comes later is past Delay.
AgeInv ==
    Delay < Period =>
        /\ watch = "sleep" => age > Delay \/ age = slept
        /\ watch \in {"list", "stat", "exited", "panicked"} => age > Delay

\* An old process that the look at /proc has passed is in the listing, until
\* its entry is looked at and clears res.
Seen ==
    /\ watch = "list" =>
         \A p \in Pids : state[p] # "free" /\ p < pos => p \in fresh \cup listed
    /\ watch = "stat" /\ res =>
         \A p \in Pids : state[p] # "free" => p \in fresh \cup listed

\* Nobody is a victim before the guard has exited.
NoVictimYet == Up => victims = {}

IInv == TypeOK /\ AgeInv /\ Seen /\ NoVictimYet /\ SteadyProcessSeen

\* The definitions every step needs.
LEMMA PidsInProc == Pids \subseteq 1..MaxPid /\ Guard \in 1..MaxPid
  BY WatchAssumption DEF Pids, Guard

LEMMA InitIInv == Init => IInv
  BY WatchAssumption, SMT
  DEF Init, IInv, TypeOK, AgeInv, Seen, NoVictimYet, SteadyProcessSeen, Pids, Guard, Outside

\* A new process is fresh when a look is under way.
LEMMA NewProcessIInv ==
    ASSUME NEW p \in Pids, NEW q \in 0..MaxPid, IInv, Up, NewProcess(p, q),
           UNCHANGED guardVars, UNCHANGED victims, client' \in {"granted", "entered"}
    PROVE  IInv'
<1>1. TypeOK'
  BY WatchAssumption DEF IInv, TypeOK, NewProcess, guardVars, Pids
<1>2. AgeInv'
  BY DEF IInv, AgeInv, guardVars
<1>3. fresh \subseteq fresh'
  BY DEF NewProcess
<1>4. Seen'
  <2>1. ASSUME NEW s \in Pids, s # p
        PROVE  state'[s] = state[s]
    BY <2>1 DEF NewProcess, IInv, TypeOK
  <2>2. watch # "sleep" => p \in fresh'
    BY DEF NewProcess
  <2> QED
    BY <1>3, <2>1, <2>2 DEF IInv, Seen, guardVars
<1>5. NoVictimYet' /\ SteadyProcessSeen'
  BY <1>3 DEF IInv, NoVictimYet, SteadyProcessSeen, Up, guardVars
<1> QED
  BY <1>1, <1>2, <1>4, <1>5 DEF IInv

\* A step of the namespace that creates no process.
LEMMA ProcIInv ==
    ASSUME IInv, UNCHANGED <<client, last, guardVars, fresh, victims>>,
           state' \in [Pids -> {"free", "live", "zombie"}],
           parent' \in [Pids -> 0..MaxPid],
           \A p \in Pids : state[p] = "free" => state'[p] = "free"
    PROVE  IInv'
  BY DEF IInv, TypeOK, AgeInv, Seen, NoVictimYet, SteadyProcessSeen, Up, guardVars

LEMMA ExitReapIInv ==
    ASSUME NEW p \in Pids, IInv, Exit(p) \/ Reap(p)
    PROVE  IInv'
<1>1. CASE Exit(p)
  <2>1. /\ state' \in [Pids -> {"free", "live", "zombie"}]
        /\ \A q \in Pids : state[q] = "free" => state'[q] = "free"
    BY <1>1 DEF Exit, IInv, TypeOK
  <2>2. parent' \in [Pids -> 0..MaxPid]
    BY <1>1, WatchAssumption DEF Exit, IInv, TypeOK, Guard, Pids
  <2> QED
    BY <1>1, <2>1, <2>2, ProcIInv DEF Exit
<1>2. CASE Reap(p)
  <2>1. /\ state' \in [Pids -> {"free", "live", "zombie"}]
        /\ \A q \in Pids : state[q] = "free" => state'[q] = "free"
        /\ parent' \in [Pids -> 0..MaxPid]
    BY <1>2 DEF Reap, IInv, TypeOK
  <2> QED
    BY <1>2, <2>1, ProcIInv DEF Reap
<1> QED
  BY <1>1, <1>2

LEMMA SleepLookIInv ==
    ASSUME IInv, Sleep \/ Look
    PROVE  IInv'
<1>1. CASE Sleep
  BY <1>1, WatchAssumption
  DEF Sleep, IInv, TypeOK, AgeInv, Seen, NoVictimYet, SteadyProcessSeen, Up,
      procVars, Pids
<1>2. CASE Look
  <2>1. TypeOK' /\ AgeInv' /\ NoVictimYet' /\ SteadyProcessSeen'
    BY <1>2, WatchAssumption
    DEF Look, IInv, TypeOK, AgeInv, NoVictimYet, SteadyProcessSeen, Up, procVars, Pids
  <2>2. Seen'
    BY <1>2, WatchAssumption DEF Look, Seen, Pids
  <2> QED
    BY <2>1, <2>2 DEF IInv
<1> QED
  BY <1>1, <1>2

LEMMA ListIInv ==
    ASSUME IInv, List
    PROVE  IInv'
<1>1. listed \subseteq listed' /\ (InProc(pos) => pos \in listed')
  BY DEF List
<1>2. TypeOK'
  BY PidsInProc, WatchAssumption DEF List, IInv, TypeOK, procVars
<1>3. AgeInv' /\ NoVictimYet' /\ SteadyProcessSeen'
  BY DEF List, IInv, AgeInv, NoVictimYet, SteadyProcessSeen, Up, procVars
<1>4. Seen'
  <2>1. ASSUME NEW p \in Pids, state'[p] # "free", p <= pos
        PROVE  p \in (fresh \cup listed)'
    <3>1. CASE p = pos
      BY <1>1, <2>1, <3>1 DEF List, InProc, procVars
    <3>2. CASE p < pos
      BY <1>1, <2>1, <3>2 DEF List, IInv, Seen, procVars
    <3> QED
      BY <2>1, <3>1, <3>2 DEF IInv, TypeOK, Pids
  <2>2. CASE pos < MaxPid
    BY <2>1, <2>2 DEF List, Seen, IInv, TypeOK, Pids
  <2>3. CASE ~(pos < MaxPid)
    BY <2>1, <2>3, WatchAssumption DEF List, Seen, IInv, TypeOK, Pids
  <2> QED
    BY <2>2, <2>3
<1> QED
  BY <1>2, <1>3, <1>4 DEF IInv

LEMMA StatIInv ==
    ASSUME NEW p \in 1..MaxPid, IInv, Stat(p)
    PROVE  IInv'
<1>1. TypeOK' /\ AgeInv' /\ NoVictimYet' /\ SteadyProcessSeen'
  BY DEF Stat, IInv, TypeOK, AgeInv, NoVictimYet, SteadyProcessSeen, Up, procVars
<1>2. Seen'
  <2>1. watch = "stat" /\ watch' = "stat" /\ fresh' = fresh /\ state' = state
    BY DEF Stat, procVars
  <2>2. ASSUME res', NEW s \in Pids, state[s] # "free"
        PROVE  s \in fresh \cup listed'
    <3>1. res /\ (p = Guard \/ ~InProc(p))
      BY <2>2 DEF Stat
    <3>2. s # p
      BY <2>2, <3>1, WatchAssumption DEF InProc, Pids, Guard
    <3> QED
      BY <2>1, <2>2, <3>1, <3>2 DEF Stat, IInv, Seen
  <2> QED
    BY <2>1, <2>2 DEF Seen
<1> QED
  BY <1>1, <1>2 DEF IInv

LEMMA DecideIInv ==
    ASSUME IInv, Decide
    PROVE  IInv'
<1>1. CASE res
  <2>1. TypeOK' /\ AgeInv' /\ Seen' /\ NoVictimYet'
    BY <1>1 DEF Decide, Empty, IInv, TypeOK, AgeInv, Seen, NoVictimYet, Live, Up
  <2>2. SteadyProcessSeen'
    BY <1>1 DEF Decide, IInv, Seen, SteadyProcessSeen, Live
  <2> QED
    BY <2>1, <2>2 DEF IInv
<1>2. CASE ~res
  <2>1. victims = {}
    BY DEF Decide, IInv, NoVictimYet, Up
  <2> QED
    BY <1>2, <2>1, WatchAssumption
    DEF Decide, IInv, TypeOK, AgeInv, Seen, NoVictimYet, SteadyProcessSeen, procVars
<1> QED
  BY <1>1, <1>2

LEMMA KilledIInv ==
    ASSUME IInv, GuardKilled \/ ReadDirFails
    PROVE  IInv'
  BY DEF GuardKilled, ReadDirFails, procVars, Empty, IInv, TypeOK, AgeInv, Seen, NoVictimYet,
         SteadyProcessSeen, Up

LEMMA StepIInv == IInv /\ [Next]_vars => IInv'
<1> SUFFICES ASSUME IInv, [Next]_vars PROVE IInv'
  OBVIOUS
<1>1. CASE guard_loop
  BY <1>1, SleepLookIInv, ListIInv, StatIInv, DecideIInv, KilledIInv DEF guard_loop
<1>2. CASE ClientEnter
  <2>1. PICK p \in Pids : NewProcess(p, Outside)
    BY <1>2 DEF ClientEnter
  <2>2. Outside \in 0..MaxPid
    BY WatchAssumption DEF Outside
  <2> QED
    BY <1>2, <2>1, <2>2, NewProcessIInv DEF ClientEnter
<1>3. ASSUME NEW q \in Pids, Fork(q)
      PROVE  IInv'
  <2>1. PICK p \in Pids : NewProcess(p, q)
    BY <1>3 DEF Fork
  <2>2. q \in 0..MaxPid /\ client' \in {"granted", "entered"}
    BY <1>3, WatchAssumption DEF Fork, Pids, IInv, TypeOK
  <2> QED
    BY <1>3, <2>1, <2>2, NewProcessIInv DEF Fork
<1>4. CASE GuardKilled
  BY <1>4, KilledIInv
<1>5. CASE UNCHANGED vars
  BY <1>5 DEF vars, procVars, guardVars, IInv, TypeOK, AgeInv, Seen, NoVictimYet,
              SteadyProcessSeen, Up
<1> QED
  BY <1>1, <1>2, <1>3, <1>4, <1>5, ExitReapIInv DEF Next

\* Every reachable state of the watch satisfies the inductive invariant.
THEOREM WatchInvariant == Spec => []IInv
<1>1. Init => IInv
  BY InitIInv
<1>2. IInv /\ [Next]_vars => IInv'
  BY StepIInv
<1> QED
  BY <1>1, <1>2, PTL DEF Spec

\* The types of the watch's variables (guard_ops and guard_running_alone).
THEOREM WatchTypeCorrect == Spec => []TypeOK
<1>1. IInv => TypeOK
  BY DEF IInv
<1> QED
  BY <1>1, WatchInvariant, PTL

\* A guard never leaves before the client it was made for, whatever the sleep
\* of guard_ops is, as long as the client is faster than it.
THEOREM NotForestalled == Spec => []ClientNotForestalled
<1>1. IInv => ClientNotForestalled
  BY DEF IInv, AgeInv, ClientNotForestalled
<1> QED
  BY <1>1, WatchInvariant, PTL

\* guard_running_alone never misses a process that was there when it began to
\* read /proc and is there when the guard exits.
THEOREM SteadySeen == Spec => []SteadyProcessSeen
<1>1. IInv => SteadyProcessSeen
  BY DEF IInv
<1> QED
  BY <1>1, WatchInvariant, PTL
=============================================================================
