----------------------------- MODULE GuardWatch -----------------------------
(***************************************************************************)
(* A guard that has set its sandbox up and watches over it: the last loop   *)
(* of guard_ops and guard_running_alone (core/src/master.rs), against the   *)
(* processes of its pid namespace.  RockerMaster takes a look at /proc as   *)
(* one step; here it is what it is, a listing followed by one stat() per    *)
(* entry, while processes fork, exit and are waited for.                    *)
(*                                                                         *)
(* The guard is process 1.  The application is cloned by the client with    *)
(* CLONE_PARENT, so its parent is the client's caller, outside, who waits   *)
(* for it; what it forks has its parent inside, until that parent exits and *)
(* the guard inherits it.  The guard never calls wait().                    *)
(***************************************************************************)
EXTENDS Naturals

CONSTANTS
    MaxPid,     \* pids of the namespace are 1..MaxPid
    Period,     \* seconds the guard sleeps between two looks (20)
    Delay       \* longest time from SUCCESS until the client has entered

ASSUME WatchAssumption ==
    /\ MaxPid \in Nat /\ MaxPid >= 2
    /\ Period \in Nat /\ Delay \in Nat

Outside == 0
Guard   == 1
Pids    == 2..MaxPid

VARIABLES
    watch,      \* where the guard is in its loop
    slept,      \* seconds of its current sleep
    age,        \* seconds since SUCCESS, as far as Delay needs them
    pos,        \* the listing of /proc has reached this pid
    listed,     \* entries read and not looked at yet
    res,        \* the variable of guard_running_alone
    client,     \* has the client entered?
    state,      \* of each pid: free, live or zombie
    parent,     \* the parent of each process
    last,       \* the pid given last
    fresh,      \* history: pids given since the listing began
    victims     \* history: processes alive when the guard found itself alone

guardVars == <<watch, slept, age, pos, listed, res>>
procVars  == <<client, state, parent, last>>
vars      == <<guardVars, procVars, fresh, victims>>

TypeOK ==
    /\ watch \in {"sleep", "list", "stat", "exited", "panicked", "hung", "killed"}
    /\ slept \in 0..Period
    /\ age \in 0..(Delay + 1)
    /\ pos \in 1..MaxPid
    /\ listed \subseteq 1..MaxPid
    /\ res \in BOOLEAN
    /\ client \in {"granted", "entered"}
    /\ state \in [Pids -> {"free", "live", "zombie"}]
    /\ parent \in [Pids -> 0..MaxPid]
    /\ last \in 1..MaxPid
    /\ fresh \subseteq Pids
    /\ victims \subseteq Pids

Init ==
    /\ watch = "sleep" /\ slept = 0 /\ age = 0
    /\ pos = 1 /\ listed = {} /\ res = TRUE
    /\ client = "granted"
    /\ state = [p \in Pids |-> "free"]
    /\ parent = [p \in Pids |-> Outside]
    /\ last = Guard
    /\ fresh = {} /\ victims = {}

Up == watch \in {"sleep", "list", "stat", "hung"}

\* A directory of that number is in /proc; a zombie has one too.
InProc(p) == p = Guard \/ (p \in Pids /\ state[p] # "free")

-----------------------------------------------------------------------------
(* The processes of the namespace. *)

\* Pids are given in a cycle.
NextPid(p) ==
    /\ p \in Pids /\ state[p] = "free"
    /\ LET free == {q \in Pids : state[q] = "free"}
           above == {q \in free : q > last}
       IN  \A q \in (IF above = {} THEN free ELSE above) : p <= q

NewProcess(p, q) ==
    /\ NextPid(p)
    /\ state' = [state EXCEPT ![p] = "live"]
    /\ parent' = [parent EXCEPT ![p] = q]
    /\ last' = p
    /\ fresh' = IF watch = "sleep" THEN fresh ELSE fresh \cup {p}

\* The client clones the application into the namespace, once.
ClientEnter ==
    /\ Up
    /\ client = "granted"
    /\ age <= Delay
    /\ \E p \in Pids : NewProcess(p, Outside)
    /\ client' = "entered"
    /\ UNCHANGED <<guardVars, victims>>

Fork(q) ==
    /\ Up
    /\ state[q] = "live"
    /\ \E p \in Pids : NewProcess(p, q)
    /\ UNCHANGED <<client, guardVars, victims>>

Exit(p) ==
    /\ Up
    /\ state[p] = "live"
    /\ state' = [state EXCEPT ![p] = "zombie"]
    /\ parent' = [q \in Pids |-> IF parent[q] = p THEN Guard ELSE parent[q]]
    /\ UNCHANGED <<client, last, guardVars, fresh, victims>>

\* wait() by the parent.
Reap(p) ==
    /\ Up
    /\ state[p] = "zombie"
    /\ parent[p] # Guard
    /\ state' = [state EXCEPT ![p] = "free"]
    /\ UNCHANGED <<client, parent, last, guardVars, fresh, victims>>

-----------------------------------------------------------------------------
(* The guard. *)

\* Faulty variant: one second too many.
SleepLong ==
    /\ watch = "sleep"
    /\ slept <= Period
    /\ slept' = slept + 1
    /\ age' = IF age > Delay THEN age ELSE age + 1
    /\ UNCHANGED <<watch, pos, listed, res, procVars, fresh, victims>>

Sleep ==
    /\ watch = "sleep"
    /\ slept < Period
    /\ slept' = slept + 1
    /\ age' = IF age > Delay THEN age ELSE age + 1
    /\ UNCHANGED <<watch, pos, listed, res, procVars, fresh, victims>>

\* Faulty variant: the guard looks first and sleeps afterwards.
LookEarly ==
    /\ watch = "sleep"
    /\ watch' = "list"
    /\ pos' = 1 /\ listed' = {} /\ res' = TRUE
    /\ UNCHANGED <<slept, age, procVars, fresh, victims>>

Look ==
    /\ watch = "sleep"
    /\ slept = Period
    /\ watch' = "list"
    /\ pos' = 1 /\ listed' = {} /\ res' = TRUE
    /\ UNCHANGED <<slept, age, procVars, fresh, victims>>

Live == {p \in Pids : state[p] = "live"}

\* The kernel kills and reaps what is left when process 1 ends.
Empty == state' = [p \in Pids |-> "free"] /\ UNCHANGED <<client, parent, last>>

\* fs::read_dir: the kernel fills the listing pid by pid.
List ==
    /\ watch = "list"
    /\ listed' = IF InProc(pos) THEN listed \cup {pos} ELSE listed
    /\ IF pos < MaxPid
       THEN pos' = pos + 1 /\ UNCHANGED watch
       ELSE watch' = "stat" /\ UNCHANGED pos
    /\ UNCHANGED <<slept, age, res, procVars, fresh, victims>>

\* The directory cannot be opened: pnk! panics and takes the sandbox along, or
\* its report of the error hangs (InitialiserLost in SemLog).
ReadDirFails ==
    /\ watch = "list" /\ pos = 1
    /\ \/ watch' = "panicked" /\ Empty
       \/ watch' = "hung" /\ UNCHANGED procVars
    /\ UNCHANGED <<slept, age, pos, listed, res, fresh, victims>>

\* Faulty variants: the last entry decides; the guard counts itself.
StatLast(p) ==
    /\ watch = "stat"
    /\ p \in listed /\ \A q \in listed : p <= q
    /\ listed' = listed \ {p}
    /\ res' = (p = Guard \/ ~InProc(p))
    /\ UNCHANGED <<watch, slept, age, pos, procVars, fresh, victims>>

StatSelf(p) ==
    /\ watch = "stat"
    /\ p \in listed /\ \A q \in listed : p <= q
    /\ listed' = listed \ {p}
    /\ res' = (res /\ ~InProc(p))
    /\ UNCHANGED <<watch, slept, age, pos, procVars, fresh, victims>>

\* is_dir() on the next entry: one that has gone since does not count.
Stat(p) ==
    /\ watch = "stat"
    /\ p \in listed /\ \A q \in listed : p <= q
    /\ listed' = listed \ {p}
    /\ res' = (res /\ (p = Guard \/ ~InProc(p)))
    /\ UNCHANGED <<watch, slept, age, pos, procVars, fresh, victims>>

Decide ==
    /\ watch = "stat"
    /\ listed = {}
    /\ IF res
       THEN /\ watch' = "exited" /\ victims' = Live /\ Empty
            /\ UNCHANGED <<slept, fresh>>
       ELSE /\ watch' = "sleep" /\ slept' = 0 /\ fresh' = {}
            /\ UNCHANGED <<victims, procVars>>
    /\ UNCHANGED <<age, pos, listed, res>>

guard_loop ==
    Sleep \/ Look \/ List \/ ReadDirFails \/ (\E p \in 1..MaxPid : Stat(p)) \/ Decide

\* AppMaster ends the sandbox by killing the guard.
GuardKilled ==
    /\ Up
    /\ watch' = "killed"
    /\ Empty
    /\ UNCHANGED <<slept, age, pos, listed, res, fresh, victims>>

Next ==
    \/ guard_loop
    \/ ClientEnter
    \/ \E p \in Pids : Fork(p) \/ Exit(p) \/ Reap(p)
    \/ GuardKilled

Spec == Init /\ [][Next]_vars

(***************************************************************************)
(* The guard's loop runs.  Inside and outside, parents wait for the children *)
(* they have: all but the guard.                                            *)
(***************************************************************************)
FairSpec ==
    /\ Spec
    /\ WF_vars(guard_loop)
    /\ \A p \in Pids : WF_vars(Reap(p))
-----------------------------------------------------------------------------
\* A guard does not leave before the client it was made for: it looks for the
\* first time after a sleep longer than the client can take (master.rs:546).
ClientNotForestalled ==
    Delay < Period /\ watch \in {"exited", "panicked"} => client = "entered" \/ age > Delay

\* What a guard takes with it when it exits by itself began after the look
\* that found it alone: a process that was there all the time is never missed.
SteadyProcessSeen == victims \subseteq fresh

AllExited == Live = {} /\ (client = "entered" \/ age > Delay)

\* A sandbox whose processes have all exited, each waited for by its own
\* parent, loses its guard: what it holds is given back and nobody has to ask,
\* unless the guard hangs in a report.
ReleasedUnlessOrphans ==
    [](\A p \in Pids : state[p] = "zombie" => parent[p] # Guard)
        => (AllExited ~> ~Up \/ Live # {} \/ watch = "hung")

-----------------------------------------------------------------------------
(* A property the documentation claims; see the README for how it fails. *)

\* README.md 1.3.2.1 (9): the guard exits by itself once the other processes
\* of its sandbox have all exited.  Stated of one that does not hang in a report.
ExitedMeansReleased == AllExited ~> ~Up \/ Live # {} \/ watch = "hung"
=============================================================================
