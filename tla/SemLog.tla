------------------------------- MODULE SemLog -------------------------------
(***************************************************************************)
(* Every report of an error: SEM_LOG, p and pdie of core/src/utils/mod.rs.   *)
(* SEM_LOG is a named semaphore which the threads of the server and the     *)
(* guards share and which outlives them all; each process opens it with its *)
(* first report, in the initialiser of a lazy_static, that is under a Once  *)
(* of the process.  It is waited for during two seconds at most: a reporter *)
(* that has waited in vain prints all the same, and posts all the same.     *)
(***************************************************************************)
EXTENDS Naturals, TLAPS

CONSTANTS
    Thread,     \* threads of the server that call p
    Guard,      \* guards, each a process of one thread
    Server,     \* the process of the threads
    SemMax,     \* SEM_VALUE_MAX
    OpenFails   \* may sem_open fail, as it does without a free descriptor?

ASSUME SemAssumption ==
    /\ SemMax \in Nat /\ SemMax >= 1
    /\ OpenFails \in BOOLEAN
    /\ Server \notin Guard /\ Thread \cap Guard = {}

Reporter == Thread \cup Guard
Process  == Guard \cup {Server}

\* The process whose Once a reporter goes through.
home(t) == IF t \in Guard THEN t ELSE Server

VARIABLES
    count,      \* the semaphore, with 1 in it when the first sem_open makes it
    once,       \* the Once of SEM_LOG in each process
    pc,         \* where each reporter is in p; "none" if there is no such guard
    strayed     \* history: has anyone printed without the semaphore, or
                \* ended with it?

vars == <<count, once, pc, strayed>>

TypeOK ==
    /\ count \in 0..SemMax
    /\ once \in [Process -> {"new", "running", "ready"}]
    /\ pc \in [Reporter -> {"none", "out", "once", "sem_open", "get", "print", "put"}]
    /\ strayed \in BOOLEAN

Init ==
    /\ count = 1
    /\ once = [q \in Process |-> "new"]
    /\ pc = [t \in Reporter |-> IF t \in Guard THEN "none" ELSE "out"]
    /\ strayed = FALSE

Goto(t, l) == pc' = [pc EXCEPT ![t] = l]

Printing(t) == pc[t] \in {"print", "put"}

\* A guard that reports ends with it; a thread that panics is replaced.
After(t) == IF t \in Guard THEN "none" ELSE "out"

-----------------------------------------------------------------------------
(* A report. *)

\* Something has gone wrong and p is called.
p(t) ==
    /\ pc[t] = "out"
    /\ Goto(t, "once")
    /\ UNCHANGED <<count, once, strayed>>

\* The lazy_static: the first to come runs the initialiser, who comes while it
\* runs waits.
SEM_LOG(t) ==
    /\ pc[t] = "once"
    /\ \/ /\ once[home(t)] = "new"
          /\ once' = [once EXCEPT ![home(t)] = "running"]
          /\ Goto(t, "sem_open")
       \/ /\ once[home(t)] = "ready"
          /\ Goto(t, "get")
          /\ UNCHANGED once
    /\ UNCHANGED <<count, strayed>>

sem_open(t) ==
    /\ pc[t] = "sem_open"
    /\ once' = [once EXCEPT ![home(t)] = "ready"]
    /\ Goto(t, "get")
    /\ UNCHANGED <<count, strayed>>

\* SEM_FAILED: pdie, which calls p, which needs SEM_LOG, whose initialiser
\* runs: in this very thread.
SemOpenFails(t) ==
    /\ OpenFails
    /\ pc[t] = "sem_open"
    /\ Goto(t, "once")
    /\ UNCHANGED <<count, once, strayed>>

\* Faulty variant: a wait cut short by a signal is taken for a success.
sem_get_interrupted(t) ==
    /\ pc[t] = "get"
    /\ count' = IF count > 0 THEN count - 1 ELSE 0
    /\ Goto(t, "print")
    /\ UNCHANGED <<once, strayed>>

\* sem_timedwait succeeds.  Any errno but ETIMEDOUT calls pdie, which calls p:
\* the reporter is where it was.
sem_get(t) ==
    /\ pc[t] = "get"
    /\ count > 0
    /\ count' = count - 1
    /\ Goto(t, "print")
    /\ UNCHANGED <<once, strayed>>

\* Faulty variant: sem_wait, without a time limit.
SemTimeoutNever(t) ==
    /\ pc[t] = "get"
    /\ count > 0
    /\ Goto(t, "print")
    /\ strayed' = TRUE
    /\ UNCHANGED <<count, once>>

\* ETIMEDOUT: on with it.
SemTimeout(t) ==
    /\ pc[t] = "get"
    /\ count = 0
    /\ Goto(t, "print")
    /\ strayed' = TRUE
    /\ UNCHANGED <<count, once>>

Eprint(t) ==
    /\ pc[t] = "print"
    /\ Goto(t, "put")
    /\ UNCHANGED <<count, once, strayed>>

\* get_pidns(pid).unwrap() or eprintln! panics; what the reporter took from
\* the semaphore is not given back.
EprintPanics(t) ==
    /\ pc[t] = "print"
    /\ Goto(t, After(t))
    /\ strayed' = TRUE
    /\ UNCHANGED <<count, once>>

\* Faulty variant: the count has no limit.
sem_put_unchecked(t) ==
    /\ pc[t] = "put"
    /\ count' = count + 1
    /\ Goto(t, After(t))
    /\ UNCHANGED <<once, strayed>>

\* sem_post; with EOVERFLOW pdie reports that, through p once more.
sem_put(t) ==
    /\ pc[t] = "put"
    /\ IF count < SemMax
       THEN count' = count + 1 /\ Goto(t, After(t))
       ELSE UNCHANGED count /\ Goto(t, "once")
    /\ UNCHANGED <<once, strayed>>

-----------------------------------------------------------------------------
(* Processes come and go. *)

\* clone() copies the server's memory, its Once included, whatever another
\* thread is about to do to it.
clone(g) ==
    /\ pc[g] = "none"
    /\ Goto(g, "out")
    /\ once' = [once EXCEPT ![g] = once[Server]]
    /\ UNCHANGED <<count, strayed>>

\* A guard ends or is killed, in a report or not.
GuardDies(g) ==
    /\ pc[g] # "none"
    /\ Goto(g, "none")
    /\ strayed' = (strayed \/ Printing(g))
    /\ UNCHANGED <<count, once>>

\* The server ends with all its threads, and is started anew.
ServerDies ==
    /\ pc' = [t \in Reporter |-> IF t \in Thread THEN "out" ELSE pc[t]]
    /\ once' = [once EXCEPT ![Server] = "new"]
    /\ strayed' = (strayed \/ \E t \in Thread : Printing(t))
    /\ UNCHANGED count

report(t) ==
    \/ SEM_LOG(t) \/ sem_open(t) \/ SemOpenFails(t)
    \/ sem_get(t) \/ SemTimeout(t) \/ Eprint(t) \/ EprintPanics(t) \/ sem_put(t)

Next ==
    \/ \E t \in Reporter : p(t) \/ report(t)
    \/ \E g \in Guard : clone(g) \/ GuardDies(g)
    \/ ServerDies

Spec == Init /\ [][Next]_vars

\* A reporter that is alive runs; its two seconds end.
FairSpec == Spec /\ \A t \in Reporter : WF_vars(report(t))
-----------------------------------------------------------------------------
\* Two reports are never printed into each other, until the first time that
\* someone prints without the semaphore or ends with it: from then on the
\* count may be wrong for good, as the semaphore outlives every restart.
OneAtATime ==
    ~strayed => \A t, u \in Reporter : Printing(t) /\ Printing(u) => t = u

Waits(t) == pc[t] \in {"once", "sem_open", "get"}

\* The initialiser of SEM_LOG has begun and nobody is in it: it failed, and
\* waits for itself, or clone() copied a Once another thread was working on.
InitialiserLost(q) ==
    once[q] = "running" /\ \A t \in Reporter : home(t) = q => pc[t] # "sem_open"

\* Nobody waits for ever in p, not even for a semaphore that was lost with the
\* guard that had it, as long as his process has not lost the initialiser of
\* SEM_LOG: that is the one way to hang in a report.
NobodyStuck ==
    \A t \in Reporter : Waits(t) ~> ~Waits(t) \/ InitialiserLost(home(t))

-----------------------------------------------------------------------------
(* A property the documentation claims; see the README for how it fails. *)

\* utils/mod.rs:196: pdie prints the error and panics.  So a thread that
\* reports comes out again, and a guard that does so ends, as master.rs:201 has
\* it of a guard that fails.
PdieEnds == \A t \in Reporter : pc[t] = "once" ~> pc[t] = After(t)

-----------------------------------------------------------------------------
\* While nobody has strayed the semaphore is 1, or 0 and somebody prints.
IInv ==
    /\ TypeOK
    /\ OneAtATime
    /\ ~strayed => count <= 1 /\ (count = 1 => \A t \in Reporter : ~Printing(t))

\* That is inductive, whatever the number of reporters and SEM_VALUE_MAX.
LEMMA ReportInv == Spec => []IInv
<1> USE DEF Reporter, Process, home
<1>1. Init => IInv
  <2> SUFFICES ASSUME Init PROVE IInv
    OBVIOUS
  <2>1. TypeOK
    <3>1. count \in 0..SemMax
      BY SemAssumption DEF Init
    <3>2. once \in [Process -> {"new", "running", "ready"}]
      BY DEF Init
    <3>3. pc \in [Reporter -> {"none", "out", "once", "sem_open", "get", "print", "put"}]
      BY DEF Init
    <3>4. strayed \in BOOLEAN
      BY DEF Init
    <3> QED
      BY <3>1, <3>2, <3>3, <3>4 DEF TypeOK
  <2>2. \A t \in Reporter : ~Printing(t)
    BY DEF Init, Printing
  <2>3. count <= 1
    BY DEF Init
  <2> QED
    BY <2>1, <2>2, <2>3 DEF IInv, OneAtATime
<1>2. IInv /\ [Next]_vars => IInv'
  <2> SUFFICES ASSUME IInv, [Next]_vars PROVE IInv'
    OBVIOUS
  <2> USE DEF IInv, TypeOK, OneAtATime, Printing, Goto, After
  <2>1. ASSUME NEW t \in Reporter, p(t) PROVE IInv'
    BY <2>1 DEF p
  <2>2. ASSUME NEW t \in Reporter, SEM_LOG(t) PROVE IInv'
    BY <2>2 DEF SEM_LOG
  <2>3. ASSUME NEW t \in Reporter, sem_open(t) \/ SemOpenFails(t) PROVE IInv'
    BY <2>3 DEF sem_open, SemOpenFails
  <2>4. ASSUME NEW t \in Reporter, sem_get(t) PROVE IInv'
    BY <2>4, SemAssumption DEF sem_get
  <2>5. ASSUME NEW t \in Reporter, SemTimeout(t) PROVE IInv'
    BY <2>5 DEF SemTimeout
  <2>6. ASSUME NEW t \in Reporter, Eprint(t) \/ EprintPanics(t) PROVE IInv'
    BY <2>6 DEF Eprint, EprintPanics
  <2>7. ASSUME NEW t \in Reporter, sem_put(t) PROVE IInv'
    BY <2>7, SemAssumption DEF sem_put
  <2>8. ASSUME NEW g \in Guard, clone(g) \/ GuardDies(g) PROVE IInv'
    BY <2>8 DEF clone, GuardDies
  <2>9. CASE ServerDies
    BY <2>9 DEF ServerDies
  <2>10. CASE UNCHANGED vars
    BY <2>10 DEF vars
  <2> QED
    BY <2>1, <2>2, <2>3, <2>4, <2>5, <2>6, <2>7, <2>8, <2>9, <2>10 DEF Next, report
<1> QED
  BY <1>1, <1>2, PTL DEF Spec

\* The count never leaves 0..SEM_VALUE_MAX, and every reporter is in p or not.
THEOREM ReportTypes == Spec => []TypeOK
<1>1. IInv => TypeOK
  BY DEF IInv
<1> QED
  BY <1>1, ReportInv, PTL

\* The reports of p exclude each other until somebody strays.
THEOREM OneReport == Spec => []OneAtATime
<1>1. IInv => OneAtATime
  BY DEF IInv
<1> QED
  BY <1>1, ReportInv, PTL
=============================================================================
