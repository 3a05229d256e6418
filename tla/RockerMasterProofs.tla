------------------------- MODULE RockerMasterProofs ------------------------
(***************************************************************************)
(* Theorems about RockerMaster, for every number of requests, devices and   *)
(* pids, whether or not pids are reused.                                    *)
(***************************************************************************)
EXTENDS RockerMasterInv, FiniteSetTheorems, TLAPS

\* What makes the typing inductive by itself.
TypeInv == TypeOK /\ PidInv

-----------------------------------------------------------------------------
(* Type correctness. *)

LEMMA TypeInit == Init => TypeInv
<1> SUFFICES ASSUME Init PROVE TypeInv
  OBVIOUS
<1> USE DEF Init
<1>1. LoopTypeOK
  BY DEF LoopInit, LoopTypeOK
<1>2. fds \in [Req -> [NS -> Req \cup {None}]] /\ entry \in [Req -> [NS -> Req \cup {None}]]
  BY DEF NoFds
<1>3. pc \in [Req -> Pc] /\ guard \in [Req -> GuardState]
  BY DEF Pc, Waiting, GuardState
<1>4. queue \in Seq(Req) /\ pair \subseteq Req
  OBVIOUS
<1>5. PidInv
  BY DEF PidInv
<1>. QED
  BY <1>1, <1>2, <1>3, <1>4, <1>5 DEF TypeInv, TypeOK

\* Ending processes leaves every value in its type, and makes no new guard.
LEMMA DieType ==
    ASSUME TypeOK, NEW G, Die(G), G \subseteq Req
    PROVE  /\ guard' \in [Req -> GuardState]
           /\ client' \in [Req -> {"new", "waiting", "gone", "refused", "granted",
                                   "inside", "left"}]
           /\ entry' \in [Req -> [NS -> Req \cup {None}]]
           /\ \A g \in Req : guard'[g] = IF g \in G THEN "zombie" ELSE guard[g]
BY DEF TypeOK, Die, GuardState, NoFds

LEMMA KillType ==
    ASSUME TypeOK, NEW p, kill_SIGKILL(p)
    PROVE  /\ guard' \in [Req -> GuardState]
           /\ client' \in [Req -> {"new", "waiting", "gone", "refused", "granted",
                                   "inside", "left"}]
           /\ entry' \in [Req -> [NS -> Req \cup {None}]]
           /\ \A g \in Req : guard'[g] = IF pid[g] = p /\ Alive(g) THEN "zombie" ELSE guard[g]
<1> DEFINE G == {g \in Req : pid[g] = p /\ Alive(g)}
<1>1. Die(G) /\ G \subseteq Req
  BY DEF kill_SIGKILL
<1> HIDE DEF G
<1>2. \A g \in Req : guard'[g] = IF g \in G THEN "zombie" ELSE guard[g]
  BY <1>1, DieType
<1>. QED
  BY <1>1, <1>2, DieType DEF G

\* A report ends in a panic or never.
LEMMA PdieValue ==
    ASSUME NEW r \in Req, pdie(r), semLog \in {"new", "ready", "stuck"}
    PROVE  /\ \E l \in {"panicked", "hung"} : pc' = [pc EXCEPT ![r] = l]
           /\ semLog' \in {"new", "ready", "stuck"}
  BY DEF pdie, Reports, Goto

\* Every action keeps the types.
LEMMA TypeNext == TypeInv /\ [Next]_vars => TypeInv'
<1> SUFFICES ASSUME TypeInv, [Next]_vars PROVE TypeInv'
  OBVIOUS
<1> USE DEF TypeInv, TypeOK, LoopTypeOK, PidInv, sharedVars
<1>0. CASE UNCHANGED vars
  BY <1>0 DEF vars, loopVars, workerVars, guardVars, clientVars, reaperVars
<1>1. CASE StartJob
  BY <1>1 DEF StartJob, Pc, loopVars, guardVars, clientVars, reaperVars
<1>2. ASSUME NEW r \in Req, uau_serve(r) PROVE TypeInv'
  BY <1>2 DEF uau_serve, Pc, Waiting, loopVars, guardVars, reaperVars
<1>3. ASSUME NEW r \in Req, worker(r) PROVE TypeInv'
  <2> USE DEF Goto, Pc
  <2>1. CASE req_parse(r)
    BY <2>1 DEF req_parse, loopVars, guardVars, clientVars, reaperVars
  <2>2. CASE start_guard(r)
    BY <2>2 DEF start_guard, InInit, GuardState, Running, loopVars, clientVars, reaperVars
  <2>3. CASE RecvLoopId(r)
    BY <2>3 DEF RecvLoopId, InInit, loopVars, guardVars, clientVars, reaperVars
  <2>4. CASE RecvErrno(r)
    BY <2>4 DEF RecvErrno, InInit, loopVars, guardVars, clientVars, reaperVars
  <2>5. CASE MapIds(r)
    BY <2>5 DEF MapIds, NS, loopVars, guardVars, clientVars, reaperVars
  <2>6. CASE get_namespace_fds(r)
    BY <2>6 DEF get_namespace_fds, NextNs, NS, loopVars, guardVars, clientVars, reaperVars
  <2>7. CASE GiveUp(r)
    BY <2>7 DEF GiveUp, loopVars, guardVars, clientVars, reaperVars
  <2>8. CASE SetupFails(r)
    BY <2>8 DEF SetupFails, loopVars, guardVars, clientVars, reaperVars
  <2>9. CASE KillGuard(r)
    <3>1. TypeOK /\ kill_SIGKILL(pid[r])
      BY <2>9 DEF KillGuard
    <3>2. /\ guard' \in [Req -> GuardState]
          /\ client' \in [Req -> {"new", "waiting", "gone", "refused", "granted",
                                  "inside", "left"}]
          /\ entry' \in [Req -> [NS -> Req \cup {None}]]
          /\ \A g \in Req : guard'[g] # guard[g] => Alive(g)
      BY <3>1, KillType
    <3>. QED
      BY <2>9, <3>2 DEF KillGuard, Alive, Running, loopVars, reaperVars
  <2>10. CASE registe_resource(r)
    BY <2>10 DEF registe_resource, loopVars, guardVars, clientVars, reaperVars
  <2>11. CASE RegisterPoisoned(r)
    BY <2>11 DEF RegisterPoisoned, Finished, loopVars, guardVars, clientVars, reaperVars
  <2>12. CASE send_back(r)
    BY <2>12 DEF send_back, loopVars, guardVars, reaperVars
  <2>13. CASE SendFails(r)
    <3>1. PICK l \in {"panicked", "hung"} : pc' = [pc EXCEPT ![r] = l]
      BY <2>13, PdieValue DEF SendFails
    <3>2. semLog' \in {"new", "ready", "stuck"}
      BY <2>13, PdieValue DEF SendFails
    <3>3. pc' \in [Req -> Pc]
      BY <3>1 DEF Finished
    <3>. QED
      BY <2>13, <3>2, <3>3 DEF SendFails, loopVars, guardVars, clientVars, reaperVars
  <2>14. CASE close_fds(r)
    BY <2>14 DEF close_fds, Finished, NoFds, loopVars, guardVars, clientVars, reaperVars
  <2>15. CASE Refuse(r)
    <3>1. PICK l \in {"panicked", "hung"} : pc' = [pc EXCEPT ![r] = l]
      BY <2>15, PdieValue DEF Refuse
    <3>2. semLog' \in {"new", "ready", "stuck"}
      BY <2>15, PdieValue DEF Refuse
    <3>3. pc' \in [Req -> Pc]
      BY <3>1 DEF Finished
    <3>. QED
      BY <2>15, <3>2, <3>3 DEF Refuse, loopVars, guardVars, reaperVars
  <2>. QED
    BY <1>3, <2>1, <2>2, <2>3, <2>4, <2>5, <2>6, <2>7, <2>8, <2>9, <2>10, <2>11, <2>12,
       <2>13, <2>14, <2>15 DEF worker
<1>4. ASSUME NEW g \in Req, guard_ops(g) PROVE TypeInv'
  <2> USE DEF Become, GuardState, Running
  <2>1. CASE GuardPrep(g)
    BY <2>1 DEF GuardPrep, loopVars, workerVars, clientVars, reaperVars
  <2>2. ASSUME NEW d \in LoopId, GuardGetFree(g, d) PROVE TypeInv'
    BY <2>2 DEF GuardGetFree, get_loop_dev, workerVars, clientVars, reaperVars
  <2>3. CASE GuardMntLoop(g)
    BY <2>3 DEF GuardMntLoop, bind_pkg, workerVars, clientVars, reaperVars
  <2>4. CASE GuardFails(g)
    <3>1. LoopTypeOK'
      BY <2>4 DEF GuardFails, bind_pkg, loopVars
    <3>. QED
      BY <2>4, <3>1 DEF GuardFails, bind_pkg, loopVars, workerVars, clientVars, reaperVars
  <2>5. CASE GuardSeal(g)
    BY <2>5 DEF GuardSeal, loopVars, workerVars, clientVars, reaperVars
  <2>6. CASE GuardSealFails(g)
    BY <2>6 DEF GuardSealFails, loopVars, workerVars, clientVars, reaperVars
  <2>7. CASE GuardExit(g)
    BY <2>7, DieType DEF GuardExit, loopVars, workerVars, reaperVars
  <2>8. CASE GuardCrash(g)
    BY <2>8, DieType DEF GuardCrash, Alive, loopVars, workerVars, reaperVars
  <2>. QED
    BY <1>4, <2>1, <2>2, <2>3, <2>4, <2>5, <2>6, <2>7, <2>8 DEF guard_ops
<1>5. ASSUME NEW r \in Req, ClientTimeout(r) \/ ClientEnter(r) \/ ClientLeave(r) PROVE TypeInv'
  <2> USE DEF loopVars, workerVars, guardVars, reaperVars
  <2>1. CASE ClientTimeout(r)
    BY <2>1 DEF ClientTimeout
  <2>2. CASE ClientEnter(r)
    BY <2>2 DEF ClientEnter
  <2>3. CASE ClientLeave(r)
    BY <2>3 DEF ClientLeave, NoFds
  <2>. QED
    BY <1>5, <2>1, <2>2, <2>3
<1>6. CASE resource_worker
  <2>1. CASE ReaperWait
    BY <2>1 DEF ReaperWait, Become, GuardState, loopVars, workerVars, clientVars
  <2>2. CASE ReaperSleep
    BY <2>2 DEF ReaperSleep, vars, loopVars, workerVars, guardVars, clientVars, reaperVars
  <2>3. CASE ReaperRemove
    BY <2>3 DEF ReaperRemove, loopVars, workerVars, guardVars, clientVars
  <2>4. CASE ReaperClean
    BY <2>4 DEF ReaperClean, loop_unbind, Info, Reports, loopVars, workerVars, guardVars, clientVars
  <2>5. CASE ReaperDestroy
    BY <2>5 DEF ReaperDestroy, LOOP_MASTER, loop_destroy, Info, Reports, loopVars, workerVars,
       guardVars, clientVars
  <2>. QED
    BY <1>6, <2>1, <2>2, <2>3, <2>4, <2>5 DEF resource_worker
<1>7. ASSUME NEW d \in LoopId, LoopAutoclear(d) PROVE TypeInv'
  BY <1>7 DEF LoopAutoclear, autoclear, workerVars, guardVars, clientVars, reaperVars
<1>8. CASE ServerEnds
  <2> USE <1>8 DEF ServerEnds
  <2>1. fds' \in [Req -> [NS -> Req \cup {None}]]
    BY DEF NoFds
  <2>2. pc' \in [Req -> Pc]
    BY DEF Pc, Waiting, Finished
  <2>3. queue' \in Seq(Req)
    OBVIOUS
  <2>4. LoopTypeOK' /\ PidInv'
    BY DEF loopVars, guardVars
  <2>. QED
    BY <2>1, <2>2, <2>3, <2>4 DEF loopVars, guardVars, clientVars
<1>9. CASE gen_server_socket
  BY <1>9 DEF gen_server_socket, loopVars, workerVars, guardVars, clientVars
<1>10. ASSUME NEW r \in Req, SendUnread(r) PROVE TypeInv'
  BY <1>10 DEF SendUnread, Goto, Pc, Finished, loopVars, guardVars, reaperVars
<1>11. ASSUME NEW r \in Req, InitReaps(r) PROVE TypeInv'
  BY <1>11 DEF InitReaps, Become, GuardState, loopVars, workerVars, clientVars, reaperVars
<1>. QED
  BY <1>0, <1>1, <1>2, <1>3, <1>4, <1>5, <1>6, <1>7, <1>8, <1>9, <1>10, <1>11 DEF Next

\* Every variable keeps its type.
THEOREM TypeCorrect == Spec => []TypeOK
<1>1. TypeInv => TypeOK
  BY DEF TypeInv
<1>. QED
  BY <1>1, TypeInit, TypeNext, PTL DEF Spec

-----------------------------------------------------------------------------
(* The inductive invariant: one lemma for each of its parts. *)

\* The queue: a request enters it when it becomes queued, leaves it when it stops being so.
LEMMA QueueNext == IInv /\ [Next]_vars => QueueInv'
<1> SUFFICES ASSUME IInv, [Next]_vars PROVE QueueInv'
  OBVIOUS
<1> USE DEF IInv, TypeOK, LoopTypeOK, QueueInv, Waiting, NS, loopVars, workerVars,
           guardVars, clientVars, reaperVars, sharedVars
<1>0. CASE UNCHANGED vars
  BY <1>0 DEF vars
<1>1. CASE StartJob
  BY <1>1 DEF StartJob
<1>2. ASSUME NEW r \in Req, uau_serve(r) PROVE QueueInv'
  BY <1>2 DEF uau_serve
<1>3. ASSUME NEW r \in Req, worker(r) PROVE QueueInv'
  <2> USE DEF Goto
  <2>1. CASE req_parse(r)
    BY <2>1 DEF req_parse
  <2>2. CASE start_guard(r)
    BY <2>2 DEF start_guard
  <2>3. CASE RecvLoopId(r)
    BY <2>3 DEF RecvLoopId
  <2>4. CASE RecvErrno(r)
    BY <2>4 DEF RecvErrno
  <2>5. CASE MapIds(r)
    BY <2>5 DEF MapIds
  <2>6. CASE get_namespace_fds(r)
    BY <2>6 DEF get_namespace_fds
  <2>7. CASE GiveUp(r)
    BY <2>7 DEF GiveUp
  <2>8. CASE SetupFails(r)
    BY <2>8 DEF SetupFails, recv_timed_out
  <2>9. CASE KillGuard(r)
    BY <2>9 DEF KillGuard, kill_SIGKILL, Die, Alive
  <2>10. CASE registe_resource(r)
    BY <2>10 DEF registe_resource
  <2>11. CASE RegisterPoisoned(r)
    BY <2>11 DEF RegisterPoisoned
  <2>12. CASE send_back(r)
    BY <2>12 DEF send_back
  <2>13. CASE SendFails(r)
    BY <2>13 DEF SendFails, pdie
  <2>14. CASE close_fds(r)
    BY <2>14 DEF close_fds
  <2>15. CASE Refuse(r)
    BY <2>15 DEF Refuse, pdie
  <2>. QED
    BY <1>3, <2>1, <2>2, <2>3, <2>4, <2>5, <2>6, <2>7, <2>8, <2>9, <2>10,
       <2>11, <2>12, <2>13, <2>14, <2>15 DEF worker
<1>4. ASSUME NEW g \in Req, guard_ops(g) PROVE QueueInv'
  <2>1. CASE GuardPrep(g) \/ (\E d \in LoopId : GuardGetFree(g, d)) \/
            GuardMntLoop(g) \/ GuardFails(g) \/ GuardSeal(g) \/ GuardSealFails(g) \/
            GuardExit(g) \/ GuardCrash(g)
    BY <2>1 DEF GuardPrep, GuardGetFree, GuardMntLoop, GuardFails, GuardSeal,
       GuardSealFails, GuardExit, GuardCrash
  <2>. QED
    BY <1>4, <2>1 DEF guard_ops
<1>5. ASSUME NEW r \in Req, ClientTimeout(r) \/ ClientEnter(r) \/ ClientLeave(r)
     PROVE  QueueInv'
  BY <1>5 DEF ClientTimeout, ClientEnter, ClientLeave
<1>6. CASE resource_worker
  <2>1. CASE ReaperWait \/ ReaperRemove \/ ReaperClean \/ ReaperDestroy \/ ReaperSleep
    BY <2>1 DEF ReaperWait, ReaperRemove, ReaperClean, ReaperDestroy, ReaperSleep, vars
  <2>. QED
    BY <1>6, <2>1 DEF resource_worker
<1>7. ASSUME NEW d \in LoopId, LoopAutoclear(d) PROVE QueueInv'
  BY <1>7 DEF LoopAutoclear
<1>8. CASE ServerEnds
  BY <1>8 DEF ServerEnds
<1>9. CASE gen_server_socket
  BY <1>9 DEF gen_server_socket
<1>10. ASSUME NEW r \in Req, SendUnread(r) PROVE QueueInv'
  BY <1>10 DEF SendUnread, Goto
<1>11. ASSUME NEW r \in Req, InitReaps(r) PROVE QueueInv'
  BY <1>11 DEF InitReaps, Become
<1>. QED
  BY <1>0, <1>1, <1>2, <1>3, <1>4, <1>5, <1>6, <1>7, <1>8, <1>9, <1>10, <1>11 DEF Next

\* clone() picks a number no unreaped process has; an ending process keeps its own.
LEMMA UniqueNext == IInv /\ [Next]_vars => PidUnique'
<1> SUFFICES ASSUME IInv, [Next]_vars PROVE PidUnique'
  OBVIOUS
<1> USE DEF IInv, TypeOK, LoopTypeOK, PidUnique, Unreaped, Running, loopVars,
           workerVars, guardVars, clientVars, reaperVars, sharedVars
<1>0. CASE UNCHANGED vars
  BY <1>0 DEF vars
<1>1. CASE StartJob
  BY <1>1 DEF StartJob
<1>2. ASSUME NEW r \in Req, uau_serve(r) PROVE PidUnique'
  BY <1>2 DEF uau_serve
<1>3. ASSUME NEW r \in Req, worker(r) PROVE PidUnique'
  <2>1. CASE start_guard(r)
    BY <2>1 DEF start_guard, FreePid
  <2>2. CASE KillGuard(r)
    BY <2>2 DEF KillGuard, kill_SIGKILL, Die, Alive
  <2>3. CASE req_parse(r) \/ RecvLoopId(r) \/ RecvErrno(r) \/ MapIds(r) \/
            get_namespace_fds(r) \/ GiveUp(r) \/ SetupFails(r) \/ registe_resource(r) \/
            RegisterPoisoned(r) \/ send_back(r) \/ SendFails(r) \/ close_fds(r) \/
            Refuse(r)
    BY <2>3 DEF req_parse, RecvLoopId, RecvErrno, MapIds, get_namespace_fds, GiveUp,
       SetupFails, recv_timed_out, registe_resource, RegisterPoisoned, send_back,
       SendFails, close_fds, Refuse
  <2>. QED
    BY <1>3, <2>1, <2>2, <2>3 DEF worker
<1>4. ASSUME NEW g \in Req, guard_ops(g) PROVE PidUnique'
  <2> USE DEF Become
  <2>1. CASE GuardPrep(g)
    BY <2>1 DEF GuardPrep
  <2>2. ASSUME NEW d \in LoopId, GuardGetFree(g, d) PROVE PidUnique'
    BY <2>2 DEF GuardGetFree, get_loop_dev
  <2>3. CASE GuardMntLoop(g)
    BY <2>3 DEF GuardMntLoop, bind_pkg
  <2>4. CASE GuardFails(g)
    BY <2>4 DEF GuardFails, bind_pkg
  <2>5. CASE GuardSeal(g)
    BY <2>5 DEF GuardSeal
  <2>6. CASE GuardSealFails(g)
    BY <2>6 DEF GuardSealFails
  <2>7. CASE GuardExit(g)
    BY <2>7 DEF GuardExit, Die
  <2>8. CASE GuardCrash(g)
    BY <2>8 DEF GuardCrash, Die, Alive
  <2>. QED
    BY <1>4, <2>1, <2>2, <2>3, <2>4, <2>5, <2>6, <2>7, <2>8 DEF guard_ops
<1>5. ASSUME NEW r \in Req, ClientTimeout(r) \/ ClientEnter(r) \/ ClientLeave(r)
     PROVE  PidUnique'
  BY <1>5 DEF ClientTimeout, ClientEnter, ClientLeave
<1>6. CASE resource_worker
  <2> USE DEF Become
  <2>1. CASE ReaperWait
    BY <2>1 DEF ReaperWait
  <2>2. CASE ReaperRemove \/ ReaperClean \/ ReaperDestroy \/ ReaperSleep
    BY <2>2 DEF ReaperRemove, ReaperClean, ReaperDestroy, ReaperSleep, vars
  <2>. QED
    BY <1>6, <2>1, <2>2 DEF resource_worker
<1>7. ASSUME NEW d \in LoopId, LoopAutoclear(d) PROVE PidUnique'
  BY <1>7 DEF LoopAutoclear
<1>8. CASE ServerEnds
  BY <1>8 DEF ServerEnds
<1>9. CASE gen_server_socket
  BY <1>9 DEF gen_server_socket
<1>10. ASSUME NEW r \in Req, SendUnread(r) PROVE PidUnique'
  BY <1>10 DEF SendUnread, Goto
<1>11. ASSUME NEW r \in Req, InitReaps(r) PROVE PidUnique'
  BY <1>11 DEF InitReaps, Become
<1>. QED
  BY <1>0, <1>1, <1>2, <1>3, <1>4, <1>5, <1>6, <1>7, <1>8, <1>9, <1>10, <1>11 DEF Next

\* The guard's messages follow its stages.
LEMMA GuardNext == IInv /\ [Next]_vars => GuardInv'
<1> SUFFICES ASSUME IInv, [Next]_vars PROVE GuardInv'
  OBVIOUS
<1> USE DEF IInv, TypeOK, LoopTypeOK, GuardInv, Running, WorkerInv, Waiting, loopVars,
           workerVars, guardVars, clientVars, reaperVars, sharedVars
<1>0. CASE UNCHANGED vars
  BY <1>0 DEF vars
<1>1. CASE StartJob
  BY <1>1 DEF StartJob
<1>2. ASSUME NEW r \in Req, uau_serve(r) PROVE GuardInv'
  BY <1>2 DEF uau_serve
<1>3. ASSUME NEW r \in Req, worker(r) PROVE GuardInv'
  <2>1. CASE start_guard(r)
    BY <2>1 DEF start_guard
  <2>2. CASE KillGuard(r)
    BY <2>2 DEF KillGuard, kill_SIGKILL, Die, Alive
  <2>3. CASE req_parse(r) \/ RecvLoopId(r) \/ RecvErrno(r) \/ MapIds(r) \/
            get_namespace_fds(r) \/ GiveUp(r) \/ SetupFails(r) \/ registe_resource(r) \/
            RegisterPoisoned(r) \/ send_back(r) \/ SendFails(r) \/ close_fds(r) \/
            Refuse(r)
    BY <2>3 DEF req_parse, RecvLoopId, RecvErrno, MapIds, get_namespace_fds, GiveUp,
       SetupFails, recv_timed_out, registe_resource, RegisterPoisoned, send_back,
       SendFails, close_fds, Refuse
  <2>. QED
    BY <1>3, <2>1, <2>2, <2>3 DEF worker
<1>4. ASSUME NEW g \in Req, guard_ops(g) PROVE GuardInv'
  <2> USE DEF Become
  <2>1. CASE GuardPrep(g)
    BY <2>1 DEF GuardPrep
  <2>2. ASSUME NEW d \in LoopId, GuardGetFree(g, d) PROVE GuardInv'
    BY <2>2 DEF GuardGetFree, get_loop_dev
  <2>3. CASE GuardMntLoop(g)
    BY <2>3 DEF GuardMntLoop, bind_pkg
  <2>4. CASE GuardFails(g)
    BY <2>4 DEF GuardFails, bind_pkg
  <2>5. CASE GuardSeal(g)
    BY <2>5 DEF GuardSeal
  <2>6. CASE GuardSealFails(g)
    BY <2>6 DEF GuardSealFails
  <2>7. CASE GuardExit(g)
    BY <2>7 DEF GuardExit, Die
  <2>8. CASE GuardCrash(g)
    BY <2>8 DEF GuardCrash, Die, Alive
  <2>. QED
    BY <1>4, <2>1, <2>2, <2>3, <2>4, <2>5, <2>6, <2>7, <2>8 DEF guard_ops
<1>5. ASSUME NEW r \in Req, ClientTimeout(r) \/ ClientEnter(r) \/ ClientLeave(r)
     PROVE  GuardInv'
  BY <1>5 DEF ClientTimeout, ClientEnter, ClientLeave
<1>6. CASE resource_worker
  <2> USE DEF Become
  <2>1. CASE ReaperWait
    BY <2>1 DEF ReaperWait
  <2>2. CASE ReaperRemove
    BY <2>2 DEF ReaperRemove
  <2>3. CASE ReaperClean
    BY <2>3 DEF ReaperClean
  <2>4. CASE ReaperDestroy
    BY <2>4 DEF ReaperDestroy
  <2>5. CASE ReaperSleep
    BY <2>5 DEF ReaperSleep, vars
  <2>. QED
    BY <1>6, <2>1, <2>2, <2>3, <2>4, <2>5 DEF resource_worker
<1>7. ASSUME NEW d \in LoopId, LoopAutoclear(d) PROVE GuardInv'
  BY <1>7 DEF LoopAutoclear
<1>8. CASE ServerEnds
  BY <1>8 DEF ServerEnds
<1>9. CASE gen_server_socket
  BY <1>9 DEF gen_server_socket
<1>10. ASSUME NEW r \in Req, SendUnread(r) PROVE GuardInv'
  BY <1>10 DEF SendUnread, Goto
<1>11. ASSUME NEW r \in Req, InitReaps(r) PROVE GuardInv'
  BY <1>11 DEF InitReaps, Become
<1>. QED
  BY <1>0, <1>1, <1>2, <1>3, <1>4, <1>5, <1>6, <1>7, <1>8, <1>9, <1>10, <1>11 DEF Next

\* The worker's knowledge follows the guard's messages.
LEMMA WorkerNext == IInv /\ [Next]_vars => WorkerInv'
<1> SUFFICES ASSUME IInv, [Next]_vars PROVE WorkerInv'
  OBVIOUS
<1> USE DEF IInv, TypeOK, LoopTypeOK, WorkerInv, Waiting, InInit, NS, AfterInit, NextNs,
           Finished, GuardInv, QueueInv, Running, loopVars, workerVars, guardVars,
           clientVars, reaperVars, sharedVars
<1>0. CASE UNCHANGED vars
  BY <1>0 DEF vars
<1>1. CASE StartJob
  BY <1>1 DEF StartJob
<1>2. ASSUME NEW r \in Req, uau_serve(r) PROVE WorkerInv'
  BY <1>2 DEF uau_serve
<1>3. ASSUME NEW r \in Req, worker(r) PROVE WorkerInv'
  <2> USE DEF Goto
  <2>1. CASE req_parse(r)
    BY <2>1 DEF req_parse
  <2>2. CASE start_guard(r)
    BY <2>2 DEF start_guard
  <2>3. CASE RecvLoopId(r)
    BY <2>3, NoneAssumption DEF RecvLoopId
  <2>4. CASE RecvErrno(r)
    BY <2>4 DEF RecvErrno
  <2>5. CASE MapIds(r)
    BY <2>5 DEF MapIds
  <2>6. CASE get_namespace_fds(r)
    BY <2>6 DEF get_namespace_fds
  <2>7. CASE GiveUp(r)
    BY <2>7 DEF GiveUp
  <2>8. CASE SetupFails(r)
    BY <2>8 DEF SetupFails, recv_timed_out
  <2>9. CASE KillGuard(r)
    BY <2>9 DEF KillGuard, kill_SIGKILL, Die, Alive, Inside
  <2>10. CASE registe_resource(r)
    BY <2>10 DEF registe_resource
  <2>11. CASE RegisterPoisoned(r)
    BY <2>11 DEF RegisterPoisoned
  <2>12. CASE send_back(r)
    BY <2>12 DEF send_back
  <2>13. CASE SendFails(r)
    BY <2>13 DEF SendFails, pdie
  <2>14. CASE close_fds(r)
    BY <2>14 DEF close_fds
  <2>15. CASE Refuse(r)
    BY <2>15 DEF Refuse, pdie
  <2>. QED
    BY <1>3, <2>1, <2>2, <2>3, <2>4, <2>5, <2>6, <2>7, <2>8, <2>9, <2>10,
       <2>11, <2>12, <2>13, <2>14, <2>15 DEF worker
<1>4. ASSUME NEW g \in Req, guard_ops(g) PROVE WorkerInv'
  <2> USE DEF Become
  <2>1. CASE GuardPrep(g)
    BY <2>1 DEF GuardPrep
  <2>2. ASSUME NEW d \in LoopId, GuardGetFree(g, d) PROVE WorkerInv'
    BY <2>2 DEF GuardGetFree, get_loop_dev
  <2>3. CASE GuardMntLoop(g)
    BY <2>3 DEF GuardMntLoop, bind_pkg
  <2>4. CASE GuardFails(g)
    BY <2>4 DEF GuardFails, bind_pkg
  <2>5. CASE GuardSeal(g)
    BY <2>5 DEF GuardSeal
  <2>6. CASE GuardSealFails(g)
    BY <2>6 DEF GuardSealFails
  <2>7. CASE GuardExit(g)
    BY <2>7 DEF GuardExit, Die, Inside
  <2>8. CASE GuardCrash(g)
    BY <2>8 DEF GuardCrash, Die, Alive, Inside
  <2>. QED
    BY <1>4, <2>1, <2>2, <2>3, <2>4, <2>5, <2>6, <2>7, <2>8 DEF guard_ops
<1>5. ASSUME NEW r \in Req, ClientTimeout(r) \/ ClientEnter(r) \/ ClientLeave(r)
     PROVE  WorkerInv'
  BY <1>5 DEF ClientTimeout, ClientEnter, ClientLeave
<1>6. CASE resource_worker
  <2> USE DEF Become
  <2>1. CASE ReaperWait
    BY <2>1 DEF ReaperWait
  <2>2. CASE ReaperRemove
    BY <2>2 DEF ReaperRemove
  <2>3. CASE ReaperClean
    BY <2>3 DEF ReaperClean
  <2>4. CASE ReaperDestroy
    BY <2>4 DEF ReaperDestroy
  <2>5. CASE ReaperSleep
    BY <2>5 DEF ReaperSleep, vars
  <2>. QED
    BY <1>6, <2>1, <2>2, <2>3, <2>4, <2>5 DEF resource_worker
<1>7. ASSUME NEW d \in LoopId, LoopAutoclear(d) PROVE WorkerInv'
  BY <1>7 DEF LoopAutoclear
<1>8. CASE ServerEnds
  BY <1>8 DEF ServerEnds
<1>9. CASE gen_server_socket
  BY <1>9 DEF gen_server_socket
<1>10. ASSUME NEW r \in Req, SendUnread(r) PROVE WorkerInv'
  BY <1>10 DEF SendUnread, Goto
<1>11. ASSUME NEW r \in Req, InitReaps(r) PROVE WorkerInv'
  BY <1>11 DEF InitReaps, Become
<1>. QED
  BY <1>0, <1>1, <1>2, <1>3, <1>4, <1>5, <1>6, <1>7, <1>8, <1>9, <1>10, <1>11 DEF Next

\* A device is bound by the guard that chose it, and let go only when that guard is dead.
LEMMA BindNext == IInv /\ [Next]_vars => BindInv'
<1> SUFFICES ASSUME IInv, [Next]_vars PROVE BindInv'
  OBVIOUS
<1> USE DEF IInv, TypeOK, LoopTypeOK, BindInv, Unbound, GuardInv, Running, loopVars,
           workerVars, guardVars, clientVars, reaperVars, sharedVars
<1>0. CASE UNCHANGED vars
  BY <1>0 DEF vars
<1>1. CASE StartJob
  BY <1>1 DEF StartJob
<1>2. ASSUME NEW r \in Req, uau_serve(r) PROVE BindInv'
  BY <1>2 DEF uau_serve
<1>3. ASSUME NEW r \in Req, worker(r) PROVE BindInv'
  <2>1. CASE start_guard(r)
    BY <2>1 DEF start_guard, WorkerInv, Waiting
  <2>2. CASE KillGuard(r)
    BY <2>2 DEF KillGuard, kill_SIGKILL, Die, Alive
  <2>3. CASE req_parse(r) \/ RecvLoopId(r) \/ RecvErrno(r) \/ MapIds(r) \/
            get_namespace_fds(r) \/ GiveUp(r) \/ SetupFails(r) \/ registe_resource(r) \/
            RegisterPoisoned(r) \/ send_back(r) \/ SendFails(r) \/ close_fds(r) \/
            Refuse(r)
    BY <2>3 DEF req_parse, RecvLoopId, RecvErrno, MapIds, get_namespace_fds, GiveUp,
       SetupFails, recv_timed_out, registe_resource, RegisterPoisoned, send_back,
       SendFails, close_fds, Refuse
  <2>. QED
    BY <1>3, <2>1, <2>2, <2>3 DEF worker
<1>4. ASSUME NEW g \in Req, guard_ops(g) PROVE BindInv'
  <2> USE DEF Become
  <2>1. CASE GuardPrep(g)
    BY <2>1 DEF GuardPrep
  <2>2. ASSUME NEW d \in LoopId, GuardGetFree(g, d) PROVE BindInv'
    BY <2>2 DEF GuardGetFree, get_loop_dev
  <2>3. CASE GuardMntLoop(g)
    BY <2>3, NoneAssumption DEF GuardMntLoop, bind_pkg
  <2>4. CASE GuardFails(g)
    <3>1. CASE UNCHANGED loopVars
      BY <2>4, <3>1 DEF GuardFails
    <3>2. CASE guard[g] = "bind" /\ bind_pkg(gdev[g], g)
      BY <2>4, <3>2, NoneAssumption DEF GuardFails, bind_pkg
    <3>. QED
      BY <2>4, <3>1, <3>2 DEF GuardFails
  <2>5. CASE GuardSeal(g)
    BY <2>5 DEF GuardSeal
  <2>6. CASE GuardSealFails(g)
    BY <2>6 DEF GuardSealFails
  <2>7. CASE GuardExit(g)
    BY <2>7 DEF GuardExit, Die
  <2>8. CASE GuardCrash(g)
    BY <2>8 DEF GuardCrash, Die, Alive
  <2>. QED
    BY <1>4, <2>1, <2>2, <2>3, <2>4, <2>5, <2>6, <2>7, <2>8 DEF guard_ops
<1>5. ASSUME NEW r \in Req, ClientTimeout(r) \/ ClientEnter(r) \/ ClientLeave(r)
     PROVE  BindInv'
  BY <1>5 DEF ClientTimeout, ClientEnter, ClientLeave
<1>6. CASE resource_worker
  <2> USE DEF Become
  <2>1. CASE ReaperWait
    BY <2>1 DEF ReaperWait
  <2>2. CASE ReaperClean
    BY <2>2 DEF ReaperClean, loop_unbind, Info, Reports
  <2>3. CASE ReaperRemove \/ ReaperDestroy \/ ReaperSleep
    BY <2>3 DEF ReaperRemove, ReaperDestroy, loop_destroy, Info, LOOP_MASTER, Reports,
       ReaperSleep, vars
  <2>. QED
    BY <1>6, <2>1, <2>2, <2>3 DEF resource_worker
<1>7. ASSUME NEW d \in LoopId, LoopAutoclear(d) PROVE BindInv'
  BY <1>7 DEF LoopAutoclear, autoclear, NsHeld, Alive
<1>8. CASE ServerEnds
  BY <1>8 DEF ServerEnds
<1>9. CASE gen_server_socket
  BY <1>9 DEF gen_server_socket
<1>10. ASSUME NEW r \in Req, SendUnread(r) PROVE BindInv'
  BY <1>10 DEF SendUnread, Goto
<1>11. ASSUME NEW r \in Req, InitReaps(r) PROVE BindInv'
  BY <1>11 DEF InitReaps, Become
<1>. QED
  BY <1>0, <1>1, <1>2, <1>3, <1>4, <1>5, <1>6, <1>7, <1>8, <1>9, <1>10, <1>11 DEF Next

\* A RockerCfg moves from its worker to RESOURCE and from there to the reaper.
LEMMA CfgNext == IInv /\ [Next]_vars => CfgInv'
<1> SUFFICES ASSUME IInv, [Next]_vars PROVE CfgInv'
  OBVIOUS
<1> USE DEF IInv, TypeOK, LoopTypeOK, CfgInv, ResourceLocked, AfterReg, Waiting, InInit,
           NS, AfterInit, Finished, QueueInv, WorkerInv, PidInv, NextNs, loopVars,
           workerVars, guardVars, clientVars, reaperVars, sharedVars
<1>0. CASE UNCHANGED vars
  BY <1>0 DEF vars
<1>1. CASE StartJob
  BY <1>1 DEF StartJob
<1>2. ASSUME NEW r \in Req, uau_serve(r) PROVE CfgInv'
  BY <1>2 DEF uau_serve
<1>3. ASSUME NEW r \in Req, worker(r) PROVE CfgInv'
  <2> USE DEF Goto
  <2>1. CASE req_parse(r)
    BY <2>1 DEF req_parse
  <2>2. CASE start_guard(r)
    BY <2>2 DEF start_guard
  <2>3. CASE RecvLoopId(r)
    BY <2>3 DEF RecvLoopId
  <2>4. CASE RecvErrno(r)
    BY <2>4 DEF RecvErrno
  <2>5. CASE MapIds(r)
    BY <2>5 DEF MapIds
  <2>6. CASE get_namespace_fds(r)
    BY <2>6 DEF get_namespace_fds
  <2>7. CASE GiveUp(r)
    BY <2>7 DEF GiveUp
  <2>8. CASE SetupFails(r)
    BY <2>8 DEF SetupFails, recv_timed_out
  <2>9. CASE KillGuard(r)
    BY <2>9 DEF KillGuard, kill_SIGKILL, Die, Alive
  <2>10. CASE registe_resource(r)
    BY <2>10 DEF registe_resource
  <2>11. CASE RegisterPoisoned(r)
    BY <2>11 DEF RegisterPoisoned
  <2>12. CASE send_back(r)
    BY <2>12 DEF send_back
  <2>13. CASE SendFails(r)
    BY <2>13 DEF SendFails, pdie
  <2>14. CASE close_fds(r)
    BY <2>14 DEF close_fds
  <2>15. CASE Refuse(r)
    BY <2>15 DEF Refuse, pdie
  <2>. QED
    BY <1>3, <2>1, <2>2, <2>3, <2>4, <2>5, <2>6, <2>7, <2>8, <2>9, <2>10,
       <2>11, <2>12, <2>13, <2>14, <2>15 DEF worker
<1>4. ASSUME NEW g \in Req, guard_ops(g) PROVE CfgInv'
  <2>1. CASE GuardPrep(g) \/ (\E d \in LoopId : GuardGetFree(g, d)) \/
            GuardMntLoop(g) \/ GuardFails(g) \/ GuardSeal(g) \/ GuardSealFails(g) \/
            GuardExit(g) \/ GuardCrash(g)
    BY <2>1 DEF GuardPrep, GuardGetFree, GuardMntLoop, GuardFails, GuardSeal,
       GuardSealFails, GuardExit, GuardCrash
  <2>. QED
    BY <1>4, <2>1 DEF guard_ops
<1>5. ASSUME NEW r \in Req, ClientTimeout(r) \/ ClientEnter(r) \/ ClientLeave(r)
     PROVE  CfgInv'
  BY <1>5 DEF ClientTimeout, ClientEnter, ClientLeave
<1>6. CASE resource_worker
  <2>1. CASE ReaperWait
    BY <2>1 DEF ReaperWait
  <2>2. CASE ReaperRemove
    BY <2>2 DEF ReaperRemove
  <2>3. CASE ReaperClean
    BY <2>3 DEF ReaperClean, loop_unbind, Info, Reports
  <2>4. CASE ReaperDestroy
    BY <2>4 DEF ReaperDestroy, loop_destroy, Info, LOOP_MASTER, Reports
  <2>5. CASE ReaperSleep
    BY <2>5 DEF ReaperSleep, vars
  <2>. QED
    BY <1>6, <2>1, <2>2, <2>3, <2>4, <2>5 DEF resource_worker
<1>7. ASSUME NEW d \in LoopId, LoopAutoclear(d) PROVE CfgInv'
  BY <1>7 DEF LoopAutoclear
<1>8. CASE ServerEnds
  BY <1>8 DEF ServerEnds
<1>9. CASE gen_server_socket
  BY <1>9 DEF gen_server_socket
<1>10. ASSUME NEW r \in Req, SendUnread(r) PROVE CfgInv'
  BY <1>10 DEF SendUnread, Goto
<1>11. ASSUME NEW r \in Req, InitReaps(r) PROVE CfgInv'
  BY <1>11 DEF InitReaps, Become
<1>. QED
  BY <1>0, <1>1, <1>2, <1>3, <1>4, <1>5, <1>6, <1>7, <1>8, <1>9, <1>10, <1>11 DEF Next

\* Only the reaper's clean marks a device, and its RockerCfg is gone afterwards.
LEMMA OwnedNext == IInv /\ [Next]_vars => OwnedInv'
<1> SUFFICES ASSUME IInv, [Next]_vars PROVE OwnedInv'
  OBVIOUS
<1> USE DEF IInv, TypeOK, LoopTypeOK, OwnedInv, Owned, HasCfg, CfgInv, ResourceLocked,
           AfterReg, Waiting, InInit, NS, AfterInit, Finished, QueueInv, WorkerInv,
           GuardInv, BindInv, PidInv, Unbound, NextNs, loopVars, workerVars, guardVars,
           clientVars, reaperVars, sharedVars
<1>0. CASE UNCHANGED vars
  BY <1>0 DEF vars
<1>1. CASE StartJob
  BY <1>1 DEF StartJob
<1>2. ASSUME NEW r \in Req, uau_serve(r) PROVE OwnedInv'
  BY <1>2 DEF uau_serve
<1>3. ASSUME NEW r \in Req, worker(r) PROVE OwnedInv'
  <2> USE DEF Goto
  <2>1. CASE req_parse(r)
    BY <2>1 DEF req_parse
  <2>2. CASE start_guard(r)
    BY <2>2 DEF start_guard
  <2>3. CASE RecvLoopId(r)
    BY <2>3 DEF RecvLoopId
  <2>4. CASE RecvErrno(r)
    BY <2>4 DEF RecvErrno
  <2>5. CASE MapIds(r)
    BY <2>5 DEF MapIds
  <2>6. CASE get_namespace_fds(r)
    BY <2>6 DEF get_namespace_fds
  <2>7. CASE GiveUp(r)
    BY <2>7 DEF GiveUp
  <2>8. CASE SetupFails(r)
    BY <2>8 DEF SetupFails, recv_timed_out
  <2>9. CASE KillGuard(r)
    BY <2>9 DEF KillGuard, kill_SIGKILL, Die, Alive
  <2>10. CASE registe_resource(r)
    BY <2>10 DEF registe_resource
  <2>11. CASE RegisterPoisoned(r)
    BY <2>11 DEF RegisterPoisoned
  <2>12. CASE send_back(r)
    BY <2>12 DEF send_back
  <2>13. CASE SendFails(r)
    BY <2>13 DEF SendFails, pdie
  <2>14. CASE close_fds(r)
    BY <2>14 DEF close_fds
  <2>15. CASE Refuse(r)
    BY <2>15 DEF Refuse, pdie
  <2>. QED
    BY <1>3, <2>1, <2>2, <2>3, <2>4, <2>5, <2>6, <2>7, <2>8, <2>9, <2>10,
       <2>11, <2>12, <2>13, <2>14, <2>15 DEF worker
<1>4. ASSUME NEW g \in Req, guard_ops(g) PROVE OwnedInv'
  <2>1. ASSUME NEW d \in LoopId, GuardGetFree(g, d) PROVE OwnedInv'
    BY <2>1 DEF GuardGetFree, get_loop_dev
  <2>2. CASE GuardMntLoop(g)
    BY <2>2, NoneAssumption DEF GuardMntLoop, bind_pkg
  <2>3. CASE GuardFails(g)
    <3>1. CASE UNCHANGED loopVars
      BY <2>3, <3>1 DEF GuardFails
    <3>2. CASE guard[g] = "bind" /\ bind_pkg(gdev[g], g)
      BY <2>3, <3>2, NoneAssumption DEF GuardFails, bind_pkg
    <3>. QED
      BY <2>3, <3>1, <3>2 DEF GuardFails
  <2>4. CASE GuardPrep(g) \/ GuardSeal(g) \/ GuardSealFails(g) \/ GuardExit(g) \/
            GuardCrash(g)
    BY <2>4 DEF GuardPrep, GuardSeal, GuardSealFails, GuardExit, Die, GuardCrash, Alive
  <2>. QED
    BY <1>4, <2>1, <2>2, <2>3, <2>4 DEF guard_ops
<1>5. ASSUME NEW r \in Req, ClientTimeout(r) \/ ClientEnter(r) \/ ClientLeave(r)
     PROVE  OwnedInv'
  BY <1>5 DEF ClientTimeout, ClientEnter, ClientLeave
<1>6. CASE resource_worker
  <2>1. CASE ReaperWait
    BY <2>1 DEF ReaperWait
  <2>2. CASE ReaperRemove
    <3>1. \A r \in Req : Owned(r)' => Owned(r)
      BY <2>2, NoneAssumption DEF ReaperRemove
    <3>. QED
      BY <2>2, <3>1 DEF ReaperRemove
  <2>3. CASE ReaperClean
    BY <2>3 DEF ReaperClean, loop_unbind, Info, Reports
  <2>4. CASE ReaperDestroy
    BY <2>4 DEF ReaperDestroy, loop_destroy, Info, LOOP_MASTER, Reports
  <2>5. CASE ReaperSleep
    BY <2>5 DEF ReaperSleep, vars
  <2>. QED
    BY <1>6, <2>1, <2>2, <2>3, <2>4, <2>5 DEF resource_worker
<1>7. ASSUME NEW d \in LoopId, LoopAutoclear(d) PROVE OwnedInv'
  BY <1>7 DEF LoopAutoclear, autoclear
<1>8. CASE ServerEnds
  <2>1. \A r \in Req : Owned(r)' => Owned(r)
    BY <1>8, NoneAssumption DEF ServerEnds
  <2>. QED
    BY <1>8, <2>1 DEF ServerEnds
<1>9. CASE gen_server_socket
  BY <1>9 DEF gen_server_socket
<1>10. ASSUME NEW r \in Req, SendUnread(r) PROVE OwnedInv'
  BY <1>10 DEF SendUnread, Goto
<1>11. ASSUME NEW r \in Req, InitReaps(r) PROVE OwnedInv'
  BY <1>11 DEF InitReaps, Become
<1>. QED
  BY <1>0, <1>1, <1>2, <1>3, <1>4, <1>5, <1>6, <1>7, <1>8, <1>9, <1>10, <1>11 DEF Next

\* A new server starts only after the guards of the old one, whose workers ended with it.
LEMMA GenerationNext == IInv /\ [Next]_vars => GenerationInv'
<1> SUFFICES ASSUME IInv, [Next]_vars PROVE GenerationInv'
  OBVIOUS
<1> USE DEF IInv, TypeOK, LoopTypeOK, GenerationInv, Alive, Running, WorkerInv, Waiting,
           InInit, AfterInit, NextNs, NS, Finished, QueueInv, loopVars, workerVars,
           guardVars, clientVars, reaperVars, sharedVars
<1>0. CASE UNCHANGED vars
  BY <1>0 DEF vars
<1>1. CASE StartJob
  BY <1>1 DEF StartJob
<1>2. ASSUME NEW r \in Req, uau_serve(r) PROVE GenerationInv'
  BY <1>2 DEF uau_serve
<1>3. ASSUME NEW r \in Req, worker(r) PROVE GenerationInv'
  <2> USE DEF Goto
  <2>1. CASE req_parse(r)
    BY <2>1 DEF req_parse
  <2>2. CASE start_guard(r)
    BY <2>2 DEF start_guard, Alive
  <2>3. CASE RecvLoopId(r)
    BY <2>3 DEF RecvLoopId
  <2>4. CASE RecvErrno(r)
    BY <2>4 DEF RecvErrno
  <2>5. CASE MapIds(r)
    BY <2>5 DEF MapIds
  <2>6. CASE get_namespace_fds(r)
    BY <2>6 DEF get_namespace_fds
  <2>7. CASE GiveUp(r)
    BY <2>7 DEF GiveUp
  <2>8. CASE SetupFails(r)
    BY <2>8 DEF SetupFails, recv_timed_out
  <2>9. CASE KillGuard(r)
    BY <2>9 DEF KillGuard, kill_SIGKILL, Die, Alive
  <2>10. CASE registe_resource(r)
    BY <2>10 DEF registe_resource
  <2>11. CASE RegisterPoisoned(r)
    BY <2>11 DEF RegisterPoisoned
  <2>12. CASE send_back(r)
    BY <2>12 DEF send_back
  <2>13. CASE SendFails(r)
    BY <2>13 DEF SendFails, pdie
  <2>14. CASE close_fds(r)
    BY <2>14 DEF close_fds
  <2>15. CASE Refuse(r)
    BY <2>15 DEF Refuse, pdie
  <2>. QED
    BY <1>3, <2>1, <2>2, <2>3, <2>4, <2>5, <2>6, <2>7, <2>8, <2>9, <2>10,
       <2>11, <2>12, <2>13, <2>14, <2>15 DEF worker
<1>4. ASSUME NEW g \in Req, guard_ops(g) PROVE GenerationInv'
  <2> USE DEF Become
  <2>1. CASE GuardPrep(g)
    BY <2>1 DEF GuardPrep
  <2>2. ASSUME NEW d \in LoopId, GuardGetFree(g, d) PROVE GenerationInv'
    BY <2>2 DEF GuardGetFree, get_loop_dev
  <2>3. CASE GuardMntLoop(g)
    BY <2>3 DEF GuardMntLoop, bind_pkg
  <2>4. CASE GuardFails(g)
    BY <2>4 DEF GuardFails, bind_pkg
  <2>5. CASE GuardSeal(g)
    BY <2>5 DEF GuardSeal
  <2>6. CASE GuardSealFails(g)
    BY <2>6 DEF GuardSealFails
  <2>7. CASE GuardExit(g)
    BY <2>7 DEF GuardExit, Die
  <2>8. CASE GuardCrash(g)
    BY <2>8 DEF GuardCrash, Die, Alive
  <2>. QED
    BY <1>4, <2>1, <2>2, <2>3, <2>4, <2>5, <2>6, <2>7, <2>8 DEF guard_ops
<1>5. ASSUME NEW r \in Req, ClientTimeout(r) \/ ClientEnter(r) \/ ClientLeave(r)
     PROVE  GenerationInv'
  BY <1>5 DEF ClientTimeout, ClientEnter, ClientLeave
<1>6. CASE resource_worker
  <2> USE DEF Become
  <2>1. CASE ReaperWait
    BY <2>1 DEF ReaperWait
  <2>2. CASE ReaperRemove
    BY <2>2 DEF ReaperRemove
  <2>3. CASE ReaperClean
    BY <2>3 DEF ReaperClean, loop_unbind, Info, Reports
  <2>4. CASE ReaperDestroy
    BY <2>4 DEF ReaperDestroy, loop_destroy, Info, LOOP_MASTER, Reports
  <2>5. CASE ReaperSleep
    BY <2>5 DEF ReaperSleep, vars
  <2>. QED
    BY <1>6, <2>1, <2>2, <2>3, <2>4, <2>5 DEF resource_worker
<1>7. ASSUME NEW d \in LoopId, LoopAutoclear(d) PROVE GenerationInv'
  BY <1>7 DEF LoopAutoclear
<1>8. CASE ServerEnds
  BY <1>8 DEF ServerEnds
<1>9. CASE gen_server_socket
  BY <1>9 DEF gen_server_socket, AddressTaken
<1>10. ASSUME NEW r \in Req, SendUnread(r) PROVE GenerationInv'
  BY <1>10 DEF SendUnread, Goto
<1>11. ASSUME NEW r \in Req, InitReaps(r) PROVE GenerationInv'
  BY <1>11 DEF InitReaps, Become, Alive
<1>. QED
  BY <1>0, <1>1, <1>2, <1>3, <1>4, <1>5, <1>6, <1>7, <1>8, <1>9, <1>10, <1>11 DEF Next

\* Descriptors are opened after the request was parsed, and the namespaces' are closed with it.
LEMMA FdNext == IInv /\ [Next]_vars => FdInv'
<1> SUFFICES ASSUME IInv, [Next]_vars PROVE FdInv'
  OBVIOUS
<1> USE DEF IInv, TypeOK, LoopTypeOK, FdInv, WorkerInv, Waiting, InInit, AfterInit,
           NextNs, NoFds, NS, Finished, QueueInv, loopVars, workerVars, guardVars,
           clientVars, reaperVars, sharedVars
<1>0. CASE UNCHANGED vars
  BY <1>0 DEF vars
<1>1. CASE StartJob
  BY <1>1 DEF StartJob
<1>2. ASSUME NEW r \in Req, uau_serve(r) PROVE FdInv'
  BY <1>2 DEF uau_serve
<1>3. ASSUME NEW r \in Req, worker(r) PROVE FdInv'
  <2> USE DEF Goto
  <2>1. CASE req_parse(r)
    BY <2>1 DEF req_parse
  <2>2. CASE start_guard(r)
    BY <2>2 DEF start_guard
  <2>3. CASE RecvLoopId(r)
    BY <2>3 DEF RecvLoopId
  <2>4. CASE RecvErrno(r)
    BY <2>4 DEF RecvErrno
  <2>5. CASE MapIds(r)
    BY <2>5 DEF MapIds
  <2>6. CASE get_namespace_fds(r)
    BY <2>6 DEF get_namespace_fds
  <2>7. CASE GiveUp(r)
    BY <2>7 DEF GiveUp
  <2>8. CASE SetupFails(r)
    BY <2>8 DEF SetupFails, recv_timed_out
  <2>9. CASE KillGuard(r)
    BY <2>9 DEF KillGuard, kill_SIGKILL, Die, Alive
  <2>10. CASE registe_resource(r)
    BY <2>10 DEF registe_resource
  <2>11. CASE RegisterPoisoned(r)
    BY <2>11 DEF RegisterPoisoned
  <2>12. CASE send_back(r)
    BY <2>12 DEF send_back
  <2>13. CASE SendFails(r)
    BY <2>13 DEF SendFails, pdie
  <2>14. CASE close_fds(r)
    BY <2>14 DEF close_fds
  <2>15. CASE Refuse(r)
    BY <2>15 DEF Refuse, pdie
  <2>. QED
    BY <1>3, <2>1, <2>2, <2>3, <2>4, <2>5, <2>6, <2>7, <2>8, <2>9, <2>10,
       <2>11, <2>12, <2>13, <2>14, <2>15 DEF worker
<1>4. ASSUME NEW g \in Req, guard_ops(g) PROVE FdInv'
  <2>1. CASE GuardPrep(g) \/ (\E d \in LoopId : GuardGetFree(g, d)) \/
            GuardMntLoop(g) \/ GuardFails(g) \/ GuardSeal(g) \/ GuardSealFails(g) \/
            GuardExit(g) \/ GuardCrash(g)
    BY <2>1 DEF GuardPrep, GuardGetFree, GuardMntLoop, GuardFails, GuardSeal,
       GuardSealFails, GuardExit, GuardCrash
  <2>. QED
    BY <1>4, <2>1 DEF guard_ops
<1>5. ASSUME NEW r \in Req, ClientTimeout(r) \/ ClientEnter(r) \/ ClientLeave(r)
     PROVE  FdInv'
  BY <1>5 DEF ClientTimeout, ClientEnter, ClientLeave
<1>6. CASE resource_worker
  <2>1. CASE ReaperWait
    BY <2>1 DEF ReaperWait
  <2>2. CASE ReaperRemove
    BY <2>2 DEF ReaperRemove
  <2>3. CASE ReaperClean
    BY <2>3 DEF ReaperClean
  <2>4. CASE ReaperDestroy
    BY <2>4 DEF ReaperDestroy
  <2>5. CASE ReaperSleep
    BY <2>5 DEF ReaperSleep, vars
  <2>. QED
    BY <1>6, <2>1, <2>2, <2>3, <2>4, <2>5 DEF resource_worker
<1>7. ASSUME NEW d \in LoopId, LoopAutoclear(d) PROVE FdInv'
  BY <1>7 DEF LoopAutoclear
<1>8. CASE ServerEnds
  BY <1>8 DEF ServerEnds
<1>9. CASE gen_server_socket
  BY <1>9 DEF gen_server_socket
<1>10. ASSUME NEW r \in Req, SendUnread(r) PROVE FdInv'
  BY <1>10 DEF SendUnread, Goto
<1>11. ASSUME NEW r \in Req, InitReaps(r) PROVE FdInv'
  BY <1>11 DEF InitReaps, Become
<1>. QED
  BY <1>0, <1>1, <1>2, <1>3, <1>4, <1>5, <1>6, <1>7, <1>8, <1>9, <1>10, <1>11 DEF Next

LEMMA InvInit == Init => IInv
<1> SUFFICES ASSUME Init PROVE IInv
  OBVIOUS
<1>1. TypeOK /\ PidInv
  BY TypeInit DEF TypeInv
<1> USE DEF Init, LoopInit
<1>2. PidUnique /\ QueueInv /\ GuardInv
  BY DEF PidUnique, Unreaped, QueueInv, GuardInv
<1>3. WorkerInv
  BY DEF WorkerInv, Waiting, InInit, AfterInit, NS
<1>4. BindInv /\ CfgInv /\ OwnedInv
  BY NoneAssumption DEF BindInv, CfgInv, ResourceLocked, OwnedInv
<1>5. GenerationInv /\ FdInv
  BY DEF GenerationInv, Alive, Running, FdInv, NoFds
<1>. QED
  BY <1>1, <1>2, <1>3, <1>4, <1>5 DEF IInv

LEMMA InvNext == IInv /\ [Next]_vars => IInv'
<1>1. IInv => TypeInv
  BY DEF IInv, TypeInv
<1>2. IInv /\ [Next]_vars => TypeOK' /\ PidInv'
  BY <1>1, TypeNext DEF TypeInv
<1>. QED
  BY <1>2, UniqueNext, QueueNext, GuardNext, WorkerNext, BindNext, CfgNext, OwnedNext,
     GenerationNext, FdNext
     DEF IInv

\* The invariant holds throughout, whatever the pids do.
THEOREM Invariant == Spec => []IInv
BY InvInit, InvNext, PTL DEF Spec

-----------------------------------------------------------------------------
(* What the invariant says of the loop devices. *)

\* A guard past its mount has a device of its own for as long as it runs.
THEOREM Exclusive == Spec => []LoopExclusive
<1>1. IInv => LoopExclusive
  BY NoneAssumption DEF IInv, GuardInv, BindInv, LoopExclusive
<1>. QED
  BY <1>1, Invariant, PTL

\* What the resource worker unbinds belongs to the RockerCfg it removed from
\* the map, and has not been unbound before.
THEOREM ReleasesOwn == Spec => []ReleaseOwn
<1>1. IInv => ReleaseOwn
  <2> SUFFICES ASSUME IInv, rpc = "clean" PROVE ReleaseOwn
    BY DEF ReleaseOwn
  <2>1. rcfg \in Req /\ loopId[rcfg] # None
    BY DEF IInv, PidInv, CfgInv, ResourceLocked
  <2>2. dgram1[rcfg] = "id" /\ loopId[rcfg] = gdev[rcfg] /\ gdev[rcfg] \in LoopId
    BY <2>1 DEF IInv, WorkerInv, GuardInv
  <2>3. bind[gdev[rcfg]] = rcfg /\ gdev[rcfg] \notin auto
    BY <2>1, <2>2 DEF IInv, OwnedInv, Owned
  <2>. QED
    BY <2>2, <2>3 DEF ReleaseOwn
<1>. QED
  BY <1>1, Invariant, PTL

-----------------------------------------------------------------------------
(* What it says of servers that end and of descriptors. *)

\* Guards of an earlier server and guards of this one never run together.
THEOREM Generations == Spec => []OneGeneration
<1>1. IInv => OneGeneration
  BY DEF IInv, GenerationInv, WorkerInv, Waiting, Alive, Running, OneGeneration
<1>. QED
  BY <1>1, Invariant, PTL

\* Descriptors that stay open are paid for by requests: two of the socket pair
\* each, and three namespaces unless the worker came to its end.
THEOREM Leaks ==
    ASSUME IsFiniteSet(Req)
    PROVE  Spec => []LeakBound
<1>1. IInv => LeakBound
  <2> SUFFICES ASSUME IInv PROVE LeakBound
    OBVIOUS
  <2> DEFINE delivered == {r \in Req : pc[r] = "done"}
             others == {r \in Req : pc[r] \notin Waiting \cup {"parse", "done", "lost"}}
             open == {x \in Req \X NS : fds[x[1]][x[2]] # None}
  <2>1. /\ IsFiniteSet(delivered) /\ Cardinality(delivered) \in Nat
        /\ IsFiniteSet(others) /\ Cardinality(others) \in Nat
    BY FS_Subset, FS_CardinalityType
  <2>2. IsFiniteSet(NS) /\ Cardinality(NS) = 3
    <3> DEFINE one == {"mnt"}
               two == one \cup {"pid"}
    <3>1. IsFiniteSet(one) /\ Cardinality(one) = 1 /\ "pid" \notin one
      BY FS_Singleton
    <3>2. IsFiniteSet(two) /\ Cardinality(two) = 2 /\ "user" \notin two
      <4> HIDE DEF one
      <4>1. IsFiniteSet(two) /\ Cardinality(two) = 2
        BY <3>1, FS_AddElement
      <4>. QED
        BY <4>1 DEF one
    <3>3. NS = two \cup {"user"}
      BY DEF NS
    <3> HIDE DEF two
    <3>4. IsFiniteSet(two \cup {"user"}) /\ Cardinality(two \cup {"user"}) = 3
      BY <3>2, FS_AddElement
    <3>. QED
      BY <3>3, <3>4
  <2>3. Cardinality(pair) \in Nat /\ Cardinality(pair) <= Cardinality(delivered) + Cardinality(others)
    <3>1. pair \in SUBSET (delivered \cup others)
      BY DEF IInv, TypeOK, FdInv
    <3>2. /\ IsFiniteSet(delivered \cup others)
          /\ Cardinality(delivered \cup others) <= Cardinality(delivered) + Cardinality(others)
      <4>1. IsFiniteSet(delivered \cap others) /\ Cardinality(delivered \cap others) \in Nat
        BY <2>1, FS_Subset, FS_CardinalityType
      <4> HIDE DEF delivered, others
      <4>2. /\ IsFiniteSet(delivered \cup others)
            /\ Cardinality(delivered \cup others) =
                 Cardinality(delivered) + Cardinality(others) - Cardinality(delivered \cap others)
        BY <2>1, FS_Union
      <4>. QED
        BY <2>1, <4>1, <4>2
    <3> HIDE DEF delivered, others
    <3>. QED
      BY <2>1, <3>1, <3>2, FS_Subset, FS_CardinalityType
  <2>4. Cardinality(open) \in Nat /\ Cardinality(open) <= 3 * Cardinality(others)
    <3>1. open \in SUBSET (others \X NS)
      BY DEF IInv, FdInv
    <3> HIDE DEF open, others
    <3>2. IsFiniteSet(others \X NS) /\ Cardinality(others \X NS) = Cardinality(others) * 3
      BY <2>1, <2>2, FS_Product
    <3>. QED
      BY <2>1, <3>1, <3>2, FS_Subset, FS_CardinalityType
  <2>5. OpenFds = 2 * Cardinality(pair) + Cardinality(open) + (IF ctl THEN 1 ELSE 0)
    BY DEF OpenFds
  <2> HIDE DEF delivered, others, open
  <2>6. OpenFds <= 1 + 2 * Cardinality(delivered) + 5 * Cardinality(others)
    BY <2>1, <2>3, <2>4, <2>5
  <2>. QED
    BY <2>6 DEF LeakBound, delivered, others
<1>. QED
  BY <1>1, Invariant, PTL
=============================================================================
