------------------------- MODULE RockerEntryProofs -------------------------
(***************************************************************************)
(* Theorems about what clients are sent and what RESOURCE keeps: as long as *)
(* no pid has been reused, a client gets its own sandbox, complete, and the *)
(* reaper finds the RockerCfg of every guard a client was told about.       *)
(***************************************************************************)
EXTENDS RockerMasterProofs

\* The two invariants together.
EInv == IInv /\ EntryInv

-----------------------------------------------------------------------------
(* Whoever is referred to exists. *)

\* Descriptors are opened on guards that live, replies are complete.
LEMMA NamesNext == EInv /\ [Next]_vars => NamesInv'
<1> SUFFICES ASSUME EInv, [Next]_vars PROVE NamesInv'
  OBVIOUS
<1> USE DEF EInv, EntryInv, IInv, TypeOK, LoopTypeOK, NamesInv, HasAll, Served,
           WorkerInv, GuardInv, Waiting, InInit, AfterInit, NextNs, NoFds, NS, Finished,
           QueueInv, Running, loopVars, workerVars, guardVars, clientVars, reaperVars,
           sharedVars
<1>0. CASE UNCHANGED vars
  BY <1>0 DEF vars
<1>1. CASE StartJob
  BY <1>1 DEF StartJob
<1>2. ASSUME NEW r \in Req, uau_serve(r) PROVE NamesInv'
  BY <1>2 DEF uau_serve
<1>3. ASSUME NEW r \in Req, worker(r) PROVE NamesInv'
  <2> USE DEF Goto
  <2>1. CASE req_parse(r)
    BY <2>1 DEF req_parse
  <2>2. CASE start_guard(r)
    BY <2>2 DEF start_guard
  <2>3. CASE RecvLoopId(r)
    BY <2>3 DEF RecvLoopId
  <2>4. CASE RecvErrno(r)
    BY <2>4 DEF RecvErrno
  <2>5. CASE MapIds(r)
    BY <2>5 DEF MapIds
  <2>6. CASE get_namespace_fds(r)
    <3>1. PICK g \in Req : Alive(g) /\ fds' = [fds EXCEPT ![r][pc[r]] = g]
      BY <2>6 DEF get_namespace_fds
    <3>2. \A x \in Req, ns \in NS :
            fds'[x][ns] = IF x = r /\ ns = pc[r] THEN g ELSE fds[x][ns]
      BY <2>6, <3>1 DEF get_namespace_fds
    <3>3. \A x \in Req : pc'[x] = IF x = r THEN NextNs[pc[r]] ELSE pc[x]
      BY <2>6 DEF get_namespace_fds
    <3>4. /\ UNCHANGED <<guard, pid, client, entry, sealed>>
          /\ pc[r] \in NS /\ g # None /\ guard[g] # "none"
      BY <2>6, <3>1, NoneAssumption DEF get_namespace_fds, Alive
    <3>5. ASSUME NEW x \in Req, NEW ns \in NS, fds'[x][ns] # None
          PROVE  guard'[fds'[x][ns]] # "none"
      <4>1. fds'[x][ns] = IF x = r /\ ns = pc[r] THEN g ELSE fds[x][ns]
        BY <3>2
      <4>2. CASE x = r /\ ns = pc[r]
        BY <4>1, <4>2, <3>4, Zenon
      <4>3. CASE ~(x = r /\ ns = pc[r])
        <5>1. fds'[x][ns] = fds[x][ns]
          BY <4>1, <4>3, Zenon
        <5>2. guard[fds[x][ns]] # "none"
          BY <5>1, <3>5
        <5>. QED
          BY <5>1, <5>2, <3>4, Zenon
      <4>. QED
        BY <4>2, <4>3, Zenon
    <3>6. ASSUME NEW x \in Req, Served(x)'
          PROVE  x \in sealed /\ pc'[x] \in {"close", "done", "lost"}
      <4>1. x \in sealed /\ pc[x] \in {"close", "done", "lost"}
        BY <3>4, <3>6
      <4>2. x # r
        BY <4>1, <3>4
      <4>. QED
        BY <4>1, <4>2, <3>3
    <3>7. \A x \in Req :
            /\ pc'[x] \in {"pid", "user"} \cup HasAll => fds'[x].mnt # None
            /\ pc'[x] \in {"user"} \cup HasAll => fds'[x].pid # None
            /\ pc'[x] \in HasAll => fds'[x].user # None
      BY <3>2, <3>3, <3>4
    <3>. QED
      BY <3>4, <3>5, <3>6, <3>7
  <2>7. CASE GiveUp(r)
    BY <2>7 DEF GiveUp
  <2>8. CASE SetupFails(r)
    BY <2>8 DEF SetupFails, recv_timed_out
  <2>9. CASE KillGuard(r)
    <3>1. \A x \in Req : /\ Served(x)' => Served(x) /\ entry'[x] = entry[x]
                        /\ entry'[x] \in {entry[x], NoFds}
      BY <2>9 DEF KillGuard, kill_SIGKILL, Die
    <3>2. \A g \in Req : guard'[g] = "none" <=> guard[g] = "none"
      BY <2>9 DEF KillGuard, kill_SIGKILL, Die, Alive
    <3>. QED
      BY <2>9, <3>1, <3>2 DEF KillGuard
  <2>10. CASE registe_resource(r)
    BY <2>10 DEF registe_resource
  <2>11. CASE RegisterPoisoned(r)
    BY <2>11 DEF RegisterPoisoned
  <2>12. CASE send_back(r)
    BY <2>12 DEF send_back
  <2>13. CASE SendFails(r)
    BY <2>13 DEF SendFails, pdie
  <2>14. CASE close_fds(r)
    BY <2>14 DEF close_fds
  <2>15. CASE Refuse(r)
    BY <2>15 DEF Refuse, pdie
  <2>. QED
    BY <1>3, <2>1, <2>2, <2>3, <2>4, <2>5, <2>6, <2>7, <2>8, <2>9, <2>10,
       <2>11, <2>12, <2>13, <2>14, <2>15 DEF worker
<1>4. ASSUME NEW g \in Req, guard_ops(g) PROVE NamesInv'
  <2> USE DEF Become
  <2>1. CASE GuardPrep(g)
    BY <2>1 DEF GuardPrep
  <2>2. ASSUME NEW d \in LoopId, GuardGetFree(g, d) PROVE NamesInv'
    BY <2>2 DEF GuardGetFree, get_loop_dev
  <2>3. CASE GuardMntLoop(g)
    BY <2>3 DEF GuardMntLoop, bind_pkg
  <2>4. CASE GuardFails(g)
    BY <2>4 DEF GuardFails, bind_pkg
  <2>5. CASE GuardSeal(g)
    BY <2>5 DEF GuardSeal
  <2>6. CASE GuardSealFails(g)
    BY <2>6 DEF GuardSealFails
  <2>7. CASE GuardExit(g)
    BY <2>7 DEF GuardExit, Die, Inside
  <2>8. CASE GuardCrash(g)
    BY <2>8 DEF GuardCrash, Die, Alive, Inside
  <2>. QED
    BY <1>4, <2>1, <2>2, <2>3, <2>4, <2>5, <2>6, <2>7, <2>8 DEF guard_ops
<1>5. ASSUME NEW r \in Req, ClientTimeout(r) \/ ClientEnter(r) \/ ClientLeave(r)
     PROVE  NamesInv'
  <2>1. CASE ClientTimeout(r)
    BY <2>1 DEF ClientTimeout
  <2>2. CASE ClientEnter(r)
    BY <2>2 DEF ClientEnter
  <2>3. CASE ClientLeave(r)
    BY <2>3 DEF ClientLeave
  <2>. QED
    BY <1>5, <2>1, <2>2, <2>3
<1>6. CASE resource_worker
  <2> USE DEF Become
  <2>1. CASE ReaperWait
    BY <2>1 DEF ReaperWait
  <2>2. CASE ReaperRemove
    BY <2>2 DEF ReaperRemove
  <2>3. CASE ReaperClean
    BY <2>3 DEF ReaperClean
  <2>4. CASE ReaperDestroy
    BY <2>4 DEF ReaperDestroy
  <2>5. CASE ReaperSleep
    BY <2>5 DEF ReaperSleep, vars
  <2>. QED
    BY <1>6, <2>1, <2>2, <2>3, <2>4, <2>5 DEF resource_worker
<1>7. ASSUME NEW d \in LoopId, LoopAutoclear(d) PROVE NamesInv'
  BY <1>7 DEF LoopAutoclear
<1>8. CASE ServerEnds
  BY <1>8 DEF ServerEnds
<1>9. CASE gen_server_socket
  BY <1>9 DEF gen_server_socket
<1>10. ASSUME NEW r \in Req, SendUnread(r) PROVE NamesInv'
  BY <1>10 DEF SendUnread, Goto
<1>11. ASSUME NEW r \in Req, InitReaps(r) PROVE NamesInv'
  BY <1>11 DEF InitReaps, Become
<1>. QED
  BY <1>0, <1>1, <1>2, <1>3, <1>4, <1>5, <1>6, <1>7, <1>8, <1>9, <1>10, <1>11 DEF Next

-----------------------------------------------------------------------------
(* Until a pid comes again. *)

\* A guard's number is given once, by clone().
LEMMA PidStays ==
    EInv /\ [Next]_vars => \A x \in Req : pid'[x] = pid[x] \/ pid[x] = None
<1> DEFINE Stays == \A x \in Req : pid'[x] = pid[x] \/ pid[x] = None
<1> SUFFICES ASSUME EInv, [Next]_vars PROVE Stays
  OBVIOUS
<1> USE DEF EInv, EntryInv, IInv, TypeOK, LoopTypeOK, Waiting, WorkerInv, NamesInv,
           loopVars, workerVars, guardVars, clientVars, reaperVars, sharedVars
<1>0. CASE UNCHANGED vars
  BY <1>0 DEF vars
<1>1. CASE StartJob
  BY <1>1 DEF StartJob
<1>2. ASSUME NEW r \in Req, uau_serve(r) PROVE Stays
  BY <1>2 DEF uau_serve
<1>3. ASSUME NEW r \in Req, worker(r) PROVE Stays
  <2>1. CASE start_guard(r)
    BY <2>1 DEF start_guard
  <2>2. CASE req_parse(r) \/ RecvLoopId(r) \/ RecvErrno(r) \/ MapIds(r) \/
            get_namespace_fds(r) \/ GiveUp(r) \/ SetupFails(r) \/ KillGuard(r) \/
            registe_resource(r) \/ RegisterPoisoned(r) \/ send_back(r) \/
            SendFails(r) \/ close_fds(r) \/ Refuse(r)
    BY <2>2 DEF req_parse, RecvLoopId, RecvErrno, MapIds, get_namespace_fds, GiveUp,
       SetupFails, recv_timed_out, KillGuard, registe_resource, RegisterPoisoned,
       send_back, SendFails, close_fds, Refuse
  <2>. QED
    BY <1>3, <2>1, <2>2 DEF worker
<1>4. ASSUME NEW g \in Req, guard_ops(g) PROVE Stays
  <2>1. CASE GuardPrep(g) \/ (\E d \in LoopId : GuardGetFree(g, d)) \/
            GuardMntLoop(g) \/ GuardFails(g) \/ GuardSeal(g) \/ GuardSealFails(g) \/
            GuardExit(g) \/ GuardCrash(g)
    BY <2>1 DEF GuardPrep, GuardGetFree, GuardMntLoop, GuardFails, GuardSeal,
       GuardSealFails, GuardExit, GuardCrash
  <2>. QED
    BY <1>4, <2>1 DEF guard_ops
<1>5. ASSUME NEW r \in Req, ClientTimeout(r) \/ ClientEnter(r) \/ ClientLeave(r)
     PROVE  Stays
  BY <1>5 DEF ClientTimeout, ClientEnter, ClientLeave
<1>6. CASE resource_worker
  <2>1. CASE ReaperWait \/ ReaperRemove \/ ReaperClean \/ ReaperDestroy \/ ReaperSleep
    BY <2>1 DEF ReaperWait, ReaperRemove, ReaperClean, ReaperDestroy, ReaperSleep, vars
  <2>. QED
    BY <1>6, <2>1 DEF resource_worker
<1>7. ASSUME NEW d \in LoopId, LoopAutoclear(d) PROVE Stays
  BY <1>7 DEF LoopAutoclear
<1>8. CASE ServerEnds
  BY <1>8 DEF ServerEnds
<1>9. CASE gen_server_socket
  BY <1>9 DEF gen_server_socket
<1>10. ASSUME NEW r \in Req, SendUnread(r) PROVE Stays
  BY <1>10 DEF SendUnread, Goto
<1>11. ASSUME NEW r \in Req, InitReaps(r) PROVE Stays
  BY <1>11 DEF InitReaps, Become
<1>. QED
  BY <1>0, <1>1, <1>2, <1>3, <1>4, <1>5, <1>6, <1>7, <1>8, <1>9, <1>10, <1>11 DEF Next

\* So numbers that differ now have always differed.
LEMMA StillUnused ==
    ASSUME EInv, [Next]_vars, ~PidReused'
    PROVE  /\ OwnFds /\ OwnReg /\ OwnReaped
           /\ \A g, h \in Req : Unreaped(g) /\ pid[g] = pid[h] => g = h
           /\ \A g, h \in Req : pid[g] \in Pid /\ pid[g] = pid[h] => g = h
<1>1. ~PidReused
  BY PidStays DEF PidReused
<1>2. \A g, h \in Req : pid[g] # None /\ pid[g] = pid[h] => g = h
  BY <1>1 DEF PidReused
<1>3. \A g \in Req : Unreaped(g) => pid[g] \in Pid
  BY DEF EInv, IInv, TypeOK, PidInv, Unreaped
<1>. QED
  BY <1>1, <1>2, <1>3, PidAssumption DEF EInv, EntryInv, OwnInv

\* What a worker opens through /proc/<pid> is its own guard's.
LEMMA OwnFdsNext == EInv /\ [Next]_vars /\ ~PidReused' => OwnFds'
<1> SUFFICES ASSUME EInv, [Next]_vars, ~PidReused' PROVE OwnFds'
  OBVIOUS
<1>. /\ OwnFds /\ OwnReg /\ OwnReaped
     /\ \A g, h \in Req : Unreaped(g) /\ pid[g] = pid[h] => g = h
     /\ \A g, h \in Req : pid[g] \in Pid /\ pid[g] = pid[h] => g = h
  BY StillUnused
<1> USE DEF EInv, EntryInv, IInv, TypeOK, LoopTypeOK, OwnFds, Unreaped, Running, NoFds,
           NS, loopVars, workerVars, guardVars, clientVars, reaperVars, sharedVars
<1>0. CASE UNCHANGED vars
  BY <1>0 DEF vars
<1>1. CASE StartJob
  BY <1>1 DEF StartJob
<1>2. ASSUME NEW r \in Req, uau_serve(r) PROVE OwnFds'
  BY <1>2 DEF uau_serve
<1>3. ASSUME NEW r \in Req, worker(r) PROVE OwnFds'
  <2>1. CASE start_guard(r)
    BY <2>1 DEF start_guard
  <2>2. CASE get_namespace_fds(r)
    <3>1. PICK g \in Req : /\ Alive(g) /\ pid[g] = pid[r]
                            /\ fds' = [fds EXCEPT ![r][pc[r]] = g]
      BY <2>2 DEF get_namespace_fds
    <3>2. g = r
      BY <3>1 DEF Alive
    <3>. QED
      BY <2>2, <3>1, <3>2 DEF get_namespace_fds
  <2>3. CASE KillGuard(r)
    BY <2>3 DEF KillGuard, kill_SIGKILL, Die, Alive
  <2>4. CASE send_back(r)
    BY <2>4 DEF send_back
  <2>5. CASE close_fds(r)
    BY <2>5 DEF close_fds
  <2>6. CASE req_parse(r) \/ RecvLoopId(r) \/ RecvErrno(r) \/ MapIds(r) \/ GiveUp(r) \/
            SetupFails(r) \/ registe_resource(r) \/ RegisterPoisoned(r) \/
            SendFails(r) \/ Refuse(r)
    BY <2>6 DEF req_parse, RecvLoopId, RecvErrno, MapIds, GiveUp, SetupFails,
       recv_timed_out, registe_resource, RegisterPoisoned, SendFails, Refuse
  <2>. QED
    BY <1>3, <2>1, <2>2, <2>3, <2>4, <2>5, <2>6 DEF worker
<1>4. ASSUME NEW g \in Req, guard_ops(g) PROVE OwnFds'
  <2>1. CASE GuardExit(g)
    BY <2>1 DEF GuardExit, Die
  <2>2. CASE GuardCrash(g)
    BY <2>2 DEF GuardCrash, Die, Alive
  <2>3. CASE GuardPrep(g) \/ (\E d \in LoopId : GuardGetFree(g, d)) \/
            GuardMntLoop(g) \/ GuardFails(g) \/ GuardSeal(g) \/ GuardSealFails(g)
    BY <2>3 DEF GuardPrep, GuardGetFree, GuardMntLoop, GuardFails, GuardSeal,
       GuardSealFails
  <2>. QED
    BY <1>4, <2>1, <2>2, <2>3 DEF guard_ops
<1>5. ASSUME NEW r \in Req, ClientTimeout(r) \/ ClientEnter(r) \/ ClientLeave(r)
     PROVE  OwnFds'
  <2>1. CASE ClientTimeout(r) \/ ClientEnter(r)
    BY <2>1 DEF ClientTimeout, ClientEnter
  <2>2. CASE ClientLeave(r)
    BY <2>2 DEF ClientLeave
  <2>. QED
    BY <1>5, <2>1, <2>2
<1>6. CASE resource_worker
  <2>1. CASE ReaperWait \/ ReaperRemove \/ ReaperClean \/ ReaperDestroy \/ ReaperSleep
    BY <2>1 DEF ReaperWait, ReaperRemove, ReaperClean, ReaperDestroy, ReaperSleep, vars
  <2>. QED
    BY <1>6, <2>1 DEF resource_worker
<1>7. ASSUME NEW d \in LoopId, LoopAutoclear(d) PROVE OwnFds'
  BY <1>7 DEF LoopAutoclear
<1>8. CASE ServerEnds
  BY <1>8 DEF ServerEnds
<1>9. CASE gen_server_socket
  BY <1>9 DEF gen_server_socket
<1>10. ASSUME NEW r \in Req, SendUnread(r) PROVE OwnFds'
  BY <1>10 DEF SendUnread, Goto
<1>11. ASSUME NEW r \in Req, InitReaps(r) PROVE OwnFds'
  BY <1>11 DEF InitReaps, Become
<1>. QED
  BY <1>0, <1>1, <1>2, <1>3, <1>4, <1>5, <1>6, <1>7, <1>8, <1>9, <1>10, <1>11 DEF Next

\* What a worker registers stays until its guard is reaped.
LEMMA OwnRegNext == EInv /\ [Next]_vars /\ ~PidReused' => OwnReg'
<1> SUFFICES ASSUME EInv, [Next]_vars, ~PidReused' PROVE OwnReg'
  OBVIOUS
<1>. /\ OwnFds /\ OwnReg /\ OwnReaped
     /\ \A g, h \in Req : Unreaped(g) /\ pid[g] = pid[h] => g = h
     /\ \A g, h \in Req : pid[g] \in Pid /\ pid[g] = pid[h] => g = h
  BY StillUnused
<1> USE DEF EInv, EntryInv, IInv, TypeOK, LoopTypeOK, OwnReg, OwnReaped, Unreaped,
           Running, NextNs, NS, loopVars, workerVars, guardVars, clientVars, reaperVars,
           sharedVars
<1>0. CASE UNCHANGED vars
  BY <1>0 DEF vars
<1>1. CASE StartJob
  BY <1>1 DEF StartJob
<1>2. ASSUME NEW r \in Req, uau_serve(r) PROVE OwnReg'
  BY <1>2 DEF uau_serve
<1>3. ASSUME NEW r \in Req, worker(r) PROVE OwnReg'
  <2> USE DEF Goto
  <2>1. CASE req_parse(r)
    BY <2>1 DEF req_parse
  <2>2. CASE start_guard(r)
    BY <2>2 DEF start_guard
  <2>3. CASE RecvLoopId(r)
    BY <2>3 DEF RecvLoopId
  <2>4. CASE RecvErrno(r)
    BY <2>4 DEF RecvErrno
  <2>5. CASE MapIds(r)
    BY <2>5 DEF MapIds
  <2>6. CASE get_namespace_fds(r)
    BY <2>6 DEF get_namespace_fds
  <2>7. CASE GiveUp(r)
    BY <2>7 DEF GiveUp
  <2>8. CASE SetupFails(r)
    BY <2>8 DEF SetupFails, recv_timed_out
  <2>9. CASE KillGuard(r)
    BY <2>9 DEF KillGuard, kill_SIGKILL, Die, Alive
  <2>10. CASE registe_resource(r)
    BY <2>10 DEF registe_resource, WorkerInv, PidInv, AfterInit
  <2>11. CASE RegisterPoisoned(r)
    BY <2>11 DEF RegisterPoisoned
  <2>12. CASE send_back(r)
    BY <2>12 DEF send_back
  <2>13. CASE SendFails(r)
    BY <2>13 DEF SendFails, pdie
  <2>14. CASE close_fds(r)
    BY <2>14 DEF close_fds
  <2>15. CASE Refuse(r)
    BY <2>15 DEF Refuse, pdie
  <2>. QED
    BY <1>3, <2>1, <2>2, <2>3, <2>4, <2>5, <2>6, <2>7, <2>8, <2>9, <2>10,
       <2>11, <2>12, <2>13, <2>14, <2>15 DEF worker
<1>4. ASSUME NEW g \in Req, guard_ops(g) PROVE OwnReg'
  <2> USE DEF Become
  <2>1. CASE GuardPrep(g)
    BY <2>1 DEF GuardPrep
  <2>2. ASSUME NEW d \in LoopId, GuardGetFree(g, d) PROVE OwnReg'
    BY <2>2 DEF GuardGetFree, get_loop_dev
  <2>3. CASE GuardMntLoop(g)
    BY <2>3 DEF GuardMntLoop, bind_pkg
  <2>4. CASE GuardFails(g)
    BY <2>4 DEF GuardFails, bind_pkg
  <2>5. CASE GuardSeal(g)
    BY <2>5 DEF GuardSeal
  <2>6. CASE GuardSealFails(g)
    BY <2>6 DEF GuardSealFails
  <2>7. CASE GuardExit(g)
    BY <2>7 DEF GuardExit, Die
  <2>8. CASE GuardCrash(g)
    BY <2>8 DEF GuardCrash, Die, Alive
  <2>. QED
    BY <1>4, <2>1, <2>2, <2>3, <2>4, <2>5, <2>6, <2>7, <2>8 DEF guard_ops
<1>5. ASSUME NEW r \in Req, ClientTimeout(r) \/ ClientEnter(r) \/ ClientLeave(r)
     PROVE  OwnReg'
  BY <1>5 DEF ClientTimeout, ClientEnter, ClientLeave
<1>6. CASE resource_worker
  <2> USE DEF Become
  <2>1. CASE ReaperWait
    BY <2>1 DEF ReaperWait
  <2>2. CASE ReaperRemove
    BY <2>2 DEF ReaperRemove, PidInv
  <2>3. CASE ReaperClean \/ ReaperDestroy \/ ReaperSleep
    BY <2>3 DEF ReaperClean, ReaperDestroy, ReaperSleep, vars
  <2>. QED
    BY <1>6, <2>1, <2>2, <2>3 DEF resource_worker
<1>7. ASSUME NEW d \in LoopId, LoopAutoclear(d) PROVE OwnReg'
  BY <1>7 DEF LoopAutoclear
<1>8. CASE ServerEnds
  BY <1>8 DEF ServerEnds
<1>9. CASE gen_server_socket
  BY <1>9 DEF gen_server_socket
<1>10. ASSUME NEW r \in Req, SendUnread(r) PROVE OwnReg'
  BY <1>10 DEF SendUnread, Goto
<1>11. ASSUME NEW r \in Req, InitReaps(r) PROVE OwnReg'
  BY <1>11 DEF InitReaps, Become
<1>. QED
  BY <1>0, <1>1, <1>2, <1>3, <1>4, <1>5, <1>6, <1>7, <1>8, <1>9, <1>10, <1>11 DEF Next

\* Between wait() and remove() the number is a reaped guard's.
LEMMA OwnReapedNext == EInv /\ [Next]_vars /\ ~PidReused' => OwnReaped'
<1> SUFFICES ASSUME EInv, [Next]_vars, ~PidReused' PROVE OwnReaped'
  OBVIOUS
<1>. /\ OwnFds /\ OwnReg /\ OwnReaped
     /\ \A g, h \in Req : Unreaped(g) /\ pid[g] = pid[h] => g = h
     /\ \A g, h \in Req : pid[g] \in Pid /\ pid[g] = pid[h] => g = h
  BY StillUnused
<1> USE DEF EInv, EntryInv, IInv, TypeOK, LoopTypeOK, OwnReaped, Unreaped, Running,
           PidInv, loopVars, workerVars, guardVars, clientVars, reaperVars, sharedVars
<1>0. CASE UNCHANGED vars
  BY <1>0 DEF vars
<1>1. CASE StartJob
  BY <1>1 DEF StartJob
<1>2. ASSUME NEW r \in Req, uau_serve(r) PROVE OwnReaped'
  BY <1>2 DEF uau_serve
<1>3. ASSUME NEW r \in Req, worker(r) PROVE OwnReaped'
  <2>1. CASE start_guard(r)
    BY <2>1 DEF start_guard, WorkerInv
  <2>2. CASE KillGuard(r)
    BY <2>2 DEF KillGuard, kill_SIGKILL, Die, Alive
  <2>3. CASE req_parse(r) \/ RecvLoopId(r) \/ RecvErrno(r) \/ MapIds(r) \/
            get_namespace_fds(r) \/ GiveUp(r) \/ SetupFails(r) \/ registe_resource(r) \/
            RegisterPoisoned(r) \/ send_back(r) \/ SendFails(r) \/ close_fds(r) \/
            Refuse(r)
    BY <2>3 DEF req_parse, RecvLoopId, RecvErrno, MapIds, get_namespace_fds, GiveUp,
       SetupFails, recv_timed_out, registe_resource, RegisterPoisoned, send_back,
       SendFails, close_fds, Refuse
  <2>. QED
    BY <1>3, <2>1, <2>2, <2>3 DEF worker
<1>4. ASSUME NEW g \in Req, guard_ops(g) PROVE OwnReaped'
  <2> USE DEF Become
  <2>1. CASE GuardPrep(g)
    BY <2>1 DEF GuardPrep
  <2>2. ASSUME NEW d \in LoopId, GuardGetFree(g, d) PROVE OwnReaped'
    BY <2>2 DEF GuardGetFree, get_loop_dev
  <2>3. CASE GuardMntLoop(g)
    BY <2>3 DEF GuardMntLoop, bind_pkg
  <2>4. CASE GuardFails(g)
    BY <2>4 DEF GuardFails, bind_pkg
  <2>5. CASE GuardSeal(g)
    BY <2>5 DEF GuardSeal
  <2>6. CASE GuardSealFails(g)
    BY <2>6 DEF GuardSealFails
  <2>7. CASE GuardExit(g)
    BY <2>7 DEF GuardExit, Die
  <2>8. CASE GuardCrash(g)
    BY <2>8 DEF GuardCrash, Die, Alive
  <2>. QED
    BY <1>4, <2>1, <2>2, <2>3, <2>4, <2>5, <2>6, <2>7, <2>8 DEF guard_ops
<1>5. ASSUME NEW r \in Req, ClientTimeout(r) \/ ClientEnter(r) \/ ClientLeave(r)
     PROVE  OwnReaped'
  BY <1>5 DEF ClientTimeout, ClientEnter, ClientLeave
<1>6. CASE resource_worker
  <2> USE DEF Become
  <2>1. CASE ReaperWait
    BY <2>1 DEF ReaperWait
  <2>2. CASE ReaperRemove
    BY <2>2 DEF ReaperRemove
  <2>3. CASE ReaperClean
    BY <2>3 DEF ReaperClean, loop_unbind, Info, Reports
  <2>4. CASE ReaperDestroy
    BY <2>4 DEF ReaperDestroy, loop_destroy, Info, LOOP_MASTER, Reports
  <2>5. CASE ReaperSleep
    BY <2>5 DEF ReaperSleep, vars
  <2>. QED
    BY <1>6, <2>1, <2>2, <2>3, <2>4, <2>5 DEF resource_worker
<1>7. ASSUME NEW d \in LoopId, LoopAutoclear(d) PROVE OwnReaped'
  BY <1>7 DEF LoopAutoclear
<1>8. CASE ServerEnds
  BY <1>8 DEF ServerEnds
<1>9. CASE gen_server_socket
  BY <1>9 DEF gen_server_socket
<1>10. ASSUME NEW r \in Req, SendUnread(r) PROVE OwnReaped'
  BY <1>10 DEF SendUnread, Goto
<1>11. ASSUME NEW r \in Req, InitReaps(r) PROVE OwnReaped'
  BY <1>11 DEF InitReaps, Become
<1>. QED
  BY <1>0, <1>1, <1>2, <1>3, <1>4, <1>5, <1>6, <1>7, <1>8, <1>9, <1>10, <1>11 DEF Next

-----------------------------------------------------------------------------
(* The theorems. *)

LEMMA EntryInit == Init => EInv
<1> SUFFICES ASSUME Init PROVE EInv
  OBVIOUS
<1> USE DEF Init
<1>1. NamesInv
  BY DEF NamesInv, Served, HasAll, NoFds
<1>2. OwnFds /\ OwnReg /\ OwnReaped
  BY DEF OwnFds, OwnReg, OwnReaped, NoFds
<1>. QED
  BY <1>1, <1>2, InvInit DEF EInv, EntryInv, OwnInv

LEMMA EntryNext == EInv /\ [Next]_vars => EInv'
BY NamesNext, OwnFdsNext, OwnRegNext, OwnReapedNext, InvNext DEF EInv, EntryInv, OwnInv

\* The two invariants hold throughout.
LEMMA EntryAlways == Spec => []EInv
BY EntryInit, EntryNext, PTL DEF Spec

\* Descriptors refer to guards there have been, replies are complete, and
\* until a pid has been reused they are one's own.
THEOREM EntryInvariant == Spec => []EntryInv
<1>1. EInv => EntryInv
  BY DEF EInv
<1>. QED
  BY <1>1, EntryAlways, PTL

\* A client is sent the three namespaces of its own sandbox, and no other's,
\* until a pid has been reused.
THEOREM EntryOwn == Spec => []EntryIsOwn
<1>1. EInv => EntryIsOwn
  <2> SUFFICES ASSUME EInv, ~PidReused, NEW r \in Req, client[r] \in {"granted", "inside"}
               PROVE  entry[r] = [ns \in NS |-> r]
    BY DEF EntryIsOwn
  <2>1. \A ns \in NS : entry[r][ns] = r
    BY DEF EInv, EntryInv, NamesInv, OwnInv, OwnFds, Served
  <2>. QED
    BY <2>1 DEF EInv, IInv, TypeOK
<1>. QED
  BY <1>1, EntryAlways, PTL

\* The RockerCfg behind a granted sandbox is in RESOURCE until the guard is
\* reaped or the server is gone, until a pid has been reused.
THEOREM GrantedKept == Spec => []GrantedRegistered
<1>1. EInv => GrantedRegistered
  BY DEF EInv, EntryInv, NamesInv, OwnInv, OwnReg, Served, Child, GrantedRegistered
<1>. QED
  BY <1>1, EntryAlways, PTL

\* Only registe_resource, the reaper and the end of the server change RESOURCE.
LEMMA RegChanges ==
    ASSUME IInv, [Next]_vars, reg' # reg
    PROVE  \/ \E r \in Req : registe_resource(r)
           \/ ReaperRemove
           \/ ServerEnds
<1> USE DEF loopVars, workerVars, guardVars, clientVars, reaperVars, sharedVars
<1>1. ASSUME NEW r \in Req, worker(r) PROVE registe_resource(r)
  BY <1>1 DEF worker, req_parse, start_guard, RecvLoopId, RecvErrno, MapIds, get_namespace_fds,
     GiveUp, SetupFails, KillGuard, RegisterPoisoned, send_back, SendFails, close_fds, Refuse
<1>2. ASSUME NEW g \in Req, guard_ops(g) PROVE FALSE
  BY <1>2 DEF guard_ops, GuardPrep, GuardGetFree, GuardMntLoop, GuardFails, GuardSeal,
     GuardSealFails, GuardExit, GuardCrash
<1>3. CASE resource_worker
  BY <1>3 DEF resource_worker, ReaperWait, ReaperSleep, ReaperClean, ReaperDestroy, vars
<1>4. ASSUME NEW r \in Req,
             uau_serve(r) \/ ClientTimeout(r) \/ ClientEnter(r) \/ ClientLeave(r)
               \/ SendUnread(r) \/ InitReaps(r)
      PROVE  FALSE
  BY <1>4 DEF uau_serve, ClientTimeout, ClientEnter, ClientLeave, SendUnread, InitReaps
<1>5. CASE UNCHANGED vars \/ StartJob \/ gen_server_socket \/ (\E d \in LoopId : LoopAutoclear(d))
  BY <1>5 DEF vars, StartJob, gen_server_socket, LoopAutoclear
<1>. QED
  BY <1>1, <1>2, <1>3, <1>4, <1>5 DEF Next

\* remove(&pid) and insert never take the entry of a guard that runs, until a
\* pid has been reused.
THEOREM EntriesStay == Spec => NoLiveEntryDropped
<1>1. ASSUME EInv, [Next]_vars, NEW p \in Pid, reg[p] # None, reg'[p] # reg[p]
      PROVE  PidReused \/ guard[reg[p]] = "reaped" \/ rpc' = "off"
  <2> DEFINE q == reg[p]
  <2>1. q \in Req /\ pid[q] = p /\ pc[q] \in AfterReg
    BY <1>1 DEF EInv, IInv, TypeOK, CfgInv
  <2>2. CASE \E r \in Req : registe_resource(r)
    <3>1. PICK r \in Req : registe_resource(r)
      BY <2>2
    <3>2. r # q /\ pid[r] = p
      BY <1>1, <2>1, <3>1 DEF registe_resource, AfterReg, Finished, EInv, IInv, TypeOK
    <3>. QED
      BY <2>1, <3>2, PidAssumption DEF PidReused
  <2>3. CASE ReaperRemove
    <3>1. rpc = "remove" /\ rpid = p
      BY <1>1, <2>3 DEF ReaperRemove, EInv, IInv, TypeOK
    <3>2. ~PidReused => \E g \in Req : pid[g] = p /\ guard[g] = "reaped"
      BY <1>1, <3>1 DEF EInv, EntryInv, OwnInv, OwnReaped
    <3>. QED
      BY <2>1, <3>2, PidAssumption DEF PidReused
  <2>4. CASE ServerEnds
    BY <2>4 DEF ServerEnds
  <2>. QED
    BY <1>1, <2>2, <2>3, <2>4, RegChanges DEF EInv
<1>2. EInv /\ [Next]_vars =>
        [\A p \in Pid : reg[p] # None /\ reg'[p] # reg[p] =>
            PidReused \/ guard[reg[p]] = "reaped" \/ rpc' = "off"]_vars
  BY <1>1
<1>. QED
  BY <1>2, EntryAlways, PTL DEF Spec, NoLiveEntryDropped

-----------------------------------------------------------------------------
(* The server's side of ClientRole. *)

LEMMA RoleInit == Init => Role!Init
BY DEF Init, NoFds, Role!Init, hosted

\* Processes that end take the sandboxes, and the applications, with them.
LEMMA DieIsDown ==
    ASSUME EInv, NEW G, G \subseteq Req, \A g \in G : Alive(g), Die(G)
    PROVE  \E R \in SUBSET hosted : Role!Down(R)
<1> DEFINE R == {r \in hosted : entry[r].pid \in G}
<1> USE DEF EInv, IInv, TypeOK
<1>1. R \in SUBSET hosted
  OBVIOUS
<1>2. client' = [r \in Req |-> IF r \in R /\ client[r] = "inside" THEN "left" ELSE client[r]]
  BY DEF Die, Inside, hosted
<1>3. \A g \in Req : Alive(g)' <=> Alive(g) /\ g \notin G
  BY DEF Die, Alive, Running
<1>4. hosted' = hosted \ R
  <2>1. ASSUME NEW r \in Req, r \in hosted' PROVE r \in hosted \ R
    <3>1. client'[r] = client[r] /\ entry'[r] = entry[r]
      BY <2>1 DEF hosted, Die
    <3>. QED
      BY <2>1, <3>1, <1>3 DEF hosted
  <2>2. ASSUME NEW r \in Req, r \in hosted \ R PROVE r \in hosted'
    <3>1. ~\E g \in G : Inside(r, g)
      BY <2>2 DEF Inside
    <3>2. client'[r] = client[r] /\ entry'[r] = entry[r]
      BY <3>1 DEF Die
    <3>. QED
      BY <2>2, <3>2, <1>3 DEF hosted
  <2>. QED
    BY <2>1, <2>2 DEF hosted
<1>. QED
  BY <1>1, <1>2, <1>4 DEF Role!Down

LEMMA RoleNext == EInv /\ [Next]_vars => [Role!Next]_(Role!vars)
<1> SUFFICES ASSUME EInv, [Next]_vars
             PROVE  Role!Next \/ UNCHANGED <<client, hosted>>
  BY DEF Role!vars
<1> USE DEF EInv, IInv, TypeOK
<1>b. ASSUME UNCHANGED <<client, entry>>, \A g \in Req : Alive(g)' <=> Alive(g)
      PROVE  UNCHANGED <<client, hosted>>
  BY <1>b DEF hosted
<1>c. ASSUME UNCHANGED <<client, entry, guard>> PROVE UNCHANGED <<client, hosted>>
  BY <1>b, <1>c DEF Alive
<1>d. ASSUME NEW r \in Req, client'[r] \in {"waiting", "refused", "gone"},
             client[r] \in {"new", "waiting"}, client' = [client EXCEPT ![r] = client'[r]],
             UNCHANGED <<entry, guard>>
      PROVE  UNCHANGED hosted
  BY <1>d DEF hosted, Alive
<1>0. CASE UNCHANGED vars
  BY <1>0, <1>c DEF vars, guardVars, clientVars
<1>1. CASE StartJob \/ ServerEnds \/ gen_server_socket \/ (\E d \in LoopId : LoopAutoclear(d))
  BY <1>1, <1>c DEF StartJob, ServerEnds, gen_server_socket, LoopAutoclear, guardVars,
     clientVars
<1>2. ASSUME NEW r \in Req, uau_serve(r) \/ SendUnread(r) PROVE Role!Next
  <2>1. Role!Moves(r, "new", "waiting")
    BY <1>2 DEF uau_serve, SendUnread, WorkerInv, Role!Moves
  <2>2. UNCHANGED <<entry, guard>>
    BY <1>2 DEF uau_serve, SendUnread, guardVars
  <2>3. UNCHANGED hosted
    BY <2>1, <2>2, <1>d DEF Role!Moves
  <2>. QED
    BY <2>1, <2>3 DEF Role!Ask, Role!Next
<1>3. ASSUME NEW r \in Req, worker(r) PROVE Role!Next \/ UNCHANGED <<client, hosted>>
  <2>1. CASE start_guard(r)
    <3>1. UNCHANGED <<client, entry>> /\ guard[r] = "none"
      BY <2>1 DEF start_guard, clientVars, WorkerInv, Waiting
    <3>2. \A x \in Req, g \in Req : entry[x].pid = g => (Alive(g)' <=> Alive(g))
      BY <2>1, <3>1, NoneAssumption DEF start_guard, EntryInv, NamesInv, NS, Alive
    <3>. QED
      BY <3>1, <3>2 DEF hosted
  <2>2. CASE KillGuard(r)
    <3>1. \E R \in SUBSET hosted : Role!Down(R)
      BY <2>2, DieIsDown DEF KillGuard, kill_SIGKILL
    <3>. QED
      BY <3>1 DEF Role!Next
  <2>3. CASE send_back(r)
    <3>1. Role!Moves(r, "waiting", "granted")
      BY <2>3 DEF send_back, Role!Moves
    <3>2. \A x \in Req : x # r => (x \in hosted' <=> x \in hosted)
      BY <2>3 DEF send_back, guardVars, Alive, hosted
    <3>3. hosted' \in {hosted, hosted \cup {r}}
      BY <3>1, <3>2 DEF hosted, Role!Moves
    <3>. QED
      BY <3>1, <3>3 DEF Role!Granted, Role!Next
  <2>4. CASE Refuse(r)
    <3>1. CASE client' = client
      BY <2>4, <3>1, <1>c DEF Refuse, pdie, guardVars
    <3>2. CASE client[r] = "waiting" /\ client' = [client EXCEPT ![r] = "refused"]
      <4>1. UNCHANGED hosted
        BY <2>4, <3>2, <1>d DEF Refuse, pdie, guardVars
      <4>. QED
        BY <3>2, <4>1 DEF Role!Moves, Role!Refused, Role!Next
    <3>3. PICK a \in {client[r], "refused"} :
            (client[r] # "waiting" => a = client[r]) /\ client' = [client EXCEPT ![r] = a]
      BY <2>4 DEF Refuse, pdie
    <3>4. a = client[r] => client' = client
      BY <3>3
    <3>. QED
      BY <3>1, <3>2, <3>3, <3>4
  <2>5. CASE req_parse(r) \/ RecvLoopId(r) \/ RecvErrno(r) \/ MapIds(r)
             \/ get_namespace_fds(r) \/ GiveUp(r) \/ SetupFails(r) \/ registe_resource(r)
             \/ RegisterPoisoned(r) \/ SendFails(r) \/ close_fds(r)
    BY <2>5, <1>c DEF req_parse, RecvLoopId, RecvErrno, MapIds, get_namespace_fds, GiveUp,
       SetupFails, registe_resource, RegisterPoisoned, SendFails, close_fds, guardVars,
       clientVars
  <2>. QED
    BY <1>3, <2>1, <2>2, <2>3, <2>4, <2>5 DEF worker
<1>4. ASSUME NEW g \in Req, guard_ops(g) PROVE Role!Next \/ UNCHANGED <<client, hosted>>
  <2>1. CASE GuardExit(g) \/ GuardCrash(g)
    <3>1. Alive(g) /\ Die({g})
      BY <2>1 DEF GuardExit, GuardCrash, Alive, Running
    <3>2. \E R \in SUBSET hosted : Role!Down(R)
      BY <3>1, DieIsDown
    <3>. QED
      BY <3>2 DEF Role!Next
  <2>2. CASE GuardPrep(g) \/ (\E d \in LoopId : GuardGetFree(g, d)) \/ GuardMntLoop(g)
               \/ GuardFails(g) \/ GuardSeal(g) \/ GuardSealFails(g)
    <3>1. UNCHANGED <<client, entry>>
      BY <2>2 DEF GuardPrep, GuardGetFree, GuardMntLoop, GuardFails, GuardSeal, GuardSealFails,
         clientVars
    <3>2. Alive(g) /\ Alive(g)' /\ \A x \in Req : x # g => guard'[x] = guard[x]
      BY <2>2 DEF GuardPrep, GuardGetFree, GuardMntLoop, GuardFails, GuardSeal, GuardSealFails,
         Become, Alive, Running
    <3>. QED
      BY <3>1, <3>2, <1>b DEF Alive
  <2>. QED
    BY <1>4, <2>1, <2>2 DEF guard_ops
<1>5. ASSUME NEW r \in Req, ClientTimeout(r) PROVE Role!Next
  <2>1. Role!Moves(r, "waiting", "gone")
    BY <1>5 DEF ClientTimeout, Role!Moves
  <2>2. UNCHANGED hosted
    BY <1>5, <2>1, <1>d DEF ClientTimeout, Role!Moves, guardVars
  <2>. QED
    BY <2>1, <2>2 DEF Role!GivesUp, Role!Next
<1>6. ASSUME NEW r \in Req, ClientEnter(r) PROVE Role!Next
  <2>1. Role!Moves(r, "granted", "inside") /\ UNCHANGED <<entry, guard>>
    BY <1>6 DEF ClientEnter, Role!Moves, guardVars
  <2>2. entry[r].pid \in Req
    BY <2>1 DEF Role!Moves, EntryInv, NamesInv, Served, NS
  <2>3. r \in hosted
    BY <1>6, <2>2 DEF ClientEnter, hosted
  <2>4. UNCHANGED hosted
    BY <2>1 DEF Role!Moves, hosted, Alive
  <2>. QED
    BY <2>1, <2>3, <2>4 DEF Role!Enters, Role!Next
<1>7. ASSUME NEW r \in Req, ClientLeave(r) PROVE Role!Next
  <2>1. Role!Moves(r, "granted", "left") \/ Role!Moves(r, "inside", "left")
    BY <1>7 DEF ClientLeave, Role!Moves
  <2>2. hosted' = hosted \ {r}
    BY <1>7 DEF ClientLeave, guardVars, hosted, Alive
  <2>. QED
    BY <2>1, <2>2 DEF Role!Leaves, Role!Next
<1>8. ASSUME NEW g \in Req, InitReaps(g) PROVE UNCHANGED <<client, hosted>>
  BY <1>8, <1>b DEF InitReaps, Become, Alive, Running, clientVars
<1>9. CASE resource_worker
  <2>1. CASE ReaperWait
    BY <2>1, <1>b DEF ReaperWait, Become, Alive, Running, clientVars
  <2>2. CASE ReaperSleep \/ ReaperRemove \/ ReaperClean \/ ReaperDestroy
    BY <2>2, <1>c DEF ReaperSleep, ReaperRemove, ReaperClean, ReaperDestroy, vars, guardVars,
       clientVars
  <2>. QED
    BY <1>9, <2>1, <2>2 DEF resource_worker
<1>. QED
  BY <1>0, <1>1, <1>2, <1>3, <1>4, <1>5, <1>6, <1>7, <1>8, <1>9 DEF Next

\* Whatever the server does to its clients, ClientEntry expects: one answer at
\* most, only to who waits, and nobody inside without the guard he was granted.
THEOREM RoleRefinement == Spec => ServesClients
<1>. QED
  BY RoleInit, RoleNext, EntryAlways, PTL DEF Spec, Role!Spec, ServesClients
=============================================================================
