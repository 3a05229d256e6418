------------------------- MODULE RockerRefinement --------------------------
(***************************************************************************)
(* RockerMaster implements RockerService, for every value of the constants: *)
(* the mapping is that of RockerMaster (answer, sandbox, bind), and each     *)
(* step of the server is a step of the service or changes nothing it sees.  *)
(***************************************************************************)
EXTENDS RockerMasterProofs

LEMMA ServiceInit == Init => Service!Init
BY DEF Init, LoopInit, Service!Init, answer, sandbox

\* A guard's death is the end of its sandbox: "down" if it had been set up.
\* Applications that die with it keep the answer they had.
LEMMA DieIsDown ==
    ASSUME IInv, NEW g \in Req, Alive(g), Die({g}), UNCHANGED <<sealed, bind>>
    PROVE  Service!Down(g)
<1> USE DEF IInv, TypeOK
<1>1. answer' = answer
  BY DEF Die, Inside, answer
<1>2. sandbox[g] = IF guard[g] = "ready" THEN "up" ELSE "building"
  BY DEF sandbox, Alive, Running
<1>3. g \in sealed <=> guard[g] = "ready"
  BY DEF GuardInv, Alive, Running
<1>4. sandbox' = [sandbox EXCEPT ![g] = IF g \in sealed THEN "down" ELSE "failed"]
  BY DEF sandbox, Die
<1>. QED
  BY <1>1, <1>2, <1>3, <1>4 DEF Service!Down

\* SIGKILL to a number ends at most one sandbox.
LEMMA KillIsDown ==
    ASSUME IInv, NEW p, kill_SIGKILL(p), UNCHANGED <<sealed, bind>>
    PROVE  \/ UNCHANGED <<answer, sandbox, bind>>
           \/ \E g \in Req : Service!Down(g)
<1> DEFINE G == {g \in Req : pid[g] = p /\ Alive(g)}
<1>1. CASE G = {}
  <2>1. guard' = guard /\ client' = client
    BY <1>1 DEF kill_SIGKILL, Die, IInv, TypeOK
  <2>. QED
    BY <2>1 DEF answer, sandbox
<1>2. ASSUME NEW g \in G PROVE Service!Down(g)
  <2>1. G = {g}
    BY <1>2 DEF IInv, PidUnique, Unreaped, Alive, Running
  <2>2. Die({g}) /\ Alive(g)
    BY <2>1 DEF kill_SIGKILL
  <2>. QED
    BY <2>2, DieIsDown
<1>. QED
  BY <1>1, <1>2

LEMMA ServiceNext == IInv /\ [Next]_vars => [Service!Next]_(Service!vars)
<1> SUFFICES ASSUME IInv, [Next]_vars
             PROVE  Service!Next \/ UNCHANGED <<answer, sandbox, bind>>
  BY DEF Service!vars
<1> USE DEF IInv, TypeOK, LoopTypeOK, Service!Next
<1>a. ASSUME UNCHANGED <<client, guard, sealed, bind>>
      PROVE  UNCHANGED <<answer, sandbox, bind>>
  BY <1>a DEF answer, sandbox
<1>0. CASE UNCHANGED vars
  BY <1>0, <1>a DEF vars, loopVars, guardVars, clientVars
<1>1. CASE StartJob
  BY <1>1, <1>a DEF StartJob, loopVars, guardVars, clientVars
<1>2. ASSUME NEW r \in Req, uau_serve(r) PROVE Service!Next
  <2>1. answer[r] = "none" /\ answer' = [answer EXCEPT ![r] = "pending"]
    BY <1>2 DEF uau_serve, WorkerInv, answer
  <2>2. UNCHANGED <<sandbox, bind>>
    BY <1>2 DEF uau_serve, loopVars, guardVars, sandbox
  <2>. QED
    BY <2>1, <2>2 DEF Service!Ask
<1>3. ASSUME NEW r \in Req, worker(r)
      PROVE  Service!Next \/ UNCHANGED <<answer, sandbox, bind>>
  <2>1. CASE start_guard(r)
    <3>1. sandbox[r] = "none" /\ sandbox' = [sandbox EXCEPT ![r] = "building"]
      BY <2>1 DEF start_guard, WorkerInv, Waiting, sandbox
    <3>2. answer[r] # "none" /\ UNCHANGED <<answer, bind>>
      BY <2>1 DEF start_guard, WorkerInv, loopVars, clientVars, answer
    <3>. QED
      BY <3>1, <3>2 DEF Service!Build
  <2>2. CASE KillGuard(r)
    BY <2>2, KillIsDown DEF KillGuard, loopVars
  <2>3. CASE send_back(r)
    <3>1. answer[r] = "pending" /\ answer' = [answer EXCEPT ![r] = "granted"]
      BY <2>3 DEF send_back, answer
    <3>2. sandbox[r] \in {"up", "down"}
      BY <2>3 DEF send_back, WorkerInv, AfterInit, GuardInv, GuardState, Running, sandbox
    <3>3. UNCHANGED <<sandbox, bind>>
      BY <2>3 DEF send_back, loopVars, guardVars, sandbox
    <3>. QED
      BY <3>1, <3>2, <3>3 DEF Service!Grant
  <2>4. CASE Refuse(r)
    <3>1. UNCHANGED <<sandbox, bind>>
      BY <2>4 DEF Refuse, pdie, loopVars, guardVars, sandbox
    <3>2. CASE client'[r] = client[r]
      <4>1. client' = client
        BY <2>4, <3>2 DEF Refuse, pdie
      <4>. QED
        BY <3>1, <4>1 DEF answer
    <3>3. CASE client'[r] # client[r]
      <4>1. client[r] = "waiting" /\ client' = [client EXCEPT ![r] = "refused"]
        BY <2>4, <3>3 DEF Refuse, pdie
      <4>2. answer[r] = "pending" /\ answer' = [answer EXCEPT ![r] = "refused"]
        BY <4>1 DEF answer
      <4>. QED
        BY <3>1, <4>2 DEF Service!Deny
    <3>. QED
      BY <3>2, <3>3
  <2>5. CASE req_parse(r) \/ RecvLoopId(r) \/ RecvErrno(r) \/ MapIds(r)
             \/ get_namespace_fds(r) \/ GiveUp(r) \/ SetupFails(r) \/ registe_resource(r)
             \/ RegisterPoisoned(r) \/ SendFails(r) \/ close_fds(r)
    BY <2>5, <1>a DEF req_parse, RecvLoopId, RecvErrno, MapIds, get_namespace_fds, GiveUp,
       SetupFails, registe_resource, RegisterPoisoned, SendFails, close_fds, loopVars,
       guardVars, clientVars
  <2>. QED
    BY <1>3, <2>1, <2>2, <2>3, <2>4, <2>5 DEF worker
<1>4. ASSUME NEW g \in Req, guard_ops(g)
      PROVE  Service!Next \/ UNCHANGED <<answer, sandbox, bind>>
  <2> USE DEF Become
  <2>1. CASE GuardExit(g) \/ GuardCrash(g)
    <3>1. Alive(g) /\ Die({g}) /\ UNCHANGED <<sealed, bind>>
      BY <2>1 DEF GuardExit, GuardCrash, Alive, Running, loopVars
    <3>. QED
      BY <3>1, DieIsDown
  <2>2. CASE GuardSeal(g)
    <3>1. sandbox[g] = "building" /\ sandbox' = [sandbox EXCEPT ![g] = "up"]
      BY <2>2 DEF GuardSeal, sandbox
    <3>2. gdev[g] \in LoopId /\ bind[gdev[g]] = g
      BY <2>2 DEF GuardSeal, GuardInv, BindInv
    <3>3. UNCHANGED <<answer, bind>>
      BY <2>2 DEF GuardSeal, loopVars, clientVars, answer
    <3>. QED
      BY <3>1, <3>2, <3>3 DEF Service!Up
  <2>3. ASSUME guard[g] = "bind", bind_pkg(gdev[g], g), guard'[g] \in {"overlay", "pdie"},
               guard' = [guard EXCEPT ![g] = guard'[g]], UNCHANGED <<sealed, client>>
        PROVE  Service!Next
    <3>1. gdev[g] \in LoopId /\ bind[gdev[g]] = None
      BY <2>3 DEF GuardInv, bind_pkg, Unbound
    <3>2. sandbox[g] = "building" /\ UNCHANGED <<answer, sandbox>>
      BY <2>3 DEF sandbox, answer
    <3>3. \A e \in LoopId : bind[e] # g
      BY <2>3, NoneAssumption DEF BindInv
    <3>4. bind' = [bind EXCEPT ![gdev[g]] = g]
      BY <2>3 DEF bind_pkg
    <3>. QED
      BY <3>1, <3>2, <3>3, <3>4 DEF Service!Lease
  <2>4. CASE GuardMntLoop(g)
    BY <2>4, <2>3 DEF GuardMntLoop, clientVars
  <2>5. ASSUME guard[g] \in {"prep", "get_free", "bind", "overlay"},
               guard'[g] \in {"get_free", "bind", "pdie"},
               guard' = [guard EXCEPT ![g] = guard'[g]], UNCHANGED <<sealed, client, bind>>
        PROVE  UNCHANGED <<answer, sandbox, bind>>
    BY <2>5 DEF sandbox, answer
  <2>6. CASE GuardFails(g)
    <3>1. CASE UNCHANGED loopVars
      BY <2>6, <2>5, <3>1 DEF GuardFails, loopVars, clientVars
    <3>2. CASE guard[g] = "bind" /\ bind_pkg(gdev[g], g)
      BY <2>6, <2>3, <3>2 DEF GuardFails, clientVars
    <3>. QED
      BY <2>6, <3>1, <3>2 DEF GuardFails
  <2>7. CASE GuardPrep(g) \/ GuardSealFails(g)
    BY <2>7, <2>5 DEF GuardPrep, GuardSealFails, loopVars, clientVars
  <2>8. ASSUME NEW d \in LoopId, GuardGetFree(g, d)
        PROVE  UNCHANGED <<answer, sandbox, bind>>
    BY <2>8, <2>5 DEF GuardGetFree, get_loop_dev, clientVars
  <2>. QED
    BY <1>4, <2>1, <2>2, <2>4, <2>6, <2>7, <2>8 DEF guard_ops
<1>5. ASSUME NEW r \in Req, ClientTimeout(r) PROVE Service!Next
  <2>1. answer[r] = "pending" /\ answer' = [answer EXCEPT ![r] = "lost"]
    BY <1>5 DEF ClientTimeout, answer
  <2>2. UNCHANGED <<sandbox, bind>>
    BY <1>5 DEF ClientTimeout, loopVars, guardVars, sandbox
  <2>. QED
    BY <2>1, <2>2 DEF Service!Deny
<1>6. ASSUME NEW r \in Req, ClientEnter(r) \/ ClientLeave(r)
      PROVE  UNCHANGED <<answer, sandbox, bind>>
  BY <1>6 DEF ClientEnter, ClientLeave, loopVars, guardVars, answer, sandbox
<1>7. CASE resource_worker
  <2>1. CASE ReaperWait
    BY <2>1 DEF ReaperWait, Become, loopVars, clientVars, answer, sandbox
  <2>2. CASE ReaperSleep \/ ReaperRemove \/ ReaperClean \/ ReaperDestroy
    BY <2>2, <1>a DEF ReaperSleep, ReaperRemove, ReaperClean, ReaperDestroy, loop_unbind,
       loop_destroy, vars, loopVars, guardVars, clientVars
  <2>. QED
    BY <1>7, <2>1, <2>2 DEF resource_worker
<1>8. ASSUME NEW d \in LoopId, LoopAutoclear(d) PROVE Service!Next
  <2>1. bind[d] # None /\ ~Alive(bind[d]) /\ guard[bind[d]] # "none"
    BY <1>8 DEF LoopAutoclear, autoclear, NsHeld, BindInv
  <2>2. sandbox[bind[d]] \in {"failed", "down"}
    BY <2>1 DEF Alive, GuardState, sandbox
  <2>3. bind' = [bind EXCEPT ![d] = None] /\ UNCHANGED <<answer, sandbox>>
    BY <1>8 DEF LoopAutoclear, autoclear, guardVars, clientVars, answer, sandbox
  <2>. QED
    BY <2>1, <2>2, <2>3 DEF Service!Return
<1>9. CASE ServerEnds \/ gen_server_socket
  BY <1>9, <1>a DEF ServerEnds, gen_server_socket, loopVars, guardVars, clientVars
<1>10. ASSUME NEW r \in Req, SendUnread(r) PROVE Service!Next
  <2>1. answer[r] = "none" /\ answer' = [answer EXCEPT ![r] = "pending"]
    BY <1>10 DEF SendUnread, WorkerInv, answer
  <2>2. UNCHANGED <<sandbox, bind>>
    BY <1>10 DEF SendUnread, loopVars, guardVars, sandbox
  <2>. QED
    BY <2>1, <2>2 DEF Service!Ask
<1>11. ASSUME NEW g \in Req, InitReaps(g) PROVE UNCHANGED <<answer, sandbox, bind>>
  BY <1>11 DEF InitReaps, Become, loopVars, clientVars, answer, sandbox
<1>. QED
  BY <1>0, <1>1, <1>2, <1>3, <1>4, <1>5, <1>6, <1>7, <1>8, <1>9, <1>10, <1>11 DEF Next

\* The server keeps the promise of RockerService.
THEOREM Refinement == Spec => ImplementsService
<1>. QED
  BY ServiceInit, ServiceNext, Invariant, PTL DEF Spec, ImplementsService, Service!Spec
=============================================================================
