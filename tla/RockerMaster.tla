--------------------------- MODULE RockerMaster ----------------------------
(***************************************************************************)
(* The rocker server: the receiving loop and its thread pool               *)
(* (rocker_server/src/main.rs), the RockerCfg each worker builds and the    *)
(* guard process it clones (core/src/master.rs), the resource worker that   *)
(* reaps guards, the end of the server and its restart, and as much of the  *)
(* clients and of the kernel (pids, descriptors, loop devices) as they      *)
(* depend on.                                                              *)
(*                                                                         *)
(* Abbreviations of the source: JM is the server process, JG a guard, JC a  *)
(* client.  A request, its worker, its RockerCfg, its guard and its client  *)
(* share one name, an element of Req.                                       *)
(***************************************************************************)
EXTENDS LoopDev, Naturals, Sequences, FiniteSets

CONSTANTS
    Pid,        \* process numbers
    PoolSize,   \* threads of the pool; resource_worker keeps one of them
    FdLimit     \* descriptors the server may open for requests (RLIMIT_NOFILE)

ASSUME PoolAssumption == PoolSize \in Nat /\ PoolSize > 1
ASSUME PidAssumption  == None \notin Pid
ASSUME FdAssumption   == FdLimit \in Nat

VARIABLES
    queue,      \* jobs of the pool no thread has taken yet
    pc,         \* where the worker of a request is
    pid,        \* RockerCfg.guard_pid
    loopId,     \* RockerCfg.guard_loop_id
    fds,        \* whose namespaces the worker's descriptors refer to
    reg,        \* RESOURCE: the request whose RockerCfg is kept for a pid
    pair,       \* requests whose socket pair is open
    ctl,        \* has LOOP_MASTER been opened?
    semLog,     \* SEM_LOG of the server: new, ready or stuck
    guard,      \* life of the guard process
    gdev,       \* the loop device the guard got from get_loop_dev
    dgram1,     \* first datagram the guard sent: its loop id or an error
    dgram2,     \* second datagram: SUCCESS or an error
    inherited,  \* mount namespaces whose descriptors the guard was born with
    sealed,     \* history: guards that have sent SUCCESS
    client,     \* what the client of a request has seen
    entry,      \* the descriptors the client was sent and still holds
    rpc,        \* where resource_worker is; "off" when there is no server
    rpid,       \* the pid wait() gave it
    rcfg        \* the RockerCfg it is releasing

workerVars == <<queue, pc, pid, loopId, fds>>
guardVars  == <<guard, gdev, dgram1, dgram2, inherited, sealed>>
clientVars == <<client, entry>>
reaperVars == <<rpc, rpid, rcfg>>
sharedVars == <<reg, pair, ctl, semLog>>
vars == <<loopVars, workerVars, guardVars, clientVars, reaperVars, sharedVars>>

NS == {"mnt", "pid", "user"}
\* Faulty variants: a namespace too many, one too few, no registration.
NextNsExtra == [mnt |-> "pid", pid |-> "user", user |-> "net"]
NextNsNoUser == [mnt |-> "pid", pid |-> "register", user |-> "register"]
NextNsUnregistered == [mnt |-> "pid", pid |-> "user", user |-> "send"]

NextNs == [mnt |-> "pid", pid |-> "user", user |-> "register"]
NoFds == [ns \in NS |-> None]

Waiting  == {"idle", "queued"}
Finished == {"done", "panicked", "lost"}
InInit   == {"loop_id", "errno", "idmap"}
Pc == Waiting \cup {"parse", "init"} \cup InInit \cup NS
        \cup {"register", "send", "close", "kill", "refuse", "hung"} \cup Finished

Running == {"prep", "get_free", "bind", "overlay", "ready", "pdie"}
GuardState == {"none", "zombie", "reaped"} \cup Running

TypeOK ==
    /\ LoopTypeOK
    /\ queue \in Seq(Req)
    /\ pc \in [Req -> Pc]
    /\ pid \in [Req -> Pid \cup {None}]
    /\ loopId \in [Req -> LoopId \cup {None}]
    /\ fds \in [Req -> [NS -> Req \cup {None}]]
    /\ reg \in [Pid -> Req \cup {None}]
    /\ guard \in [Req -> GuardState]
    /\ gdev \in [Req -> LoopId \cup {None}]
    /\ dgram1 \in [Req -> {"none", "id", "err"}]
    /\ dgram2 \in [Req -> {"none", "ok", "err"}]
    /\ inherited \in [Req -> SUBSET Req]
    /\ sealed \subseteq Req
    /\ client \in [Req -> {"new", "waiting", "gone", "refused", "granted",
                           "inside", "left"}]
    /\ entry \in [Req -> [NS -> Req \cup {None}]]
    /\ pair \subseteq Req
    /\ ctl \in BOOLEAN
    /\ semLog \in {"new", "ready", "stuck"}
    /\ rpc \in {"wait", "remove", "clean", "destroy", "dead", "hung", "off"}
    /\ rpid \in Pid \cup {None}
    /\ rcfg \in Req \cup {None}

Init ==
    /\ LoopInit
    /\ queue = <<>>
    /\ pc = [r \in Req |-> "idle"]
    /\ pid = [r \in Req |-> None]
    /\ loopId = [r \in Req |-> None]
    /\ fds = [r \in Req |-> NoFds]
    /\ reg = [p \in Pid |-> None]
    /\ pair = {}
    /\ ctl = FALSE
    /\ semLog = "new"
    /\ guard = [g \in Req |-> "none"]
    /\ gdev = [g \in Req |-> None]
    /\ dgram1 = [g \in Req |-> "none"]
    /\ dgram2 = [g \in Req |-> "none"]
    /\ inherited = [g \in Req |-> {}]
    /\ sealed = {}
    /\ client = [r \in Req |-> "new"]
    /\ entry = [r \in Req |-> NoFds]
    /\ rpc = "wait"
    /\ rpid = None
    /\ rcfg = None

-----------------------------------------------------------------------------
(* State of the processes. *)

Alive(g) == guard[g] \in Running

\* A pid belongs to its guard until wait() has taken the guard's status.
Unreaped(g) == guard[g] \notin {"none", "reaped"}

\* A mount namespace lives as long as a process or a descriptor refers to it.
NsHeld(g) ==
    \/ Alive(g)
    \/ \E r \in Req : g \in {fds[r].mnt, entry[r].mnt}
    \/ \E x \in Req : Alive(x) /\ g \in inherited[x]

\* An application runs in the pid namespace its client entered.
Inside(r, g) == client[r] = "inside" /\ entry[r].pid = g

\* Processes of G end; the kernel kills what runs in their pid namespaces.
Die(G) ==
    LET killed(r) == \E g \in G : Inside(r, g)
    IN  /\ guard' = [g \in Req |-> IF g \in G THEN "zombie" ELSE guard[g]]
        /\ client' = [r \in Req |-> IF killed(r) THEN "left" ELSE client[r]]
        /\ entry' = [r \in Req |-> IF killed(r) THEN NoFds ELSE entry[r]]

kill_SIGKILL(p) == Die({g \in Req : pid[g] = p /\ Alive(g)})

\* The descriptors a server has open, and how many more it may open.
OpenFds == 2 * Cardinality(pair)
             + Cardinality({x \in Req \X NS : fds[x[1]][x[2]] # None})
             + (IF ctl THEN 1 ELSE 0)
MayOpen(n) == OpenFds + n <= FdLimit

\* p, which pdie and _info! call (SemLog has it in detail).  The first report of
\* a server opens SEM_LOG; if that fails the reporter waits for itself, and every
\* later one for him.
Reports(ends) ==
    \/ semLog = "ready" /\ ends /\ UNCHANGED semLog
    \/ semLog = "new" /\ MayOpen(1) /\ ends /\ semLog' = "ready"
    \/ semLog # "ready" /\ ~ends /\ semLog' = "stuck"

-----------------------------------------------------------------------------
(* The receiving loop and the pool: uau_serve. *)

\* A client sends its request, which recvfrom turns into a job of the pool.
uau_serve(r) ==
    /\ pc[r] = "idle"
    /\ rpc # "off"
    /\ pc' = [pc EXCEPT ![r] = "queued"]
    /\ queue' = Append(queue, r)
    /\ client' = [client EXCEPT ![r] = "waiting"]
    /\ UNCHANGED <<pid, loopId, fds, sharedVars, entry, loopVars, guardVars, reaperVars>>

Busy == {r \in Req : pc[r] \notin Waiting \cup Finished}

\* resource_worker never gives its thread back, but the pool replaces a thread
\* that panics.
Threads == IF rpc = "dead" THEN PoolSize ELSE PoolSize - 1

StartJob ==
    /\ queue # <<>>
    /\ Cardinality(Busy) < Threads
    /\ pc' = [pc EXCEPT ![Head(queue)] = "parse"]
    /\ queue' = Tail(queue)
    /\ UNCHANGED <<pid, loopId, fds, sharedVars, loopVars, guardVars, clientVars, reaperVars>>

-----------------------------------------------------------------------------
(* The worker of a request. *)

Goto(r, l) == pc' = [pc EXCEPT ![r] = l]

req_parse(r) ==
    /\ pc[r] = "parse"
    /\ \E l \in {"init", "refuse"} : Goto(r, l)
    /\ UNCHANGED <<queue, pid, loopId, fds, sharedVars, loopVars, guardVars, clientVars, reaperVars>>

\* A reaped guard's pid may be given again at once.
FreePid(p) ==
    \A g \in Req : pid[g] = p => guard[g] = "reaped"

\* The socket pair, of which the server never closes an end, and clone()
\* without CLONE_FILES: the guard is born with copies of every descriptor the
\* server has open, other guards' namespaces among them.
start_guard(r) ==
    /\ pc[r] = "init"
    /\ MayOpen(2)
    /\ pair' = pair \cup {r}
    /\ \E p \in Pid : FreePid(p) /\ pid' = [pid EXCEPT ![r] = p]
    /\ guard' = [guard EXCEPT ![r] = "prep"]
    /\ inherited' = [inherited EXCEPT ![r] =
                       {g \in Req : \E x \in Req : fds[x].mnt = g}]
    /\ Goto(r, "loop_id")
    /\ UNCHANGED <<queue, loopId, fds, reg, ctl, semLog, gdev, dgram1, dgram2, sealed,
                   loopVars, clientVars, reaperVars>>

\* The two datagrams of the guard.
RecvLoopId(r) ==
    /\ pc[r] = "loop_id"
    /\ dgram1[r] = "id"
    /\ loopId' = [loopId EXCEPT ![r] = gdev[r]]
    /\ Goto(r, "errno")
    /\ UNCHANGED <<queue, pid, fds, sharedVars, loopVars, guardVars, clientVars, reaperVars>>

\* Faulty variant: the second datagram is not waited for.
RecvErrnoEarly(r) ==
    /\ pc[r] = "errno"
    /\ dgram2[r] \in {"none", "ok"}
    /\ Goto(r, "idmap")
    /\ UNCHANGED <<queue, pid, loopId, fds, sharedVars, loopVars, guardVars, clientVars, reaperVars>>

RecvErrno(r) ==
    /\ pc[r] = "errno"
    /\ dgram2[r] = "ok"
    /\ Goto(r, "idmap")
    /\ UNCHANGED <<queue, pid, loopId, fds, sharedVars, loopVars, guardVars, clientVars, reaperVars>>

\* write_uidmap and write_gidmap: /proc/<pid> must name a process.
MapIds(r) ==
    /\ pc[r] = "idmap"
    /\ MayOpen(1)
    /\ \E g \in Req : pid[g] = pid[r] /\ Unreaped(g)
    /\ Goto(r, "mnt")
    /\ UNCHANGED <<queue, pid, loopId, fds, sharedVars, loopVars, guardVars, clientVars, reaperVars>>

\* One turn of the loop over NS: /proc/<pid>/ns/<name> of whoever lives there.
get_namespace_fds(r) ==
    /\ pc[r] \in NS
    /\ MayOpen(1)
    /\ \E g \in Req :
         /\ pid[g] = pid[r] /\ Alive(g)
         /\ fds' = [fds EXCEPT ![r][pc[r]] = g]
    /\ Goto(r, NextNs[pc[r]])
    /\ UNCHANGED <<queue, pid, loopId, sharedVars, loopVars, guardVars, clientVars, reaperVars>>

\* Set-up fails and the guard is left alone: there is none (no socket pair, or
\* a pair and no clone), or it has reported an error and ends by itself.
GiveUp(r) ==
    /\ \/ pc[r] = "init" /\ UNCHANGED pair
       \/ pc[r] = "init" /\ MayOpen(2) /\ pair' = pair \cup {r}
       \/ pc[r] = "loop_id" /\ dgram1[r] = "err" /\ UNCHANGED pair
       \/ pc[r] = "errno" /\ dgram2[r] = "err" /\ UNCHANGED pair
    /\ Goto(r, "refuse")
    /\ UNCHANGED <<queue, pid, loopId, fds, reg, ctl, semLog, loopVars, guardVars, clientVars,
                   reaperVars>>

\* A datagram is there to be read.
poll_in(r) == \/ pc[r] = "loop_id" /\ dgram1[r] # "none"
              \/ pc[r] = "errno" /\ dgram2[r] # "none"

\* Faulty variant: poll() without a time limit.
recv_untimed(r) == FALSE

\* recv_timed: nothing to read, before poll() and 2 s later.
recv_timed_out(r) == pc[r] \in {"loop_id", "errno"} /\ ~poll_in(r)

\* Set-up fails with the guard in an unknown state: it has been silent, or
\* /proc/<pid> cannot be used.  Descriptors that get_namespace_fds had opened
\* before stay open.
SetupFails(r) ==
    /\ recv_timed_out(r) \/ pc[r] \in {"idmap"} \cup NS
    /\ Goto(r, "kill")
    /\ UNCHANGED <<queue, pid, loopId, fds, sharedVars, loopVars, guardVars, clientVars,
                   reaperVars>>

\* Faulty variant: no SIGKILL.
KillGuardNot(r) ==
    /\ pc[r] = "kill"
    /\ Goto(r, "refuse")
    /\ UNCHANGED <<queue, pid, loopId, fds, sharedVars, loopVars, guardVars, clientVars,
                   reaperVars>>

\* SIGKILL to the number the worker knows the guard by; what the guard did and
\* sent in the meantime comes too late.
KillGuard(r) ==
    /\ pc[r] = "kill"
    /\ kill_SIGKILL(pid[r])
    /\ Goto(r, "refuse")
    /\ UNCHANGED <<queue, pid, loopId, fds, sharedVars, gdev, dgram1, dgram2, inherited,
                   sealed, loopVars, reaperVars>>

\* resource_worker keeps the lock of RESOURCE while it releases a RockerCfg, and
\* for good if it hangs in a report of that.
ResourceLocked == rpc \in {"clean", "destroy", "hung"}

\* HashMap::insert replaces; a replaced entry is an error all the same, and
\* the guard is left running.
registe_resource(r) ==
    /\ pc[r] = "register"
    /\ ~ResourceLocked /\ rpc # "dead"
    /\ reg' = [reg EXCEPT ![pid[r]] = r]
    /\ Goto(r, IF reg[pid[r]] = None THEN "send" ELSE "refuse")
    /\ UNCHANGED <<queue, pid, loopId, fds, pair, ctl, semLog, loopVars, guardVars, clientVars,
                   reaperVars>>

\* lock().unwrap() after resource_worker panicked with the lock held: this
\* worker panics too, answers nobody, and leaves guard and descriptors alone.
RegisterPoisoned(r) ==
    /\ pc[r] = "register"
    /\ rpc = "dead"
    /\ Goto(r, "panicked")
    /\ UNCHANGED <<queue, pid, loopId, fds, sharedVars, loopVars, guardVars, clientVars,
                   reaperVars>>

send_back(r) ==
    /\ pc[r] = "send"
    /\ client[r] = "waiting"
    /\ client' = [client EXCEPT ![r] = "granted"]
    /\ entry' = [entry EXCEPT ![r] = fds[r]]
    /\ Goto(r, "close")
    /\ UNCHANGED <<queue, pid, loopId, fds, sharedVars, loopVars, guardVars, reaperVars>>

\* A worker reports an error and panics; the pool replaces the thread.
pdie(r) == \E ends \in BOOLEAN : Reports(ends) /\ Goto(r, IF ends THEN "panicked" ELSE "hung")

\* A failed send_back panics and skips the loop that closes the descriptors.
SendFails(r) ==
    /\ pc[r] = "send"
    /\ pdie(r)
    /\ UNCHANGED <<queue, pid, loopId, fds, reg, pair, ctl, loopVars, guardVars, clientVars,
                   reaperVars>>

\* Faulty variant: the loop misses the last descriptor.
close_fds_short(r) ==
    /\ pc[r] = "close"
    /\ fds' = [fds EXCEPT ![r] = [NoFds EXCEPT !.user = fds[r].user]]
    /\ Goto(r, "done")
    /\ UNCHANGED <<queue, pid, loopId, sharedVars, loopVars, guardVars, clientVars, reaperVars>>

close_fds(r) ==
    /\ pc[r] = "close"
    /\ fds' = [fds EXCEPT ![r] = NoFds]
    /\ Goto(r, "done")
    /\ UNCHANGED <<queue, pid, loopId, sharedVars, loopVars, guardVars, clientVars, reaperVars>>

\* Faulty variant: the refusal reaches whoever asked, who may be gone.
RefuseAnyone(r) ==
    /\ pc[r] = "refuse"
    /\ pdie(r)
    /\ client' = [client EXCEPT ![r] = "refused"]
    /\ UNCHANGED <<queue, pid, loopId, fds, reg, pair, ctl, entry, loopVars, guardVars, reaperVars>>

\* check!: answer -1, then pdie.
Refuse(r) ==
    /\ pc[r] = "refuse"
    /\ pdie(r)
    /\ \E a \in IF client[r] = "waiting" THEN {"refused", "waiting"} ELSE {client[r]} :
         client' = [client EXCEPT ![r] = a]
    /\ UNCHANGED <<queue, pid, loopId, fds, reg, pair, ctl, entry, loopVars, guardVars, reaperVars>>

worker(r) ==
    \/ req_parse(r)        \/ start_guard(r)      \/ RecvLoopId(r)
    \/ RecvErrno(r)        \/ MapIds(r)           \/ get_namespace_fds(r)
    \/ GiveUp(r)           \/ SetupFails(r)       \/ KillGuard(r)
    \/ registe_resource(r) \/ RegisterPoisoned(r) \/ send_back(r)
    \/ SendFails(r)        \/ close_fds(r)        \/ Refuse(r)

-----------------------------------------------------------------------------
(* The guard process: the closure guard_ops of start_guard. *)

Become(g, s) == guard' = [guard EXCEPT ![g] = s]

\* mount_make_rprivate, guard_set_self_name and mount_dynfs_proc.
GuardPrep(g) ==
    /\ guard[g] = "prep"
    /\ Become(g, "get_free")
    /\ UNCHANGED <<gdev, dgram1, dgram2, inherited, sealed, sharedVars, loopVars, workerVars,
                   clientVars, reaperVars>>

\* guard_mnt_loop, up to the number of a device that was free a moment ago.
GuardGetFree(g, d) ==
    /\ guard[g] = "get_free"
    /\ get_loop_dev(d)
    /\ gdev' = [gdev EXCEPT ![g] = d]
    /\ Become(g, "bind")
    /\ UNCHANGED <<dgram1, dgram2, inherited, sealed, sharedVars, workerVars, clientVars, reaperVars>>

\* guard_mnt_loop, the rest: open, bind, mount; then the loop id is sent.
GuardMntLoop(g) ==
    /\ guard[g] = "bind"
    /\ bind_pkg(gdev[g], g)
    /\ Become(g, "overlay")
    /\ dgram1' = [dgram1 EXCEPT ![g] = "id"]
    /\ UNCHANGED <<gdev, dgram2, inherited, sealed, sharedVars, workerVars, clientVars, reaperVars>>

\* err_checker! in these steps: report, then pdie.  When only the mount of
\* guard_mnt_loop fails, the device has been bound.
GuardFails(g) ==
    /\ guard[g] \in {"prep", "get_free", "bind"}
    /\ \/ UNCHANGED loopVars
       \/ guard[g] = "bind" /\ bind_pkg(gdev[g], g)
    /\ Become(g, "pdie")
    /\ dgram1' = [dgram1 EXCEPT ![g] = "err"]
    /\ UNCHANGED <<gdev, dgram2, inherited, sealed, sharedVars, workerVars, clientVars, reaperVars>>

\* guard_mnt_overlay, unshare(CLONE_NEWUSER) and the message SUCCESS.
GuardSeal(g) ==
    /\ guard[g] = "overlay"
    /\ Become(g, "ready")
    /\ dgram2' = [dgram2 EXCEPT ![g] = "ok"]
    /\ sealed' = sealed \cup {g}
    /\ UNCHANGED <<gdev, dgram1, inherited, sharedVars, loopVars, workerVars, clientVars, reaperVars>>

GuardSealFails(g) ==
    /\ guard[g] = "overlay"
    /\ Become(g, "pdie")
    /\ dgram2' = [dgram2 EXCEPT ![g] = "err"]
    /\ UNCHANGED <<gdev, dgram1, inherited, sealed, sharedVars, loopVars, workerVars,
                   clientVars, reaperVars>>

guard_running_alone(g) == \A r \in Req : ~Inside(r, g)

GuardExit(g) ==
    /\ \/ guard[g] = "pdie"
       \/ guard[g] = "ready" /\ guard_running_alone(g)
    /\ Die({g})
    /\ UNCHANGED <<gdev, dgram1, dgram2, inherited, sealed, sharedVars, loopVars, workerVars, reaperVars>>

\* A guard may be killed from outside, or panic in inform_master! or in
\* opening /dev/loop-control, without a word to the server.
GuardCrash(g) ==
    /\ Alive(g)
    /\ Die({g})
    /\ UNCHANGED <<gdev, dgram1, dgram2, inherited, sealed, sharedVars, loopVars, workerVars, reaperVars>>

guard_ops(g) ==
    \/ GuardPrep(g)  \/ \E d \in LoopId : GuardGetFree(g, d)
    \/ GuardMntLoop(g) \/ GuardFails(g) \/ GuardSeal(g) \/ GuardSealFails(g)
    \/ GuardExit(g)  \/ GuardCrash(g)

-----------------------------------------------------------------------------
(* The client, as the server sees it. *)

\* ROCKER_enter_rocker waits 3 s for the answer, then closes its socket.
ClientTimeout(r) ==
    /\ client[r] = "waiting"
    /\ client' = [client EXCEPT ![r] = "gone"]
    /\ UNCHANGED <<entry, sharedVars, loopVars, workerVars, guardVars, reaperVars>>

\* setns on the descriptors, then the application is cloned: the pid
\* namespace must still have its init process.
ClientEnter(r) ==
    /\ client[r] = "granted"
    /\ Alive(entry[r].pid)
    /\ client' = [client EXCEPT ![r] = "inside"]
    /\ UNCHANGED <<entry, sharedVars, loopVars, workerVars, guardVars, reaperVars>>

\* The application ends, or the client never gets in.
ClientLeave(r) ==
    /\ client[r] \in {"granted", "inside"}
    /\ client' = [client EXCEPT ![r] = "left"]
    /\ entry' = [entry EXCEPT ![r] = NoFds]
    /\ UNCHANGED <<sharedVars, loopVars, workerVars, guardVars, reaperVars>>

-----------------------------------------------------------------------------
(* resource_worker and, last, the kernel. *)

\* Faulty variant: wait() also reports a guard that has only been stopped.
ReaperWaitStopped ==
    /\ rpc = "wait"
    /\ \E g \in Req : Unreaped(g) /\ rpid' = pid[g]
    /\ rpc' = "remove"
    /\ UNCHANGED <<rcfg, sharedVars, loopVars, guardVars, workerVars, clientVars>>

\* The children of this server; those of an earlier one are not its own.
Child(g) == Unreaped(g) /\ pc[g] # "lost"

ReaperWait ==
    /\ rpc = "wait"
    /\ \E g \in Req :
         /\ Child(g) /\ guard[g] = "zombie"
         /\ Become(g, "reaped")
         /\ rpid' = pid[g]
    /\ rpc' = "remove"
    /\ UNCHANGED <<rcfg, gdev, dgram1, dgram2, inherited, sealed, sharedVars, loopVars,
                   workerVars, clientVars>>

\* wait() fails with ECHILD: sleep 2 s and try again.
ReaperSleep ==
    /\ rpc = "wait"
    /\ \A g \in Req : ~Child(g)
    /\ UNCHANGED vars

\* Faulty variant: the entry is looked up and stays in the map.
ReaperLookup ==
    /\ rpc = "remove"
    /\ rcfg' = reg[rpid]
    /\ rpc' = IF reg[rpid] = None THEN "wait" ELSE "clean"
    /\ rpid' = None
    /\ UNCHANGED <<sharedVars, loopVars, workerVars, guardVars, clientVars>>

\* The lock is taken, the entry of that number, if any, leaves the map.
ReaperRemove ==
    /\ rpc = "remove"
    /\ rcfg' = reg[rpid]
    /\ rpc' = IF reg[rpid] = None THEN "wait" ELSE "clean"
    /\ reg' = [reg EXCEPT ![rpid] = None]
    /\ rpid' = None
    /\ UNCHANGED <<pair, ctl, semLog, loopVars, workerVars, guardVars, clientVars>>

\* _info!: an error is reported and forgotten, but the report may itself panic
\* (no standard error), and then the lock is poisoned and nobody wait()s, or it
\* never ends.
Info(ok, next) ==
    \/ ok /\ rpc' = next /\ UNCHANGED semLog
    \/ ~ok /\ Reports(TRUE) /\ rpc' \in {next, "dead"}
    \/ ~ok /\ Reports(FALSE) /\ rpc' = "hung"

\* Faulty variant: loop_unbind is left out.
ReaperCleanNot ==
    /\ rpc = "clean"
    /\ rpc' = "destroy"
    /\ UNCHANGED <<rpid, rcfg, sharedVars, loopVars, workerVars, guardVars, clientVars>>

\* resource_clean: the device is opened and unbound.  LOOP_CLR_FD fails only on a
\* device that is not bound, and it is (ReleaseOwn): the descriptor that would
\* then stay open never does.
ReaperClean ==
    /\ rpc = "clean"
    /\ LET ok == MayOpen(1) /\ loopId[rcfg] \in node /\ bind[loopId[rcfg]] # None
       IN  /\ IF ok THEN loop_unbind(loopId[rcfg]) ELSE UNCHANGED loopVars
           /\ Info(ok, "destroy")
    /\ rcfg' = IF rpc' = "destroy" THEN rcfg ELSE None
    /\ UNCHANGED <<rpid, reg, pair, ctl, workerVars, guardVars, clientVars>>

\* The control device is opened when it is first needed, and then for good.
LOOP_MASTER == ctl' = (ctl \/ MayOpen(1))

\* 2 s later: loop_destroy, then the lock is given back.  The ioctl may also
\* find the device opened by a guard that is about to bind it.
ReaperDestroy ==
    /\ rpc = "destroy"
    /\ LOOP_MASTER
    /\ \/ ctl' /\ loop_destroy(loopId[rcfg]) /\ Info(TRUE, "wait")
       \/ ctl' /\ UNCHANGED loopVars /\ Info(FALSE, "wait")
       \/ ~ctl' /\ UNCHANGED loopVars /\ Reports(TRUE) /\ rpc' = "dead"
       \/ ~ctl' /\ UNCHANGED loopVars /\ Reports(FALSE) /\ rpc' = "hung"
    /\ rcfg' = None
    /\ UNCHANGED <<rpid, reg, pair, workerVars, guardVars, clientVars>>

resource_worker ==
    ReaperWait \/ ReaperSleep \/ ReaperRemove \/ ReaperClean \/ ReaperDestroy

LoopAutoclear(d) ==
    /\ autoclear(d)
    /\ ~NsHeld(bind[d])
    /\ UNCHANGED <<sharedVars, workerVars, guardVars, clientVars, reaperVars>>

-----------------------------------------------------------------------------
(* The end of the server, whatever it is doing, and its restart. *)

\* main returns when recvfrom fails, or the process is killed: its threads,
\* its descriptors and RESOURCE are gone, the guards are not.
ServerEnds ==
    /\ rpc # "off"
    /\ pc' = [r \in Req |-> IF pc[r] = "idle" THEN "idle" ELSE "lost"]
    /\ queue' = <<>>
    /\ fds' = [r \in Req |-> NoFds]
    /\ reg' = [p \in Pid |-> None]
    /\ pair' = {}
    /\ ctl' = FALSE
    /\ semLog' = "new"
    /\ rpc' = "off" /\ rpid' = None /\ rcfg' = None
    /\ UNCHANGED <<pid, loopId, loopVars, guardVars, clientVars>>

\* The abstract address is taken as long as the old socket is: every guard was
\* born with a copy of it, and SO_REUSEADDR means nothing to AF_UNIX.
AddressTaken == \E g \in Req : Alive(g)

\* Faulty variant: SO_REUSEADDR were enough.
gen_server_socket_reused ==
    /\ rpc = "off"
    /\ rpc' = "wait"
    /\ UNCHANGED <<rpid, rcfg, sharedVars, loopVars, workerVars, guardVars, clientVars>>

gen_server_socket ==
    /\ rpc = "off"
    /\ ~AddressTaken
    /\ rpc' = "wait"
    /\ UNCHANGED <<rpid, rcfg, sharedVars, loopVars, workerVars, guardVars, clientVars>>

\* A request to the old socket is queued in the kernel, and nobody reads it.
\* (Without that socket sendmsg fails, and there is no request; nor is there one
\* as long as sendmsg waits for room in the queue, which ClientEntry has.)
SendUnread(r) ==
    /\ pc[r] = "idle"
    /\ rpc = "off"
    /\ AddressTaken
    /\ Goto(r, "lost")
    /\ client' = [client EXCEPT ![r] = "waiting"]
    /\ UNCHANGED <<queue, pid, loopId, fds, entry, sharedVars, loopVars, guardVars, reaperVars>>

\* The guards of a server that has ended are the children of the host's init.
InitReaps(g) ==
    /\ pc[g] = "lost"
    /\ guard[g] = "zombie"
    /\ Become(g, "reaped")
    /\ UNCHANGED <<gdev, dgram1, dgram2, inherited, sealed, sharedVars, loopVars, workerVars,
                   clientVars, reaperVars>>

-----------------------------------------------------------------------------
Next ==
    \/ StartJob
    \/ \E r \in Req : \/ uau_serve(r) \/ worker(r) \/ guard_ops(r)
                      \/ ClientTimeout(r) \/ ClientEnter(r) \/ ClientLeave(r)
                      \/ SendUnread(r) \/ InitReaps(r)
    \/ resource_worker \/ ServerEnds \/ gen_server_socket
    \/ \E d \in LoopId : LoopAutoclear(d)

Spec == Init /\ [][Next]_vars

(***************************************************************************)
(* The threads of the server run, wait() sees every dead child, the kernel  *)
(* clears idle devices, the host's init reaps orphans.  Nothing is assumed  *)
(* of guards: one may hang in a mount, in its last report (SemLog) or in a  *)
(* look at orphans (GuardWatch); nor of crashes, clients or a restart.      *)
(***************************************************************************)
Fairness ==
    /\ WF_vars(StartJob)
    /\ \A r \in Req : WF_vars(worker(r)) /\ WF_vars(InitReaps(r))
    /\ WF_vars(resource_worker)
    /\ \A d \in LoopId : WF_vars(LoopAutoclear(d))

FairSpec == Spec /\ Fairness
-----------------------------------------------------------------------------
(* Properties that hold. *)

\* Two guards that have mounted their package never share a loop device,
\* although LOOP_CTL_GET_FREE reserves nothing: what guard_mnt_loop bound
\* stays bound to that guard for as long as it runs.
LoopExclusive ==
    \A g \in Req : guard[g] \in {"overlay", "ready"} =>
        gdev[g] # None /\ bind[gdev[g]] = g

\* release_resource is handed a RockerCfg whose device is still bound to the
\* guard of that RockerCfg and was not released before, so loop_unbind never
\* touches the device of another sandbox, even when pids are reused.
ReleaseOwn ==
    rpc = "clean" =>
        /\ loopId[rcfg] \in LoopId
        /\ bind[loopId[rcfg]] = rcfg
        /\ loopId[rcfg] \notin auto

\* What the server knows a guard by is its pid alone.  Some of what it promises
\* therefore ends when the pid counter has come round to a pid used before.
PidReused == \E g, h \in Req : g # h /\ pid[g] # None /\ pid[g] = pid[h]

\* A client holds descriptors of the guard made for its own request, all
\* three of them, as long as no pid has been reused.
EntryIsOwn ==
    ~PidReused =>
        \A r \in Req : client[r] \in {"granted", "inside"} =>
            entry[r] = [ns \in NS |-> r]

\* What a client was told about exists: its guard had finished setting up,
\* and until it is reaped its RockerCfg is in RESOURCE for the reaper, unless
\* the server it was made by is gone.
GrantedRegistered ==
    ~PidReused =>
        \A r \in Req : client[r] \in {"granted", "inside"} =>
            r \in sealed /\ (Child(r) => reg[pid[r]] = r)

\* A step may take a RockerCfg out of RESOURCE only after wait() has reported
\* that very guard, or with the server itself: remove(&pid) never takes the
\* entry of a running guard.
NoLiveEntryDropped ==
    [][\A p \in Pid : reg[p] # None /\ reg'[p] # reg[p] =>
         PidReused \/ guard[reg[p]] = "reaped" \/ rpc' = "off"]_vars

\* The guards of two servers never run at the same time, although nothing in
\* the server looks for those of an earlier one: they hold its address.
OneGeneration ==
    \A g, h \in Req : Alive(g) /\ Alive(h) /\ pc[g] = "lost" => pc[h] = "lost"

\* What requests cost for as long as the server runs: a delivered one its
\* socket pair, any other at most the pair and three namespaces.  FdLimit
\* descriptors last for (FdLimit - 1) \div 5 requests, whatever befalls them.
LeakBound ==
    LET delivered == {r \in Req : pc[r] = "done"}
        others == {r \in Req : pc[r] \notin Waiting \cup {"parse", "done", "lost"}}
    IN  OpenFds <= 1 + 2 * Cardinality(delivered) + 5 * Cardinality(others)

\* The server comes to rest: every request that reached the queue gets a
\* worker that finishes, whatever its guard does.  A guard that hangs is given
\* up after the 2 s waits, a worker that meets the poisoned lock panics.  Only
\* a SEM_LOG that could not be opened keeps workers for ever.
Quiet(r) == pc[r] \in {"idle"} \cup Finished
RequestAnswered ==
    (\E r \in Req : ~Quiet(r)) ~> semLog = "stuck" \/ (\A r \in Req : Quiet(r))

\* A worker that gives its guard up leaves no process behind, whatever the guard
\* does, in the middle of its set-up or with SUCCESS sent too late: it is killed
\* and reaped, unless the server ends or nobody wait()s any more.
KilledGuardReaped ==
    \A r \in Req : pc[r] = "kill"
        ~> \/ guard[r] = "reaped" \/ pc[r] = "lost"
           \/ guard[r] = "zombie" /\ rpc \in {"dead", "hung"}

\* A device is bound to the guard's package and nobody asked for its release.
HoldsLoop(g) == \E d \in LoopId \ auto : bind[d] = g

\* A guard that was registered while it ran, and dies, has its device given
\* back: LOOP_CLR_FD is issued for it, unless the server ends, resource_worker
\* panics or hangs, or no descriptor is left to open the device with.
LoopReleased ==
    \A r \in Req : guard[r] = "zombie" /\ pc[r] # "lost" /\ reg[pid[r]] = r
        ~> \/ ~HoldsLoop(r) \/ PidReused
           \/ rpc \in {"dead", "hung", "off"} \/ ~MayOpen(1)

-----------------------------------------------------------------------------
(* What the server promises (RockerService), and that it keeps the promise. *)

answer == [r \in Req |->
    CASE client[r] = "new" -> "none"
      [] client[r] = "waiting" -> "pending"
      [] client[r] = "gone" -> "lost"
      [] client[r] = "refused" -> "refused"
      [] OTHER -> "granted"]

sandbox == [g \in Req |->
    CASE guard[g] = "none" -> "none"
      [] guard[g] = "ready" -> "up"
      [] guard[g] \in {"zombie", "reaped"} ->
            IF g \in sealed THEN "down" ELSE "failed"
      [] OTHER -> "building"]

Service == INSTANCE RockerService WITH lease <- bind

\* The server implements RockerService: a client is granted only a sandbox
\* whose guard got through its whole set-up, and a loop device serves one
\* sandbox from LOOP_SET_FD until that sandbox's guard is dead.
ImplementsService == Service!Spec

\* Clients whose granted sandbox has its process 1.
hosted == {r \in Req : /\ client[r] \in {"granted", "inside"}
                       /\ \E g \in Req : entry[r].pid = g /\ Alive(g)}

Role == INSTANCE ClientRole WITH role <- client, up <- hosted

\* To a client the server is what ClientEntry takes it for: it answers at most
\* once, and only who still waits, and an application is inside only while the
\* guard its client was granted lives, even when pids are reused.
ServesClients == Role!Spec

-----------------------------------------------------------------------------
(* Properties the documentation claims; see the README for how they fail. *)

\* README.md 1.3.2.1 (2): when the guard has exited, its sandbox is gone, all
\* mounts are cleaned up by the kernel.
SandboxGoneWithGuard ==
    \A g \in Req :
        guard[g] = "reaped" /\ (\A r \in Req : g \notin {fds[r].mnt, entry[r].mnt})
            => ~NsHeld(g)

\* rocker_server/src/main.rs:103: resource_worker releases what a guard that
\* has stopped held, as long as its server and its resource_worker run.
StoppedGuardReleased ==
    \A g \in Req :
        guard[g] = "reaped" ~> ~HoldsLoop(g) \/ pc[g] = "lost" \/ rpc \in {"dead", "hung"}
=============================================================================
