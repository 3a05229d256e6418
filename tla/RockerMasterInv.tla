-------------------------- MODULE RockerMasterInv --------------------------
(***************************************************************************)
(* The inductive invariant behind the theorems of RockerMasterProofs.  It   *)
(* holds although pids are reused as soon as they are free.                 *)
(***************************************************************************)
EXTENDS RockerMaster

\* A guard that was cloned has a number, and so has the guard wait() reported.
PidInv ==
    /\ \A g \in Req : guard[g] # "none" => pid[g] \in Pid
    /\ rpc = "remove" => rpid \in Pid
    /\ rpc \in {"clean", "destroy"} => rcfg \in Req

\* No two processes have one number at a time.
PidUnique ==
    \A g, h \in Req : Unreaped(g) /\ Unreaped(h) /\ pid[g] = pid[h] => g = h

\* The pool's queue holds the queued requests, each once.
QueueInv ==
    /\ \A i \in DOMAIN queue : pc[queue[i]] = "queued"
    /\ \A i, j \in DOMAIN queue : queue[i] = queue[j] => i = j

\* What a guard has sent by each stage of its life.
GuardInv ==
    \A g \in Req :
        /\ guard[g] \in {"none", "prep", "get_free"} => gdev[g] = None
        /\ guard[g] \in {"none", "prep", "get_free", "bind"} => dgram1[g] = "none"
        /\ guard[g] \in {"overlay", "ready"} => dgram1[g] = "id"
        /\ guard[g] \in {"none", "prep", "get_free", "bind", "overlay"} =>
                dgram2[g] = "none"
        /\ guard[g] = "bind" \/ dgram1[g] = "id" => gdev[g] \in LoopId
        /\ guard[g] = "ready" => g \in sealed
        /\ guard[g] = "pdie" => g \notin sealed
        /\ g \in sealed <=> dgram2[g] = "ok"

HasCfg    == InInit \cup NS \cup {"register"}
AfterInit == NS \cup {"register", "send", "close", "done"}
AfterReg  == {"send", "close", "refuse", "hung"} \cup Finished

\* What a worker knows by each stage of its job.
WorkerInv ==
    \A r \in Req :
        /\ pc[r] = "idle" <=> client[r] = "new"
        /\ pc[r] \in Waiting \cup {"parse", "init"} =>
                guard[r] = "none" /\ loopId[r] = None
        /\ pc[r] \in InInit \cup AfterInit => guard[r] # "none"
        /\ loopId[r] # None => dgram1[r] = "id" /\ loopId[r] = gdev[r]
        /\ pc[r] \in {"errno", "idmap"} \cup AfterInit => loopId[r] # None
        /\ pc[r] \in {"idmap"} \cup AfterInit => r \in sealed

\* Who binds what: a device's binder took it and has got past the bind; a
\* guard that reported its device has it, for as long as it runs.
BindInv ==
    /\ \A d \in LoopId : bind[d] # None =>
         /\ gdev[bind[d]] = d
         /\ guard[bind[d]] \notin {"none", "prep", "get_free", "bind"}
    /\ \A g \in Req : guard[g] \in {"overlay", "ready"} => bind[gdev[g]] = g
    /\ \A d \in auto : bind[d] # None

\* A RockerCfg is in one place: with its worker, in RESOURCE, or with the
\* reaper; and it knows its device once it has left the worker.
CfgInv ==
    /\ \A p \in Pid : reg[p] # None =>
         pid[reg[p]] = p /\ pc[reg[p]] \in AfterReg /\ loopId[reg[p]] # None
    /\ rpc \in {"clean", "destroy"} =>
         /\ pc[rcfg] \in AfterReg
         /\ loopId[rcfg] # None
         /\ \A p \in Pid : reg[p] # rcfg

\* Until its RockerCfg has been cleaned, the device a guard reported is bound
\* to it and unmarked.
Owned(r) ==
    \/ pc[r] \in Waiting \cup {"parse", "init"} \cup HasCfg
    \/ \E p \in Pid : reg[p] = r
    \/ rpc = "clean" /\ rcfg = r

OwnedInv ==
    \A r \in Req : Owned(r) /\ dgram1[r] = "id" =>
        bind[gdev[r]] = r /\ gdev[r] \notin auto

\* The workers of a server are gone with it, and its guards before the next.
GenerationInv ==
    /\ rpc = "off" => \A r \in Req : pc[r] \in {"idle", "lost"}
    /\ rpc # "off" => \A g \in Req : Alive(g) => pc[g] # "lost"

\* Which requests may have descriptors open in the server.
FdInv ==
    /\ \A r \in pair : pc[r] \notin Waiting \cup {"parse", "lost"}
    /\ \A r \in Req, ns \in NS :
         fds[r][ns] # None => pc[r] \notin Waiting \cup {"parse", "done", "lost"}

IInv ==
    /\ TypeOK /\ PidInv /\ PidUnique /\ QueueInv /\ GuardInv /\ WorkerInv
    /\ BindInv /\ CfgInv /\ OwnedInv /\ GenerationInv /\ FdInv

-----------------------------------------------------------------------------
(* A second invariant, on top: whose namespaces the server's descriptors,   *)
(* and the clients', refer to.                                             *)

HasAll == {"register", "send", "close"}

Served(r) == client[r] \in {"granted", "inside"}

\* A descriptor was opened on a guard there had been, a reply has all three,
\* and it was sent by a worker that has nothing left to do but close its own.
NamesInv ==
    /\ \A g \in Req : guard[g] = "none" => pid[g] = None
    /\ \A r \in Req, ns \in NS :
         /\ fds[r][ns] # None => guard[fds[r][ns]] # "none"
         /\ entry[r][ns] # None => guard[entry[r][ns]] # "none"
         /\ Served(r) => entry[r][ns] # None
    /\ \A r \in Req :
         /\ pc[r] \in {"pid", "user"} \cup HasAll => fds[r].mnt # None
         /\ pc[r] \in {"user"} \cup HasAll => fds[r].pid # None
         /\ pc[r] \in HasAll => fds[r].user # None
         /\ Served(r) => r \in sealed /\ pc[r] \in {"close", "done", "lost"}

\* As long as no pid has come again: what a worker opened is its own guard's, a
\* RockerCfg stays in RESOURCE until its guard is reaped, and the number the
\* reaper looks up is a reaped guard's.
OwnFds ==
    \A r \in Req, ns \in NS : fds[r][ns] \in {r, None} /\ entry[r][ns] \in {r, None}

OwnReg ==
    \A r \in Req : pc[r] \in {"send", "close", "done"} /\ Unreaped(r) => reg[pid[r]] = r

OwnReaped ==
    rpc = "remove" => \E g \in Req : pid[g] = rpid /\ guard[g] = "reaped"

OwnInv == ~PidReused => OwnFds /\ OwnReg /\ OwnReaped

EntryInv == NamesInv /\ OwnInv
=============================================================================
