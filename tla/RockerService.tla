--------------------------- MODULE RockerService ---------------------------
(***************************************************************************)
(* What the rocker server promises, without its threads, processes, pids,   *)
(* sockets and locks.  A client asks once and is granted a sandbox,         *)
(* refused, or stops waiting.  Only a sandbox that was set up completely is *)
(* granted.  A sandbox is set up on a loop device that it has to itself     *)
(* from the moment it takes it until the sandbox is over.                   *)
(***************************************************************************)
CONSTANTS Req, LoopId, None

VARIABLES
    answer,     \* what the client of each request has been told
    sandbox,    \* life of the sandbox of each request
    lease       \* the request each loop device serves, or None

vars == <<answer, sandbox, lease>>

TypeOK ==
    /\ answer \in [Req -> {"none", "pending", "granted", "refused", "lost"}]
    /\ sandbox \in [Req -> {"none", "building", "up", "failed", "down"}]
    /\ lease \in [LoopId -> Req \cup {None}]

Init ==
    /\ answer = [r \in Req |-> "none"]
    /\ sandbox = [r \in Req |-> "none"]
    /\ lease = [d \in LoopId |-> None]

Ask(r) ==
    /\ answer[r] = "none"
    /\ answer' = [answer EXCEPT ![r] = "pending"]
    /\ UNCHANGED <<sandbox, lease>>

\* The sandbox had been set up; it may be over again when the answer leaves.
Grant(r) ==
    /\ answer[r] = "pending"
    /\ sandbox[r] \in {"up", "down"}
    /\ answer' = [answer EXCEPT ![r] = "granted"]
    /\ UNCHANGED <<sandbox, lease>>

Deny(r) ==
    /\ answer[r] = "pending"
    /\ \E a \in {"refused", "lost"} : answer' = [answer EXCEPT ![r] = a]
    /\ UNCHANGED <<sandbox, lease>>

\* Nothing is built that nobody asked for.
Build(r) ==
    /\ answer[r] # "none"
    /\ sandbox[r] = "none"
    /\ sandbox' = [sandbox EXCEPT ![r] = "building"]
    /\ UNCHANGED <<answer, lease>>

Lease(r, d) ==
    /\ sandbox[r] = "building"
    /\ lease[d] = None
    /\ \A e \in LoopId : lease[e] # r
    /\ lease' = [lease EXCEPT ![d] = r]
    /\ UNCHANGED <<answer, sandbox>>

Up(r) ==
    /\ sandbox[r] = "building"
    /\ \E d \in LoopId : lease[d] = r
    /\ sandbox' = [sandbox EXCEPT ![r] = "up"]
    /\ UNCHANGED <<answer, lease>>

Down(r) ==
    /\ sandbox[r] \in {"building", "up"}
    /\ sandbox' = [sandbox EXCEPT ![r] =
                     IF sandbox[r] = "up" THEN "down" ELSE "failed"]
    /\ UNCHANGED <<answer, lease>>

Return(d) ==
    /\ lease[d] # None
    /\ sandbox[lease[d]] \in {"failed", "down"}
    /\ lease' = [lease EXCEPT ![d] = None]
    /\ UNCHANGED <<answer, sandbox>>

Next ==
    \/ \E r \in Req : \/ Ask(r) \/ Grant(r) \/ Deny(r)
                      \/ Build(r) \/ Up(r) \/ Down(r)
                      \/ \E d \in LoopId : Lease(r, d)
    \/ \E d \in LoopId : Return(d)

Spec == Init /\ [][Next]_vars
=============================================================================
