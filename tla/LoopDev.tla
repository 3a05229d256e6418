------------------------------ MODULE LoopDev ------------------------------
(***************************************************************************)
(* The loop devices of the host, as core/src/loop drives them: the ioctls   *)
(* LOOP_CTL_GET_FREE, LOOP_SET_FD, LOOP_CLR_FD and LOOP_CTL_REMOVE, and the  *)
(* kernel's own "autoclear" of a device whose LOOP_CLR_FD came while it was *)
(* still mounted.  The operators are action formulas over the three         *)
(* variables below; RockerMaster conjoins them with what its processes do.  *)
(***************************************************************************)

CONSTANTS
    LoopId,     \* the numbers N of /dev/loopN
    Req,        \* the guards, named by their requests: who binds a device
    None        \* no device, no guard

ASSUME NoneAssumption == None \notin LoopId \cup Req

VARIABLES
    node,       \* the devices that exist
    bind,       \* the guard that bound each device to its package, or None
    auto        \* bound devices marked LO_FLAGS_AUTOCLEAR by LOOP_CLR_FD

loopVars == <<node, bind, auto>>

LoopTypeOK ==
    /\ node \subseteq LoopId
    /\ bind \in [LoopId -> Req \cup {None}]
    /\ auto \subseteq LoopId

LoopInit ==
    /\ node = {}
    /\ bind = [d \in LoopId |-> None]
    /\ auto = {}

Unbound(d) == d \in node /\ bind[d] = None

\* Any unbound device; when all are bound the kernel makes a new one.  Nothing
\* is reserved: the device stays free until it is bound.
loop_ctl_get_free(d) ==
    \/ Unbound(d)
    \/ d \notin node /\ \A e \in node : bind[e] # None

get_loop_dev(d) ==
    /\ loop_ctl_get_free(d)
    /\ node' = node \cup {d}
    /\ UNCHANGED <<bind, auto>>

\* Faulty variant: a bound device is bound anew (LOOP_CHANGE_FD).
bind_pkg_again(d, g) ==
    /\ d \in node
    /\ bind' = [bind EXCEPT ![d] = g]
    /\ UNCHANGED <<node, auto>>

\* bind_pkg: LOOP_SET_FD answers EBUSY for a bound device.
bind_pkg(d, g) ==
    /\ Unbound(d)
    /\ bind' = [bind EXCEPT ![d] = g]
    /\ UNCHANGED <<node, auto>>

\* loop_unbind: LOOP_CLR_FD never takes a mounted device away, it marks it.
loop_unbind(d) ==
    /\ bind[d] # None
    /\ auto' = auto \cup {d}
    /\ UNCHANGED <<node, bind>>

\* loop_destroy: LOOP_CTL_REMOVE answers EBUSY for a bound device.
loop_destroy(d) ==
    /\ Unbound(d)
    /\ node' = node \ {d}
    /\ UNCHANGED <<bind, auto>>

\* The kernel lets go of a marked device once nothing mounts it any more.
autoclear(d) ==
    /\ d \in auto
    /\ bind' = [bind EXCEPT ![d] = None]
    /\ auto' = auto \ {d}
    /\ UNCHANGED node
=============================================================================
