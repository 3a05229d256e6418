---------------------------- MODULE ClientEntry ----------------------------
(***************************************************************************)
(* One call of ROCKER_enter_rocker (librocker_client/src/lib.c, namespace.c, *)
(* io.c).  The caller opens a pipe and forks a child; the child asks the    *)
(* server, enters the namespaces it is sent, clones the application as its  *)
(* own brother (CLONE_PARENT: a child of the caller) and writes the result  *)
(* into the pipe; the Rust wrapper (client_ffi) turns the number into an    *)
(* ErrorKind.  Server and guard are the environment; RockerMaster has their *)
(* side, and ClientRole what the two modules agree on.                      *)
(***************************************************************************)
EXTENDS Naturals, Sequences, FiniteSets

\* Faulty variant: the order of NARRAY's comments and of the README's figure.
NSUserFirst == <<"user", "mnt", "pid">>

\* The order the server opens, and so sends, the descriptors in.
NS == <<"mnt", "pid", "user">>
AllNs == {"mnt", "pid", "user"}
N == 3

\* ROCKER_ERR, in the order of its numbers, which begin with 0.
ROCKER_ERR == <<"success", "sys", "param_invalid", "addr_invalid", "local_addr",
                "send_req", "recv_resp", "build", "enter", "app_exec">>
Err == {ROCKER_ERR[i] : i \in DOMAIN ROCKER_ERR}

VARIABLES
    caller,     \* the calling thread: where it is in ROCKER_enter_rocker
    result,     \* what ROCKER_enter_rocker returned
    child,      \* where the forked child is in ROCKER_enter_rocker_inner
    err_no,     \* jr.err_no of the child
    arrived,    \* descriptors recvmsg() found room for
    entered,    \* namespaces the child has entered
    locked,     \* is the child's copy of LogLk held by a thread it has not?
    pipe,       \* the result in the pipe, or "empty"
    app,        \* the application
    appNs,      \* namespaces the application runs in
    server,     \* the server's answer: pending, on its way, or never to come
    guardUp,    \* is the guard alive?
    full,       \* is there no room for a request at the server's address?
    root        \* has the caller CAP_SYS_ADMIN?

callerVars == <<caller, result>>
childVars  == <<child, err_no, arrived, entered, locked>>
appVars    == <<app, appNs>>
envVars    == <<server, guardUp, full>>
vars == <<callerVars, childVars, pipe, appVars, envVars, root>>

Inner == {"socket", "send", "recv", "setns", "brother", "write"}

TypeOK ==
    /\ caller \in {"called", "reading", "returned"}
    /\ result \in Err \cup {"none"}
    /\ child \in {"none", "exited", "killed"} \cup Inner
    /\ err_no \in Err
    /\ arrived \in 0..N
    /\ entered \subseteq AllNs
    /\ locked \in BOOLEAN
    /\ pipe \in Err \cup {"empty"}
    /\ app \in {"none", "running", "over"}
    /\ appNs \subseteq AllNs
    /\ server \in {"idle", "asked", "granted", "refused"}
    /\ guardUp \in BOOLEAN
    /\ full \in BOOLEAN
    /\ root \in BOOLEAN

Init ==
    /\ caller = "called" /\ result = "none"
    /\ child = "none" /\ err_no = "success" /\ locked = FALSE
    /\ arrived = 0 /\ entered = {}
    /\ pipe = "empty"
    /\ app = "none" /\ appNs = {}
    /\ server = "idle" /\ guardUp = FALSE
    /\ full \in BOOLEAN
    /\ root \in BOOLEAN

-----------------------------------------------------------------------------
(* The caller: ROCKER_enter_rocker. *)

\* Faulty variant: what read() left in the result is returned, complete or not.
ReturnRaw(e) == caller' = "returned" /\ result' = pipe

Return(e) == caller' = "returned" /\ result' = e

\* No pipe, no request or application, no child.
CallFails ==
    /\ caller = "called"
    /\ \E e \in {"sys", "param_invalid"} : Return(e)
    /\ UNCHANGED <<childVars, pipe, appVars, envVars, root>>

\* Another thread of the caller may be writing to the log at that moment
\* (display_errchain): the child is born with the lock held, and without the
\* thread.
Fork ==
    /\ caller = "called"
    /\ caller' = "reading"
    /\ child' = "socket"
    /\ locked' \in BOOLEAN
    /\ UNCHANGED <<result, err_no, arrived, entered, pipe, appVars, envVars, root>>

\* Who has the pipe open for writing: the caller, which closes both ends only
\* on its return, its child, and the application, which is born with copies.
Writers ==
    {p \in {"caller", "child", "app"} :
        \/ p = "caller" /\ caller = "reading"
        \/ p = "child" /\ child \in Inner
        \/ p = "app" /\ app = "running"}

\* read(): the whole result, or an end of file when nobody can write any more.
Read ==
    /\ caller = "reading"
    /\ pipe # "empty" \/ Writers = {}
    /\ Return(IF pipe = "empty" THEN "sys" ELSE pipe)
    /\ UNCHANGED <<childVars, pipe, appVars, envVars, root>>

\* A signal handled without SA_RESTART: read() fails with EINTR.
ReadInterrupted ==
    /\ caller = "reading"
    /\ pipe = "empty"
    /\ Return("sys")
    /\ UNCHANGED <<childVars, pipe, appVars, envVars, root>>

-----------------------------------------------------------------------------
(* The child: ROCKER_enter_rocker_inner, enter_ns and run_in_brother. *)

\* Under LogLk, which nobody is left to release if the child has it that way.
display_errchain == ~locked

\* ROCKER_ERR_checker___: the error is logged and becomes the result; recv_fd
\* logs a refusal by the server too.
Fail(e) == display_errchain /\ child' = "write" /\ err_no' = e

\* The server's address and a local socket.
Socket ==
    /\ child = "socket"
    /\ \/ child' = "send" /\ UNCHANGED err_no
       \/ \E e \in {"addr_invalid", "local_addr"} : Fail(e)
    /\ UNCHANGED <<callerVars, arrived, entered, locked, pipe, appVars, envVars, root>>

\* send_normal: without a server the kernel answers ECONNREFUSED.  The socket is
\* a blocking one and sendmsg() has no time limit: it waits for room.
SendReq ==
    /\ child = "send"
    /\ ~full
    /\ \/ child' = "recv" /\ server' = "asked" /\ UNCHANGED err_no
       \/ Fail("send_req") /\ UNCHANGED server
    /\ UNCHANGED <<callerVars, arrived, entered, locked, pipe, appVars, guardUp, full, root>>

\* recv_fd got an answer; a negative pid, or no descriptors, is a refusal.  A
\* caller at its limit of open files gets the first descriptors only, or none,
\* and MSG_CTRUNC, which nobody looks at.
RecvFd ==
    /\ child = "recv"
    /\ server \in {"granted", "refused"}
    /\ arrived' \in IF server = "granted" THEN 0..N ELSE {0}
    /\ IF arrived' > 0 THEN child' = "setns" /\ UNCHANGED err_no
                       ELSE Fail("build")
    /\ UNCHANGED <<callerVars, entered, locked, pipe, appVars, envVars, root>>

\* Faulty variant: poll() with no time limit.
RecvTimeoutNever ==
    /\ child = "recv"
    /\ server = "granted"
    /\ Fail("recv_resp")
    /\ UNCHANGED <<callerVars, arrived, entered, locked, pipe, appVars, envVars, root>>

\* poll() has waited 3 s, or recvmsg() fails.
RecvTimeout ==
    /\ child = "recv"
    /\ Fail("recv_resp")
    /\ UNCHANGED <<callerVars, arrived, entered, locked, pipe, appVars, envVars, root>>

\* The loop variable of enter_ns.
Index == Cardinality(entered) + 1

\* setns() wants CAP_SYS_ADMIN over the namespace's owner; mnt and pid belong
\* to the host's user namespace, and are out of reach once that is left.
MayEnter(ns) == root /\ (ns = "user" \/ "user" \notin entered)

\* Faulty variant: the loop ends with the descriptors that arrived.
EnterNsArrived ==
    /\ child = "setns"
    /\ IF MayEnter(NS[Index])
       THEN /\ entered' = entered \cup {NS[Index]}
            /\ child' = IF Index = arrived THEN "brother" ELSE "setns"
            /\ UNCHANGED err_no
       ELSE Fail("enter") /\ UNCHANGED entered
    /\ UNCHANGED <<callerVars, arrived, locked, pipe, appVars, envVars, root>>

\* One turn of the loop of enter_ns.  Behind the descriptors that arrived the
\* buffer holds zeros, and descriptor 0 is no namespace.
EnterNs ==
    /\ child = "setns"
    /\ IF Index <= arrived /\ MayEnter(NS[Index])
       THEN /\ entered' = entered \cup {NS[Index]}
            /\ child' = IF Index = N THEN "brother" ELSE "setns"
            /\ UNCHANGED err_no
       ELSE Fail("enter") /\ UNCHANGED entered
    /\ UNCHANGED <<callerVars, arrived, locked, pipe, appVars, envVars, root>>

\* run_in_brother: no process can be cloned into a pid namespace whose guard
\* is dead.
RunInBrother ==
    /\ child = "brother"
    /\ guardUp \/ "pid" \notin entered
    /\ child' = "write"
    /\ app' = "running"
    /\ appNs' = entered
    /\ UNCHANGED <<callerVars, err_no, arrived, entered, locked, pipe, envVars, root>>

\* Faulty variant: the application is there, and reported as failed.
BrotherFailsLate ==
    /\ child = "brother"
    /\ Fail("app_exec")
    /\ app' = "running"
    /\ appNs' = entered
    /\ UNCHANGED <<callerVars, arrived, entered, locked, pipe, envVars, root>>

BrotherFails ==
    /\ child = "brother"
    /\ Fail("app_exec")
    /\ UNCHANGED <<callerVars, arrived, entered, locked, pipe, appVars, envVars, root>>

\* write() and exit(); nobody waits for the child.
Write ==
    /\ child = "write"
    /\ child' = "exited"
    /\ pipe' = err_no
    /\ UNCHANGED <<callerVars, err_no, arrived, entered, locked, appVars, envVars, root>>

inner == Socket \/ SendReq \/ RecvFd \/ RecvTimeout \/ EnterNs
            \/ RunInBrother \/ BrotherFails \/ Write

-----------------------------------------------------------------------------
(* The wrapper: what its caller is told. *)

\* Faulty variant: two neighbours have changed places.
metalSwapped == <<"success", "sys", "param_invalid", "server_unaddr_invalid",
    "gen_local_addr_failed", "recv_resp_failed", "send_req_failed",
    "rocker_build_failed", "enter_rocker_failed", "app_exec_failed",
    "get_guardname_failed">>

\* The wrapper numbers the errors of err_no.h anew, by hand, from 0.
metal == <<"success", "sys", "param_invalid", "server_unaddr_invalid",
    "gen_local_addr_failed", "send_req_failed", "recv_resp_failed",
    "rocker_build_failed", "enter_rocker_failed", "app_exec_failed",
    "get_guardname_failed">>

ErrorKind == [success |-> "Ok", sys |-> "RockerSys", param_invalid |-> "RockerParam",
    server_unaddr_invalid |-> "RockerServerUnaddr",
    gen_local_addr_failed |-> "RockerGenLocalAddr", send_req_failed |-> "RockerSendReq",
    recv_resp_failed |-> "RockerRecvResp", rocker_build_failed |-> "RockerBuildRocker",
    enter_rocker_failed |-> "RockerEnterRocker", app_exec_failed |-> "RockerAppExec",
    get_guardname_failed |-> "RockerGetGuardname"]

res_convert(n) == IF n + 1 \in DOMAIN metal THEN ErrorKind[metal[n + 1]] ELSE "Unknown"

\* RockerRequest::enter_rocker of the wrapper, once the C function is back.
kind ==
    IF caller = "returned"
    THEN res_convert((CHOOSE k \in DOMAIN ROCKER_ERR : ROCKER_ERR[k] = result) - 1)
    ELSE "none"

-----------------------------------------------------------------------------
(* The environment. *)

ChildKilled ==
    /\ child \in Inner
    /\ child' = "killed"
    /\ UNCHANGED <<callerVars, err_no, arrived, entered, locked, pipe, appVars, envVars, root>>

\* The child's socket is there as long as the child.  A guard that was granted
\* may be gone when the answer arrives.
ServerAnswers ==
    /\ server = "asked"
    /\ child \in Inner
    /\ server' \in {"granted", "refused"}
    /\ guardUp' \in IF server' = "granted" THEN BOOLEAN ELSE {FALSE}
    /\ UNCHANGED <<callerVars, childVars, pipe, appVars, full, root>>

AppEnds ==
    /\ app = "running"
    /\ app' = "over"
    /\ UNCHANGED <<callerVars, childVars, pipe, appNs, envVars, root>>

\* The kernel kills what runs in the guard's pid namespace.
GuardDies ==
    /\ guardUp
    /\ guardUp' = FALSE
    /\ app' = IF app = "running" /\ "pid" \in appNs THEN "over" ELSE app
    /\ UNCHANGED <<callerVars, childVars, pipe, appNs, server, full, root>>

\* Other clients fill the queue of the server's socket, and the server empties
\* it; or there is no server any more, and its guards keep its socket.
QueueChanges ==
    /\ full' = ~full
    /\ UNCHANGED <<callerVars, childVars, pipe, appVars, server, guardUp, root>>

Next ==
    \/ CallFails \/ Fork \/ Read \/ ReadInterrupted
    \/ inner
    \/ ChildKilled \/ ServerAnswers \/ AppEnds \/ GuardDies \/ QueueChanges

Spec == Init /\ [][Next]_vars

\* Caller and child run; the server, the guard and the application need not.
FairSpec == Spec /\ WF_vars(Fork) /\ WF_vars(Read) /\ WF_vars(inner)
-----------------------------------------------------------------------------
\* A call that succeeds has started the application inside all three
\* namespaces of the sandbox.
SuccessMeansInside ==
    result = "success" => app # "none" /\ appNs = AllNs

\* A call that fails has started nothing.  "sys" is left out: it is also the
\* answer when a signal cuts read() short, and then the child goes on, and
\* the application runs behind the caller's back.
FailureMeansNoApp ==
    caller = "returned" /\ result \notin {"success", "sys"} => app = "none"

\* A privileged client that had room for the descriptors is never refused by
\* setns(): the user namespace comes last (core/src/master.rs:39), after it no
\* other could be entered.
PrivilegedEnters == err_no = "enter" => ~root \/ arrived < N

\* What the wrapper's caller is told says how far the call got: nothing was
\* asked of the server, or it was and no namespace was entered, or they were
\* entered in part, or all and the application did not start, or it runs.
\* Only a system error, and an unanswered request, leave it open.
KindTellsProgress ==
    LET asked == server # "idle"
        told(K) == kind \in K
    IN  /\ told({"RockerParam"}) => child = "none"
        /\ told({"RockerServerUnaddr", "RockerGenLocalAddr", "RockerSendReq"})
                => ~asked
        /\ told({"RockerRecvResp"}) => asked /\ entered = {}
        /\ told({"RockerBuildRocker"}) =>
                server = "refused" \/ (server = "granted" /\ arrived = 0)
        /\ told({"RockerEnterRocker"}) => server = "granted" /\ entered # AllNs
        /\ told({"RockerAppExec"}) => entered = AllNs /\ app = "none"
        /\ told({"Ok"}) => app # "none" /\ appNs = AllNs
        /\ ~told({"Unknown", "RockerGetGuardname"})

\* A call comes back as long as its child is not killed, was not forked in the
\* middle of another thread's report, and finds room for its request: its own
\* limit of 3 s begins only when that has been sent.
CallReturns ==
    <>[]~full =>
        (caller = "reading" ~> caller = "returned" \/ child = "killed" \/ locked)

-----------------------------------------------------------------------------
(* What the server takes the call for (ClientRole). *)

role ==
    CASE server = "idle" -> "new"
      [] server = "asked" -> IF child \in Inner THEN "waiting" ELSE "gone"
      [] server = "refused" -> "refused"
      [] OTHER -> IF app = "running" THEN "inside"
                  ELSE IF app = "none" /\ child \in Inner THEN "granted" ELSE "left"

Role == INSTANCE ClientRole
            WITH Req <- {"call"}, role <- [r \in {"call"} |-> role],
                 up <- IF guardUp /\ role \in {"granted", "inside"} THEN {"call"} ELSE {}

\* A call goes through the stations RockerMaster has for its clients, its
\* application starts only while the guard it was granted lives, and it does
\* not outlive it.
PlaysClient == Role!Spec

-----------------------------------------------------------------------------
(* A property the documentation claims; see the README for how it fails. *)

\* lib.c:142: the wrapper keeps the calling process from being disturbed by
\* what goes on in its child: whatever that is, the call comes back.  Stated of
\* a child that finds room for its request.
CallerUndisturbed ==
    <>[]~full => (caller = "reading" ~> caller = "returned")
=============================================================================
