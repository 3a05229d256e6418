-------------------------- MODULE ClientEntryProofs --------------------------
(***************************************************************************)
(* Proofs about one call of ROCKER_enter_rocker: its answer is true, says   *)
(* how far the call got, and the call is a client as the server knows it.   *)
(***************************************************************************)
EXTENDS ClientEntry, FiniteSetTheorems, TLAPS

\* Where the child has not failed, nor started anything, yet.
Under == {"none", "socket", "send", "recv", "setns", "brother"}

\* How far the child is, by its place in ROCKER_enter_rocker_inner.
PlaceInv ==
    /\ child \in Under => err_no = "success" /\ app = "none"
    /\ child \in {"none", "socket", "send"} => server = "idle"
    /\ child = "recv" => server # "idle"
    /\ child \in {"setns", "brother"} => server = "granted"
    /\ child \in {"none", "socket", "send", "recv"} => entered = {}
    /\ child = "setns" => entered # AllNs
    /\ child = "brother" => entered = AllNs
    /\ child \in {"write", "exited"} /\ err_no = "success" => app # "none"

\* The namespaces are entered in the order of NS.
EnteredInv == entered \in {{}, {"mnt"}, {"mnt", "pid"}, AllNs}

\* An error number that has been set says how far the child got; what it says
\* stays true whatever server, guard and caller do afterwards.
ErrInv ==
    /\ err_no \notin {"sys", "param_invalid"}
    /\ err_no \in {"addr_invalid", "local_addr", "send_req"} => server = "idle"
    /\ err_no = "recv_resp" => server # "idle" /\ entered = {}
    /\ err_no = "build" => server = "refused" \/ (server = "granted" /\ arrived = 0)
    /\ err_no = "enter" => server = "granted" /\ entered # AllNs /\ (~root \/ arrived < N)
    /\ err_no = "app_exec" => entered = AllNs
    /\ err_no # "success" => app = "none"

\* The application was started inside, by a child that was granted a guard.
AppInv == app # "none" => appNs = AllNs /\ server = "granted"

\* The result is the child's last word, or the caller's own.
PipeInv == pipe # "empty" => child = "exited" /\ pipe = err_no

ResultInv ==
    /\ caller = "called" => child = "none"
    /\ caller = "reading" => child # "none"
    /\ result # "none" <=> caller = "returned"
    /\ result = "param_invalid" => child = "none"
    /\ result \notin {"none", "sys", "param_invalid"} => child = "exited" /\ result = err_no

IInv == TypeOK /\ PlaceInv /\ EnteredInv /\ ErrInv /\ AppInv /\ PipeInv /\ ResultInv

-----------------------------------------------------------------------------
(* The operators. *)

\* The loop variable of enter_ns is the place of the first namespace in NS
\* that has not been entered.
LEMMA IndexValue ==
    /\ entered = {} => Index = 1
    /\ entered = {"mnt"} => Index = 2
    /\ entered = {"mnt", "pid"} => Index = 3
<1>1. Cardinality({}) = 0 /\ IsFiniteSet({})
  BY FS_EmptySet
<1>2. Cardinality({"mnt"}) = 1 /\ IsFiniteSet({"mnt"})
  BY FS_Singleton
<1>3. {"mnt", "pid"} = {"mnt"} \cup {"pid"} /\ "pid" \notin {"mnt"}
  OBVIOUS
<1>4. Cardinality({"mnt", "pid"}) = 2
  BY <1>2, <1>3, FS_AddElement
<1> QED
  BY <1>1, <1>2, <1>4 DEF Index

\* One turn of enter_ns that succeeds.
LEMMA Enters ==
    ASSUME EnteredInv, entered # AllNs, entered' = entered \cup {NS[Index]}
    PROVE  /\ EnteredInv'
           /\ entered' # {}
           /\ Index = N <=> entered' = AllNs
           /\ Index \in 1..N
<1>1. CASE entered = {}
  BY <1>1, IndexValue DEF EnteredInv, NS, N, AllNs
<1>2. CASE entered = {"mnt"}
  BY <1>2, IndexValue DEF EnteredInv, NS, N, AllNs
<1>3. CASE entered = {"mnt", "pid"}
  BY <1>3, IndexValue DEF EnteredInv, NS, N, AllNs
<1> QED
  BY <1>1, <1>2, <1>3 DEF EnteredInv

\* The user namespace is the last: nobody who has it still wants to enter one.
LEMMA UserLast ==
    ASSUME EnteredInv, entered # AllNs
    PROVE  "user" \notin entered
  BY DEF EnteredInv, AllNs

LEMMA ErrValues ==
    Err = {"success", "sys", "param_invalid", "addr_invalid", "local_addr",
           "send_req", "recv_resp", "build", "enter", "app_exec"}
<1>1. DOMAIN ROCKER_ERR = 1..10
  BY DEF ROCKER_ERR
<1> QED
  BY <1>1 DEF Err, ROCKER_ERR

-----------------------------------------------------------------------------
(* The invariant. *)

LEMMA InitIInv == Init => IInv
<1> SUFFICES ASSUME Init PROVE IInv
  OBVIOUS
<1>1. TypeOK
  <2>1. "success" \in Err /\ 0 \in 0..N
    BY ErrValues DEF N
  <2>2. locked \in BOOLEAN /\ guardUp \in BOOLEAN /\ full \in BOOLEAN /\ root \in BOOLEAN
    BY DEF Init
  <2> QED
    BY <2>1, <2>2 DEF Init, TypeOK
<1>2. PlaceInv /\ EnteredInv /\ ErrInv
  BY DEF Init, PlaceInv, EnteredInv, ErrInv
<1>3. AppInv /\ PipeInv /\ ResultInv
  BY DEF Init, AppInv, PipeInv, ResultInv
<1> QED
  BY <1>1, <1>2, <1>3 DEF IInv

\* The child reports an error and goes on to write it: what ErrInv says of it
\* is all that there is to show.
LEMMA FailIInv ==
    ASSUME IInv, NEW e \in Err \ {"success", "sys", "param_invalid"}, Fail(e),
           child \in Under \ {"none"}, ErrInv', arrived' \in 0..N,
           UNCHANGED <<callerVars, entered, locked, pipe, appVars, envVars, root>>
    PROVE  IInv'
<1>1. child' = "write" /\ err_no' = e
  BY DEF Fail
<1>2. TypeOK'
  BY <1>1 DEF IInv, TypeOK, Inner, callerVars, appVars, envVars
<1>3. PlaceInv'
  BY <1>1 DEF Under, PlaceInv
<1>4. EnteredInv' /\ AppInv'
  BY DEF IInv, EnteredInv, AppInv, appVars, envVars
<1>5. PipeInv' /\ ResultInv'
  BY <1>1 DEF IInv, PipeInv, ResultInv, Under, callerVars
<1> QED
  BY <1>2, <1>3, <1>4, <1>5 DEF IInv

\* The child's own steps.
LEMMA InnerIInv == IInv /\ inner => IInv'
<1> SUFFICES ASSUME IInv, inner PROVE IInv'
  OBVIOUS
<1>1. CASE Socket
  <2>1. CASE child' = "send" /\ UNCHANGED err_no
    BY <1>1, <2>1 DEF Socket, IInv, TypeOK, PlaceInv, EnteredInv, ErrInv, AppInv, PipeInv,
       ResultInv, Under, Inner, callerVars, appVars, envVars
  <2>2. ASSUME NEW e \in {"addr_invalid", "local_addr"}, Fail(e) PROVE IInv'
    <3>1. e \in Err \ {"success", "sys", "param_invalid"}
      BY <2>2, ErrValues
    <3>2. ErrInv'
      BY <1>1, <2>2 DEF Socket, Fail, IInv, PlaceInv, ErrInv, Under, appVars, envVars
    <3> QED
      BY <1>1, <2>2, <3>1, <3>2, FailIInv DEF Socket, Under, IInv, TypeOK
  <2> QED
    BY <1>1, <2>1, <2>2 DEF Socket
<1>2. CASE SendReq
  <2>1. CASE child' = "recv" /\ server' = "asked" /\ UNCHANGED err_no
    BY <1>2, <2>1 DEF SendReq, IInv, TypeOK, PlaceInv, EnteredInv, ErrInv, AppInv, PipeInv,
       ResultInv, Under, Inner, callerVars, appVars
  <2>2. CASE Fail("send_req") /\ UNCHANGED server
    <3>1. ErrInv'
      BY <1>2, <2>2 DEF SendReq, Fail, IInv, PlaceInv, ErrInv, Under, appVars
    <3> QED
      BY <1>2, <2>2, <3>1, ErrValues, FailIInv DEF SendReq, Under, IInv, TypeOK, envVars
  <2> QED
    BY <1>2, <2>1, <2>2 DEF SendReq
<1>3. CASE RecvFd
  <2>0. arrived' \in 0..N /\ (arrived' # 0 => server = "granted")
    BY <1>3 DEF RecvFd, N
  <2>1. CASE child' = "setns" /\ UNCHANGED err_no /\ arrived' > 0
    BY <1>3, <2>0, <2>1 DEF RecvFd, IInv, TypeOK, PlaceInv, EnteredInv, ErrInv, AppInv,
       PipeInv, ResultInv, Under, Inner, AllNs, callerVars, appVars, envVars
  <2>2. CASE Fail("build") /\ arrived' = 0
    <3>1. ErrInv'
      BY <1>3, <2>2 DEF RecvFd, Fail, IInv, PlaceInv, ErrInv, Under, appVars, envVars
    <3> QED
      BY <1>3, <2>0, <2>2, <3>1, ErrValues, FailIInv DEF RecvFd, Under
  <2> QED
    BY <1>3, <2>0, <2>1, <2>2 DEF RecvFd, N
<1>4. CASE RecvTimeout
  <2>1. ErrInv'
    BY <1>4 DEF RecvTimeout, Fail, IInv, PlaceInv, ErrInv, Under, appVars, envVars
  <2> QED
    BY <1>4, <2>1, ErrValues, FailIInv DEF RecvTimeout, Under, IInv, TypeOK
<1>5. CASE EnterNs
  <2>0. child = "setns" /\ entered # AllNs /\ EnteredInv
    BY <1>5 DEF EnterNs, IInv, PlaceInv
  <2>1. CASE entered' = entered \cup {NS[Index]} /\ UNCHANGED err_no
             /\ child' = IF Index = N THEN "brother" ELSE "setns"
    <3>1. EnteredInv' /\ (child' = "brother" => entered' = AllNs)
          /\ (child' = "setns" => entered' # AllNs) /\ child' \in {"setns", "brother"}
      BY <2>0, <2>1, Enters
    <3>2. entered' \subseteq AllNs
      BY <3>1 DEF EnteredInv, AllNs
    <3>3. TypeOK' /\ PlaceInv'
      BY <1>5, <2>0, <2>1, <3>1, <3>2 DEF EnterNs, IInv, TypeOK, PlaceInv, Under, Inner,
         callerVars, appVars, envVars
    <3>4. ErrInv' /\ AppInv'
      BY <1>5, <2>0, <2>1 DEF EnterNs, IInv, PlaceInv, ErrInv, AppInv, Under, appVars, envVars
    <3>5. PipeInv' /\ ResultInv'
      BY <1>5, <2>0, <3>1 DEF EnterNs, IInv, PipeInv, ResultInv, callerVars
    <3> QED
      BY <3>1, <3>3, <3>4, <3>5 DEF IInv
  <2>2. CASE Fail("enter") /\ UNCHANGED entered /\ ~(Index <= arrived /\ MayEnter(NS[Index]))
    <3>1. "user" \notin entered /\ Index \in 1..N
      BY <2>0, UserLast, IndexValue DEF EnteredInv, N
    <3>2. ~root \/ arrived < N
      BY <2>2, <3>1 DEF MayEnter, IInv, TypeOK, N
    <3>3. ErrInv'
      BY <1>5, <2>0, <2>2, <3>2 DEF EnterNs, Fail, IInv, PlaceInv, ErrInv, Under, appVars,
         envVars
    <3> QED
      BY <1>5, <2>2, <3>3, ErrValues, FailIInv DEF EnterNs, Under, IInv, TypeOK
  <2> QED
    BY <1>5, <2>1, <2>2 DEF EnterNs
<1>6. CASE RunInBrother
  BY <1>6 DEF RunInBrother, IInv, TypeOK, PlaceInv, EnteredInv, ErrInv, AppInv, PipeInv,
     ResultInv, Under, Inner, callerVars, envVars
<1>7. CASE BrotherFails
  <2>1. ErrInv'
    BY <1>7 DEF BrotherFails, Fail, IInv, PlaceInv, ErrInv, Under, appVars, envVars
  <2> QED
    BY <1>7, <2>1, ErrValues, FailIInv DEF BrotherFails, Under, IInv, TypeOK
<1>8. CASE Write
  <2>1. TypeOK' /\ PlaceInv'
    BY <1>8 DEF Write, IInv, TypeOK, PlaceInv, Under, Inner, callerVars, appVars, envVars
  <2>2. EnteredInv' /\ ErrInv' /\ AppInv'
    BY <1>8 DEF Write, IInv, EnteredInv, ErrInv, AppInv, appVars, envVars
  <2>3. PipeInv' /\ ResultInv'
    BY <1>8 DEF Write, IInv, TypeOK, PipeInv, ResultInv, callerVars
  <2> QED
    BY <2>1, <2>2, <2>3 DEF IInv
<1> QED
  BY <1>1, <1>2, <1>3, <1>4, <1>5, <1>6, <1>7, <1>8 DEF inner

\* The caller's steps, and those of the environment.
LEMMA NextIInv == IInv /\ [Next]_vars => IInv'
<1> SUFFICES ASSUME IInv, [Next]_vars PROVE IInv'
  OBVIOUS
<1>1. CASE CallFails
  BY <1>1, ErrValues DEF CallFails, Return, IInv, TypeOK, PlaceInv, EnteredInv, ErrInv, AppInv,
     PipeInv, ResultInv, childVars, appVars, envVars
<1>2. CASE Fork
  BY <1>2 DEF Fork, IInv, TypeOK, PlaceInv, EnteredInv, ErrInv, AppInv, PipeInv, ResultInv,
     Under, Inner, appVars, envVars
<1>3. CASE Read \/ ReadInterrupted
  <2>1. PICK e \in Err : Return(e) /\ (e = "sys" \/ (pipe # "empty" /\ e = pipe))
    BY <1>3, ErrValues DEF Read, ReadInterrupted, IInv, TypeOK
  <2>2. caller = "reading" /\ UNCHANGED <<childVars, pipe, appVars, envVars, root>>
    BY <1>3 DEF Read, ReadInterrupted
  <2>3. PlaceInv' /\ EnteredInv' /\ ErrInv' /\ AppInv' /\ PipeInv'
    BY <2>2 DEF IInv, PlaceInv, EnteredInv, ErrInv, AppInv, PipeInv, childVars, appVars, envVars
  <2>4. TypeOK'
    BY <2>1, <2>2 DEF Return, IInv, TypeOK, childVars, appVars, envVars
  <2>5. e \notin {"none", "param_invalid"}
    BY <2>1, ErrValues DEF IInv, PipeInv, ErrInv
  <2>6. ResultInv'
    BY <2>1, <2>2, <2>5 DEF Return, IInv, ResultInv, PipeInv, childVars
  <2> QED
    BY <2>3, <2>4, <2>6 DEF IInv
<1>4. CASE inner
  BY <1>4, InnerIInv
<1>5. CASE ChildKilled
  <2>1. TypeOK' /\ PlaceInv'
    BY <1>5 DEF ChildKilled, IInv, TypeOK, PlaceInv, Under, callerVars, appVars, envVars
  <2>2. EnteredInv' /\ ErrInv' /\ AppInv'
    BY <1>5 DEF ChildKilled, IInv, EnteredInv, ErrInv, AppInv, appVars, envVars
  <2>3. PipeInv' /\ ResultInv'
    BY <1>5 DEF ChildKilled, IInv, PipeInv, ResultInv, callerVars, Inner
  <2> QED
    BY <2>1, <2>2, <2>3 DEF IInv
<1>6. CASE ServerAnswers
  <2>1. TypeOK' /\ PlaceInv'
    <3>1. TypeOK'
      BY <1>6 DEF ServerAnswers, IInv, TypeOK, callerVars, childVars, appVars
    <3>2. PlaceInv'
      BY <1>6 DEF ServerAnswers, IInv, PlaceInv, Under, Inner, childVars, appVars
    <3> QED
      BY <3>1, <3>2
  <2>2. EnteredInv' /\ ErrInv' /\ AppInv'
    BY <1>6 DEF ServerAnswers, IInv, EnteredInv, ErrInv, AppInv, childVars, appVars
  <2>3. PipeInv' /\ ResultInv'
    BY <1>6 DEF ServerAnswers, IInv, PipeInv, ResultInv, callerVars, childVars
  <2> QED
    BY <2>1, <2>2, <2>3 DEF IInv
<1>7. CASE AppEnds \/ GuardDies \/ QueueChanges
  <2>1. app' \in {app, "over"} /\ (app' # "none" <=> app # "none") /\ UNCHANGED appNs
    BY <1>7 DEF AppEnds, GuardDies, QueueChanges, appVars, IInv, TypeOK
  <2>2. UNCHANGED <<callerVars, childVars, pipe, server, root>> /\ guardUp' \in BOOLEAN
    BY <1>7 DEF AppEnds, GuardDies, QueueChanges, IInv, TypeOK, envVars, appVars
  <2>f. full' \in BOOLEAN
    BY <1>7 DEF AppEnds, GuardDies, QueueChanges, IInv, TypeOK, envVars
  <2>3. TypeOK' /\ PlaceInv'
    BY <2>1, <2>2, <2>f DEF IInv, TypeOK, PlaceInv, callerVars, childVars
  <2>4. EnteredInv' /\ ErrInv' /\ AppInv'
    BY <2>1, <2>2 DEF IInv, EnteredInv, ErrInv, AppInv, childVars
  <2>5. PipeInv' /\ ResultInv'
    BY <2>2 DEF IInv, PipeInv, ResultInv, callerVars, childVars
  <2> QED
    BY <2>3, <2>4, <2>5 DEF IInv
<1>8. CASE UNCHANGED vars
  BY <1>8 DEF vars, callerVars, childVars, appVars, envVars, IInv, TypeOK, PlaceInv,
     EnteredInv, ErrInv, AppInv, PipeInv, ResultInv
<1> QED
  BY <1>1, <1>2, <1>3, <1>4, <1>5, <1>6, <1>7, <1>8 DEF Next

-----------------------------------------------------------------------------
(* What the answer means. *)

LEMMA Always == Spec => []IInv
<1> QED
  BY InitIInv, NextIInv, PTL DEF Spec

\* The type invariant of ClientEntry.
THEOREM TypeCorrect == Spec => []TypeOK
<1>1. IInv => TypeOK
  BY DEF IInv
<1> QED
  BY <1>1, Always, PTL

\* A call that returns success has started the application inside all three
\* namespaces: the child writes "success" only after run_in_brother, which it
\* reaches only with all of NS entered.
THEOREM SuccessTrue == Spec => []SuccessMeansInside
<1>1. IInv => SuccessMeansInside
  BY DEF IInv, SuccessMeansInside, ResultInv, PlaceInv, AppInv
<1> QED
  BY <1>1, Always, PTL

\* A call that returns any other error than "sys" has started nothing.
THEOREM FailureTrue == Spec => []FailureMeansNoApp
<1>1. IInv => FailureMeansNoApp
  BY DEF IInv, FailureMeansNoApp, ResultInv, ErrInv, PlaceInv, Under
<1> QED
  BY <1>1, Always, PTL

\* setns() refuses no privileged client that got all the descriptors: the user
\* namespace is the last of NS.
THEOREM PrivilegedIn == Spec => []PrivilegedEnters
<1>1. IInv => PrivilegedEnters
  BY DEF IInv, PrivilegedEnters, ErrInv
<1> QED
  BY <1>1, Always, PTL

\* The numbers of err_no.h, and the wrapper's of the same errors, agree.
LEMMA KindOfResult ==
    ASSUME caller = "returned", NEW i \in 1..10, result = ROCKER_ERR[i]
    PROVE  kind = ErrorKind[metal[i]]
<1>1. DOMAIN ROCKER_ERR = 1..10 /\ DOMAIN metal = 1..11
  BY DEF ROCKER_ERR, metal
<1>2. \A k \in 1..10 : ROCKER_ERR[k] = ROCKER_ERR[i] => k = i
  BY DEF ROCKER_ERR
<1>3. (CHOOSE k \in DOMAIN ROCKER_ERR : ROCKER_ERR[k] = result) = i
  BY <1>1, <1>2
<1>4. kind = res_convert(i - 1)
  BY <1>3 DEF kind
<1>5. (i - 1) + 1 = i /\ i \in 1..11
  OBVIOUS
<1> QED
  BY <1>1, <1>4, <1>5 DEF res_convert

LEMMA KindValue ==
    ASSUME caller = "returned"
    PROVE  /\ result = "success" => kind = "Ok"
           /\ result = "sys" => kind = "RockerSys"
           /\ result = "param_invalid" => kind = "RockerParam"
           /\ result = "addr_invalid" => kind = "RockerServerUnaddr"
           /\ result = "local_addr" => kind = "RockerGenLocalAddr"
           /\ result = "send_req" => kind = "RockerSendReq"
           /\ result = "recv_resp" => kind = "RockerRecvResp"
           /\ result = "build" => kind = "RockerBuildRocker"
           /\ result = "enter" => kind = "RockerEnterRocker"
           /\ result = "app_exec" => kind = "RockerAppExec"
<1>1. \A i \in 1..10 : result = ROCKER_ERR[i] => kind = ErrorKind[metal[i]]
  BY KindOfResult
<1>2. /\ ROCKER_ERR[1] = "success" /\ ErrorKind[metal[1]] = "Ok"
      /\ ROCKER_ERR[2] = "sys" /\ ErrorKind[metal[2]] = "RockerSys"
      /\ ROCKER_ERR[3] = "param_invalid" /\ ErrorKind[metal[3]] = "RockerParam"
      /\ ROCKER_ERR[4] = "addr_invalid" /\ ErrorKind[metal[4]] = "RockerServerUnaddr"
      /\ ROCKER_ERR[5] = "local_addr" /\ ErrorKind[metal[5]] = "RockerGenLocalAddr"
      /\ ROCKER_ERR[6] = "send_req" /\ ErrorKind[metal[6]] = "RockerSendReq"
      /\ ROCKER_ERR[7] = "recv_resp" /\ ErrorKind[metal[7]] = "RockerRecvResp"
      /\ ROCKER_ERR[8] = "build" /\ ErrorKind[metal[8]] = "RockerBuildRocker"
      /\ ROCKER_ERR[9] = "enter" /\ ErrorKind[metal[9]] = "RockerEnterRocker"
      /\ ROCKER_ERR[10] = "app_exec" /\ ErrorKind[metal[10]] = "RockerAppExec"
  BY DEF ROCKER_ERR, metal, ErrorKind
<1> QED
  BY <1>1, <1>2

\* The error kind the wrapper returns tells how far the call got.
THEOREM KindTrue == Spec => []KindTellsProgress
<1>1. ASSUME IInv PROVE KindTellsProgress
  <2>1. CASE caller # "returned"
    BY <2>1 DEF KindTellsProgress, kind
  <2>2. CASE caller = "returned"
    <3>1. result \in Err
      BY <1>1, <2>2 DEF IInv, TypeOK, ResultInv
    <3>2. CASE result \in {"sys", "param_invalid"}
      BY <1>1, <2>2, <3>2, KindValue DEF KindTellsProgress, IInv, ResultInv
    <3>3. CASE result \notin {"sys", "param_invalid"}
      <4>1. child = "exited" /\ result = err_no
        BY <1>1, <2>2, <3>1, <3>3, ErrValues DEF IInv, ResultInv
      <4>2. ErrInv /\ AppInv /\ (err_no = "success" => app # "none")
        BY <1>1, <4>1 DEF IInv, PlaceInv
      <4> QED
        BY <2>2, <3>1, <3>3, <4>1, <4>2, KindValue, ErrValues
        DEF KindTellsProgress, ErrInv, AppInv
    <3> QED
      BY <3>2, <3>3
  <2> QED
    BY <2>1, <2>2
<1> QED
  BY <1>1, Always, PTL

-----------------------------------------------------------------------------
(* One call is a client of ClientRole. *)

\* The two variables of ClientRole as PlaysClient has them.
roles == [r \in {"call"} |-> role]
hosted == IF guardUp /\ role \in {"granted", "inside"} THEN {"call"} ELSE {}

LEMMA RoleInit == Init => Role!Init
  BY DEF Init, role, Role!Init

\* A step that moves the role from one station to another.
LEMMA RoleMoves ==
    ASSUME NEW a, NEW b, role = a, role' = b
    PROVE  Role!Moves("call", a, b)
  BY DEF Role!Moves

\* Without its child the call waits no longer, and if its application has not
\* been started it never will be.
LEMMA RoleChildGone ==
    ASSUME IInv, child \in Inner, child' \notin Inner, UNCHANGED <<server, app, guardUp>>
    PROVE  Role!Next \/ UNCHANGED <<roles, hosted>>
<1>1. CASE server = "asked"
  <2>1. role = "waiting" /\ role' = "gone"
    BY <1>1 DEF role
  <2> QED
    BY <2>1, RoleMoves DEF Role!GivesUp, Role!Next, hosted
<1>2. CASE server = "granted" /\ app = "none"
  <2>1. role = "granted" /\ role' = "left"
    BY <1>2 DEF role
  <2>2. hosted' = hosted \ {"call"}
    BY <2>1 DEF hosted
  <2> QED
    BY <2>1, <2>2, RoleMoves DEF Role!Leaves, Role!Next, hosted
<1>3. CASE ~(server = "asked") /\ ~(server = "granted" /\ app = "none")
  <2>1. role' = role
    BY <1>3 DEF IInv, TypeOK, role
  <2> QED
    BY <2>1 DEF roles, hosted
<1> QED
  BY <1>1, <1>2, <1>3

\* The child's own steps.
LEMMA RoleInner ==
    ASSUME IInv, inner
    PROVE  Role!Next \/ UNCHANGED <<roles, hosted>>
<1>1. CASE Socket \/ RecvFd \/ RecvTimeout \/ EnterNs \/ BrotherFails
  <2>1. UNCHANGED <<server, app, guardUp>>
    BY <1>1 DEF Socket, RecvFd, RecvTimeout, EnterNs, BrotherFails, appVars, envVars
  <2>2. child \in Inner /\ child' \in Inner
    BY <1>1 DEF Socket, RecvFd, RecvTimeout, EnterNs, BrotherFails, Fail, Inner
  <2> QED
    BY <2>1, <2>2 DEF role, roles, hosted
<1>2. CASE SendReq
  <2>1. server = "idle" /\ child \in Inner /\ child' \in Inner
    BY <1>2 DEF SendReq, Fail, IInv, PlaceInv, Inner
  <2>2. CASE server' = "asked"
    <3>1. role = "new" /\ role' = "waiting"
      BY <2>1, <2>2 DEF role
    <3> QED
      BY <3>1, RoleMoves DEF Role!Ask, Role!Next, hosted
  <2>3. CASE UNCHANGED server
    BY <1>2, <2>1, <2>3 DEF SendReq, role, roles, hosted, appVars
  <2> QED
    BY <1>2, <2>2, <2>3 DEF SendReq
<1>3. CASE RunInBrother
  <2>1. server = "granted" /\ app = "none" /\ entered = AllNs
    BY <1>3 DEF RunInBrother, IInv, PlaceInv, Under
  <2>2. guardUp /\ UNCHANGED <<server, guardUp>> /\ app' = "running" /\ child \in Inner
    BY <1>3, <2>1 DEF RunInBrother, AllNs, Inner, envVars
  <2>3. role = "granted" /\ role' = "inside"
    BY <2>1, <2>2 DEF role
  <2> QED
    BY <2>2, <2>3, RoleMoves DEF Role!Enters, Role!Next, hosted
<1>4. CASE Write
  <2>1. UNCHANGED <<server, app, guardUp>> /\ child \in Inner /\ child' \notin Inner
    BY <1>4 DEF Write, Inner, appVars, envVars
  <2> QED
    BY <2>1, RoleChildGone
<1> QED
  BY <1>1, <1>2, <1>3, <1>4 DEF inner

\* The environment's.
LEMMA RoleGuardDies ==
    ASSUME IInv, GuardDies
    PROVE  Role!Next \/ UNCHANGED <<roles, hosted>>
<1>1. UNCHANGED <<child, server>> /\ guardUp /\ ~guardUp'
  BY DEF GuardDies, childVars
<1>2. app = "running" => app' = "over" /\ server = "granted"
  BY DEF GuardDies, IInv, AppInv, AllNs
<1>3. app # "running" => app' = app
  BY DEF GuardDies
<1>4. hosted' = {}
  BY <1>1 DEF hosted
<1>5. CASE role \in {"granted", "inside"}
  <2>1. hosted = {"call"}
    BY <1>1, <1>5 DEF hosted
  <2>2. role' = IF role = "inside" THEN "left" ELSE role
    BY <1>1, <1>2, <1>3, <1>5 DEF role
  <2>3. Role!Down({"call"})
    BY <1>4, <2>1, <2>2 DEF Role!Down, hosted
  <2> QED
    BY <2>1, <2>3 DEF Role!Next, hosted
<1>6. CASE role \notin {"granted", "inside"}
  <2>1. app # "running"
    BY <1>2, <1>6 DEF role
  <2>2. role' = role
    BY <1>1, <1>3, <2>1 DEF role
  <2> QED
    BY <1>4, <1>6, <2>2 DEF roles, hosted
<1> QED
  BY <1>5, <1>6

LEMMA RoleNext ==
    ASSUME IInv, [Next]_vars
    PROVE  Role!Next \/ UNCHANGED <<roles, hosted>>
<1>1. CASE CallFails \/ Read \/ ReadInterrupted \/ QueueChanges \/ UNCHANGED vars
  BY <1>1 DEF CallFails, Read, ReadInterrupted, QueueChanges, vars, childVars, appVars, envVars, role, roles,
     hosted
<1>2. CASE Fork
  <2>1. server = "idle" /\ UNCHANGED <<server, guardUp>>
    BY <1>2 DEF Fork, IInv, ResultInv, PlaceInv, envVars
  <2> QED
    BY <2>1 DEF role, roles, hosted
<1>3. CASE inner
  BY <1>3, RoleInner
<1>4. CASE ChildKilled
  <2>1. child \in Inner /\ child' \notin Inner /\ UNCHANGED <<server, app, guardUp>>
    BY <1>4 DEF ChildKilled, Inner, appVars, envVars
  <2> QED
    BY <2>1, RoleChildGone
<1>5. CASE ServerAnswers
  <2>1. server = "asked" /\ app = "none" /\ child \in Inner /\ UNCHANGED <<child, app>>
    BY <1>5 DEF ServerAnswers, IInv, TypeOK, AppInv, childVars, appVars
  <2>2. role = "waiting" /\ hosted = {}
    BY <2>1 DEF role, hosted
  <2>3. CASE server' = "granted"
    <3>1. role' = "granted"
      BY <2>1, <2>3 DEF role
    <3>2. hosted' \in {hosted, hosted \cup {"call"}}
      BY <2>2 DEF hosted
    <3> QED
      BY <2>2, <3>1, <3>2, RoleMoves DEF Role!Granted, Role!Next, hosted
  <2>4. CASE server' = "refused"
    <3>1. role' = "refused" /\ hosted' = {}
      BY <2>1, <2>4 DEF role, hosted
    <3> QED
      BY <2>2, <3>1, RoleMoves DEF Role!Refused, Role!Next, hosted
  <2> QED
    BY <1>5, <2>3, <2>4 DEF ServerAnswers
<1>6. CASE AppEnds
  <2>1. server = "granted" /\ app = "running" /\ app' = "over"
          /\ UNCHANGED <<child, server, guardUp>>
    BY <1>6 DEF AppEnds, IInv, AppInv, childVars, envVars
  <2>2. role = "inside" /\ role' = "left"
    BY <2>1 DEF role
  <2>3. hosted' = hosted \ {"call"}
    BY <2>2 DEF hosted
  <2> QED
    BY <2>2, <2>3, RoleMoves DEF Role!Leaves, Role!Next, hosted
<1>7. CASE GuardDies
  BY <1>7, RoleGuardDies
<1> QED
  BY <1>1, <1>2, <1>3, <1>4, <1>5, <1>6, <1>7 DEF Next

\* Every call is a client as ClientRole has it, and so as RockerMaster takes its
\* clients to be.
THEOREM RoleRefinement == Spec => PlaysClient
<1>1. IInv /\ [Next]_vars => [Role!Next]_(Role!vars)
  BY RoleNext DEF Role!vars, roles, hosted
<1> QED
  BY <1>1, RoleInit, Always, PTL DEF Spec, Role!Spec, PlaysClient
=============================================================================
