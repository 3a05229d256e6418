------------------------------ MODULE GuardName ------------------------------
(***************************************************************************)
(* The name of a guard, by which a client is to make sure, before it sends  *)
(* a signal, that the pid it holds is still its guard's: a counter of the   *)
(* server (RockerCfg::new), sent to the client as it is, given to the guard *)
(* with its zero bytes replaced (guard_set_self_name), and read back by     *)
(* ROCKER_get_guardname from /proc/<pid>/stat.                              *)
(*                                                                         *)
(* A byte is one of NUL, SOH (what NUL is replaced by), Space (for all that *)
(* scanf takes for white space), Close (the parenthesis behind a name in    *)
(* /proc, but a byte of a name as well), or any other, in the order of      *)
(* their codes.                                                             *)
(***************************************************************************)
EXTENDS Integers, Sequences, SequencesExt

CONSTANTS
    Client,     \* clients, each served once
    Pid,        \* pids the guards may have
    Width,      \* bytes of the counter (8 of a usize)
    NameLen,    \* bytes of a name (16), NUL included
    None        \* nobody

ASSUME NameAssumption ==
    /\ Width \in Nat /\ NameLen \in Nat
    /\ Width >= 3
    /\ NameLen >= Width + 4

NUL   == 0
SOH   == 1
Space == 2
Close == 3
Base  == 5      \* (256); 4 is any other byte

VARIABLES
    counter,    \* GUARD_PROCNAME
    owner,      \* whose guard has each pid, or None
    comm,       \* the name of the process that has it
    held        \* pid and name each client was sent, or None

vars == <<counter, owner, comm, held>>

First == Base ^ Width - 1

Init ==
    /\ counter = First
    /\ owner = [p \in Pid |-> None]
    /\ comm = [p \in Pid |-> <<>>]
    /\ held = [c \in Client |-> None]

-----------------------------------------------------------------------------
(* Names. *)

\* u128::to_ne_bytes of the counter, least significant byte first.
ne_bytes(n) ==
    [i \in 1..NameLen |-> IF i > Width THEN NUL ELSE (n \div Base ^ (i - 1)) % Base]

\* What C and the wrapper (take_while) make of the bytes sent.
CStr(s) == SubSeq(s, 1, SelectInSeq(Append(s, NUL), LAMBDA b : b = NUL) - 1)

\* Faulty variant: the name is the C string the client is sent.
guard_set_self_name_as_sent(n) == CStr(ne_bytes(n))

guard_set_self_name(n) ==
    SubSeq([i \in 1..NameLen |-> IF ne_bytes(n)[i] = NUL THEN SOH ELSE ne_bytes(n)[i]],
           1, NameLen - 1)

\* "%15s": white space is skipped, then read up to the next.
Scan(line) ==
    LET from == SelectInSeq(line, LAMBDA b : b # Space)
        text == SubSeq(line, from, Len(line))
        word == SubSeq(text, 1, SelectInSeq(text, LAMBDA b : b = Space) - 1)
    IN  SubSeq(word, 1, IF Len(word) < NameLen - 1 THEN Len(word) ELSE NameLen - 1)

\* The name found in the line "<pid> (<name>) S ..."; <<>> when the assertion
\* that it has two characters fails, and the process is ended.
get_process_name(name) ==
    LET buf == Scan(name \o <<Close, Space>>)
    IN  IF Len(buf) <= 1 THEN <<>>
        ELSE IF Last(buf) = Close THEN Front(buf)
        ELSE buf

-----------------------------------------------------------------------------
\* fetch_sub wraps.
fetch_sub == counter' = IF counter = 0 THEN First ELSE counter - 1

\* A request is served: the counter is read and decremented, a guard cloned,
\* and the client sent its pid and the counter.
Serve(c, p) ==
    /\ held[c] = None
    /\ owner[p] = None
    /\ fetch_sub
    /\ owner' = [owner EXCEPT ![p] = c]
    /\ comm' = [comm EXCEPT ![p] = guard_set_self_name(counter)]
    /\ held' = [held EXCEPT ![c] = [pid |-> p, name |-> CStr(ne_bytes(counter))]]

\* RockerCfg::new counts before it checks: a refused request uses a number up.
Refuse ==
    /\ fetch_sub
    /\ UNCHANGED <<owner, comm, held>>

\* A guard ends and its pid is free.
Die(p) ==
    /\ owner[p] # None
    /\ owner' = [owner EXCEPT ![p] = None]
    /\ comm' = [comm EXCEPT ![p] = <<>>]
    /\ UNCHANGED <<counter, held>>

\* The server is started anew, which it can be once the guards of the old one,
\* which hold its address, are gone (AddressTaken in RockerMaster).
Restart ==
    /\ \A p \in Pid : owner[p] = None
    /\ counter' = First
    /\ UNCHANGED <<owner, comm, held>>

Next ==
    \/ \E c \in Client, p \in Pid : Serve(c, p)
    \/ Refuse
    \/ \E p \in Pid : Die(p)
    \/ Restart

Spec == Init /\ [][Next]_vars
-----------------------------------------------------------------------------
\* What a client finds when it compares the name it was sent with what
\* ROCKER_get_guardname says of the pid: it may do so in any state, and changes
\* none.
Compare(c) ==
    LET p == held[c].pid
        n == get_process_name(comm[p])
    IN  IF held[c] = None THEN "none"
        ELSE IF owner[p] = None THEN "failed"
        ELSE IF n = <<>> THEN "aborted"
        ELSE IF n # held[c].name THEN "differs"
        ELSE IF owner[p] = c THEN "own"
        ELSE "mistaken"

\* White space in a name, where scanf cuts it, behind its second byte: the
\* counter of this server has come down by 223 * 2^16 or more.
LateName(name) == \E i \in 3..Len(name) : name[i] = Space

\* A client takes another's guard for its own only if that guard's name is a
\* late one: not when the counter has begun anew with another server, nor when
\* one guard's pid becomes another's, nor for white space in the lower bytes.
MistakenOnlyLate ==
    \A c \in Client : Compare(c) = "mistaken" => LateName(comm[held[c].pid])
=============================================================================
