----------------------------- MODULE ClientRole -----------------------------
(***************************************************************************)
(* What the server's model (RockerMaster) and the client's (ClientEntry)    *)
(* take each other for: the stations of a client between its request and    *)
(* the end of its application, and whether the process 1 it was granted is  *)
(* alive.  Both implement it.                                               *)
(***************************************************************************)
CONSTANT Req

VARIABLES
    role,       \* station of the client of each request
    up          \* clients whose granted sandbox has its process 1

vars == <<role, up>>

Init ==
    /\ role = [r \in Req |-> "new"]
    /\ up = {}

Moves(r, from, to) == role[r] = from /\ role' = [role EXCEPT ![r] = to]

Ask(r) == Moves(r, "new", "waiting") /\ UNCHANGED up

Refused(r) == Moves(r, "waiting", "refused") /\ UNCHANGED up

GivesUp(r) == Moves(r, "waiting", "gone") /\ UNCHANGED up

\* The sandbox may be over again when the answer arrives.
Granted(r) == Moves(r, "waiting", "granted") /\ up' \in {up, up \cup {r}}

Enters(r) == r \in up /\ Moves(r, "granted", "inside") /\ UNCHANGED up

Leaves(r) ==
    /\ Moves(r, "granted", "left") \/ Moves(r, "inside", "left")
    /\ up' = up \ {r}

\* Sandboxes end, and every application inside ends with its own.
Down(R) ==
    /\ up' = up \ R
    /\ role' = [r \in Req |-> IF r \in R /\ role[r] = "inside" THEN "left" ELSE role[r]]

Next ==
    \/ \E r \in Req : \/ Ask(r) \/ Refused(r) \/ GivesUp(r) \/ Granted(r)
                      \/ Enters(r) \/ Leaves(r)
    \/ \E R \in SUBSET up : Down(R)

Spec == Init /\ [][Next]_vars
=============================================================================
