------------------------------ MODULE ReqCodec ------------------------------
(***************************************************************************)
(* A request on its way from the Rust wrapper (client_ffi/mod.rs) through   *)
(* the C client (lib.c, ROCKER_parse_request___), the server's receive      *)
(* buffer and req_parse (rocker_server/src/main.rs) to RockerCfg::new       *)
(* (core/src/master.rs), which holds it against the host.                   *)
(*                                                                         *)
(* A string is a sequence of bytes other than NUL; its bytes are all the    *)
(* number of the field it was given for, so that a mix-up shows.            *)
(***************************************************************************)
EXTENDS Integers, Sequences, SequencesExt

CONSTANTS
    Slots,      \* overlay directories of the C struct (16)
    Room,       \* bytes of the server's buffer behind the numbers (512 - 88)
    Word,       \* number of values of an int (2^32)
    Strings,    \* lengths of the strings tried
    Ids,        \* ids tried, values of u32
    MaxOverlay, \* overlay directories tried at most
    NoGid,      \* the wrapper's gid None
    Nil,        \* NULL; no datagram or result yet
    Refused     \* an Err of req_parse

ASSUME CodecAssumption ==
    /\ Slots \in Nat /\ Room \in Nat /\ MaxOverlay \in Nat
    /\ Word \in Nat /\ Word > 1
    /\ Ids \subseteq 0..(Word - 1)
    /\ Strings \subseteq 0..(Word \div 2 - 2)      \* shorter than the largest int

NUL == 0

\* A string of n bytes given for field k.
Str(n, k) == [i \in 1..n |-> k]

Overlays == UNION {[1..n -> Strings] : n \in 0..MaxOverlay}

Requests ==
    [app_id : Ids, uid : Ids, gid : Ids \cup {NoGid},
     pkg : Strings, exec : Strings, data : Strings, overlay : Overlays]

\* What can be at a path: a directory, something else, nothing, or nothing and
\* no directory can be made there.
Place == {"dir", "file", "absent", "blocked"}

\* The host as a request finds it: whether the user and the group exist, and
\* what is at the three paths.
Hosts == [user : BOOLEAN, group : BOOLEAN,
          pkg : {"dir", "file", "absent"}, exec : Place, data : Place]

\* client_ffi::RockerRequest, its strings spelled out.
Spelled(q) ==
    [app_id |-> q.app_id, uid |-> q.uid, gid |-> q.gid,
     pkg |-> Str(q.pkg, 1), exec |-> Str(q.exec, 2), data |-> Str(q.data, 3),
     overlay |-> [i \in DOMAIN q.overlay |-> Str(q.overlay[i], 3 + i)]]

\* What RockerCfg::new may be called with.
Cfgs ==
    [app_id : Nat, uid : Nat, gid : Nat \cup {NoGid},
     pkg : Seq(Nat), exec : Seq(Nat), data : Seq(Nat), overlay : Seq(Seq(Nat))]

ASSUME NilAssumption ==
    /\ NoGid \notin Int
    /\ Nil \notin Seq(Nat) /\ Nil \notin Hosts /\ Nil \notin {"accepted", "refused"}
    /\ Nil \notin Cfgs \cup {Refused} /\ Refused \notin Cfgs

VARIABLES
    req,        \* what the caller of the wrapper asks
    wire,       \* the datagram in the server's buffer
    cfg,        \* the arguments req_parse finds in it
    host,       \* the host, once the request is held against it
    verdict     \* what becomes of the request

vars == <<req, wire, cfg, host, verdict>>

-----------------------------------------------------------------------------
(* The wrapper and the C client. *)

\* "as c_int"
c_int(v) == IF v < Word \div 2 THEN v ELSE v - Word

\* RockerRequest::enter_rocker: zip() stops at the shorter of the two.
enter_rocker(q) ==
    [ids |-> <<c_int(q.app_id), c_int(q.uid),
               IF q.gid = NoGid THEN -1 ELSE c_int(q.gid)>>,
     strs |-> <<q.pkg, q.exec, q.data>>
                \o [i \in 1..Slots |-> IF i <= Len(q.overlay)
                                       THEN q.overlay[i] ELSE Nil]]

\* Utils.strlen answers -1, as a size_t, for NULL.
strlen(s) == IF s = Nil THEN Word - 1 ELSE Len(s)

\* strlen___: the length with its NUL, 0 for nothing.
strlenNul(s) == IF 0 < strlen(s) THEN (1 + strlen(s)) % Word ELSE 0

\* One element of the vector given to sendmsg.
Iov(s) == IF s = Nil THEN <<>> ELSE SubSeq(Append(s, NUL), 1, strlenNul(s))

ROCKER_parse_request(c) ==
    [meta |-> c.ids \o [i \in DOMAIN c.strs |-> strlenNul(c.strs[i])],
     bytes |-> FlattenSeq([i \in DOMAIN c.strs |-> Iov(c.strs[i])])]

-----------------------------------------------------------------------------
(* The server. *)

\* recvfrom cuts a datagram to the size of the buffer.
recvfrom(w) == [w EXCEPT !.bytes = SubSeq(@, 1, IF Len(@) < Room THEN Len(@) ELSE Room)]

\* Where each of several strings of these lengths ends.
Ends(lens) ==
    LET u_idx[i \in 0..Len(lens)] == IF i = 0 THEN 0 ELSE u_idx[i - 1] + lens[i]
    IN  u_idx

Total(lens) == Ends(lens)[Len(lens)]

\* metas[i]: a negative number becomes 0.
Metas(w) == [i \in DOMAIN w.meta |-> IF w.meta[i] < 0 THEN 0 ELSE w.meta[i]]

Lens(w) == SubSeq(Metas(w), 4, 6 + Slots)

\* The bytes of the i-th string, its NUL with it.
Piece(w, i) == SubSeq(w.bytes, Ends(Lens(w))[i - 1] + 1, Ends(Lens(w))[i])

\* CStr::from_bytes_with_nul: one NUL, at the end.
IsCStr(s) == s # <<>> /\ \A i \in DOMAIN s : s[i] = NUL <=> i = Len(s)

\* Faulty variant: an exact fit is refused.
FitsTightly(w) == Len(w.bytes) > Total(Lens(w))

Fits(w) == Len(w.bytes) >= Total(Lens(w))

\* The strings that are there; one of length 0 is passed over.
Given(w) == {i \in 1..(3 + Slots) : Lens(w)[i] # 0}

Paths(w) ==
    FlattenSeq([i \in 1..(3 + Slots) |-> IF i \in Given(w) THEN <<Front(Piece(w, i))>>
                                                           ELSE <<>>])

\* Faulty variant: the order of the three pops is mistaken.
CfgSwapped(w) ==
    LET m == Metas(w)
        p == Paths(w)
    IN  [app_id |-> m[1], uid |-> m[2], gid |-> IF m[3] < 0 THEN NoGid ELSE m[3],
         pkg |-> p[1], exec |-> p[3], data |-> p[2],
         overlay |-> SubSeq(p, 4, Len(p))]

\* The arguments of RockerCfg::new.
Cfg(w) ==
    LET m == Metas(w)
        p == Paths(w)
    IN  [app_id |-> m[1], uid |-> m[2], gid |-> IF m[3] < 0 THEN NoGid ELSE m[3],
         pkg |-> p[1], exec |-> p[2], data |-> p[3],
         overlay |-> SubSeq(p, 4, Len(p))]

req_parse(w) ==
    IF /\ Fits(w)
       /\ \A i \in 1..6 : Metas(w)[i] # 0
       /\ \A i \in Given(w) : IsCStr(Piece(w, i))
    THEN Cfg(w)
    ELSE Refused

-----------------------------------------------------------------------------
(* RockerCfg::new. *)

\* create_dir_all, where there is nothing.
create_dir_all(place) == IF place = "absent" THEN "dir" ELSE place

\* check_path: the two directories first, the package last; what is missing of
\* the directories is made on the way, and stays when a later check fails.
check_path(h) ==
    LET exec == create_dir_all(h.exec)
    IN  [h EXCEPT !.exec = exec,
                  !.data = IF exec = "dir" THEN create_dir_all(@) ELSE @]

PathsFit(h) == h.exec = "dir" /\ h.data = "dir" /\ h.pkg = "file"

\* Faulty variant: the paths are looked at before the user and the group.
NewPathsFirst ==
    /\ host' = check_path(host)
    /\ verdict' = IF PathsFit(host') /\ host.user /\ host.group
                  THEN "accepted" ELSE "refused"

\* check_uid, check_gid, check_path, in this order.
RockerCfg_new ==
    IF host.user /\ host.group
    THEN /\ host' = check_path(host)
         /\ verdict' = IF PathsFit(host') THEN "accepted" ELSE "refused"
    ELSE /\ verdict' = "refused"
         /\ UNCHANGED host

-----------------------------------------------------------------------------
Init ==
    /\ req \in Requests
    /\ wire = Nil
    /\ cfg = Nil
    /\ host = Nil
    /\ verdict = Nil

Send ==
    /\ wire = Nil
    /\ wire' = recvfrom(ROCKER_parse_request(enter_rocker(Spelled(req))))
    /\ UNCHANGED <<req, cfg, host, verdict>>

Parse ==
    /\ wire # Nil
    /\ cfg = Nil
    /\ cfg' = req_parse(wire)
    /\ IF cfg' = Refused THEN verdict' = "refused" /\ UNCHANGED host
                         ELSE host' \in Hosts /\ UNCHANGED verdict
    /\ UNCHANGED <<req, wire>>

New ==
    /\ host # Nil
    /\ verdict = Nil
    /\ RockerCfg_new
    /\ UNCHANGED <<req, wire, cfg>>

Next == Send \/ Parse \/ New

Spec == Init /\ [][Next]_vars
-----------------------------------------------------------------------------
\* The overlay directories that reach the server.
Kept(overlay) ==
    FlattenSeq([i \in 1..Slots |-> IF i <= Len(overlay) /\ overlay[i] # <<>>
                                   THEN <<overlay[i]>> ELSE <<>>])

\* A request that is decoded is the one that was asked: same numbers, same
\* paths in the same order.  Overlay directories that are empty, or beyond the
\* last slot of the C struct, are dropped without a word.
AcceptedIsAsked ==
    cfg \notin {Nil, Refused} => cfg = [Spelled(req) EXCEPT !.overlay = Kept(@)]

Bytes(s) == IF s = 0 THEN 0 ELSE s + 1

\* What can be asked: ids from 1 to the largest int, a group among them (None
\* is turned into -1, -1 into 0, and 0 refused), three paths, and strings that
\* fit the server's buffer.
CanAsk(q) ==
    /\ \A id \in {q.app_id, q.uid, q.gid} : id # NoGid /\ id \in 1..(Word \div 2 - 1)
    /\ 0 \notin {q.pkg, q.exec, q.data}
    /\ Total(<<Bytes(q.pkg), Bytes(q.exec), Bytes(q.data)>>
               \o [i \in 1..Slots |-> IF i <= Len(q.overlay) THEN Bytes(q.overlay[i]) ELSE 0])
         <= Room

\* What the host has to have: the user, the group, the package, and at the other
\* two paths a directory or the room for one.
Suits(h) ==
    /\ h.user /\ h.group
    /\ h.pkg = "file"
    /\ {h.exec, h.data} \subseteq {"dir", "absent"}

\* The server accepts what can be asked and suits its host, and refuses every
\* other request, a cut one as well (req_parse, RockerCfg::new).  What cannot be
\* asked is not even held against the host.
AcceptsExactly ==
    /\ verdict # Nil =>
         (verdict = "accepted" <=> CanAsk(req) /\ (host = Nil \/ Suits(host)))
    /\ host # Nil => CanAsk(req)

\* A request may be refused after directories were made for it (check_path,
\* master.rs:317), but only one for a user and a group the host knows, and it
\* never puts anything where there was something.
StrangersLeaveNoTrace ==
    [][ host # Nil /\ host' # host =>
            /\ host.user /\ host.group
            /\ \A p \in {"exec", "data", "pkg"} :
                  host'[p] # host[p] => host[p] = "absent" /\ host'[p] = "dir"
      ]_vars
=============================================================================
