--------------------------- MODULE GuardNameProofs ---------------------------
(***************************************************************************)
(* Proofs about the names of guards, for counters and names of any width,   *)
(* any number of clients, pids, requests and restarts.                      *)
(***************************************************************************)
EXTENDS GuardName, SequenceTheorems, WellFoundedInduction, TLAPS

-----------------------------------------------------------------------------
(* The operators. *)

\* The least element of a set, when one is known.
LEMMA MinValue ==
    ASSUME NEW I, I \subseteq Nat, NEW k \in I, \A j \in I : k <= j
    PROVE  Min(I) = k
<1>1. \A x \in I : (\A j \in I : x <= j) => x = k
  BY SMT
<1>2. \E x \in I : \A j \in I : x <= j
  OBVIOUS
<1> QED
  BY <1>1, <1>2, Zenon DEF Min

\* Every set of naturals has one.
LEMMA LeastOf ==
    ASSUME NEW I, I \subseteq Nat, I # {}
    PROVE  \E k \in I : \A j \in I : k <= j
<1>1. \A x, y \in Nat : y < x => <<y, x>> \in OpToRel(<, Nat)
  BY DEF OpToRel
<1>2. \E x \in I : \A y \in I : ~ (<<y, x>> \in OpToRel(<, Nat))
  BY NatLessThanWellFounded, WFMin, Zenon
<1>3. \A x, y \in I : ~ (y < x) => x <= y
  OBVIOUS
<1> QED
  BY <1>1, <1>2, <1>3, Zenon

\* SelectInSeq on a set of places.
FirstOf(I) == IF I # {} THEN Min(I) ELSE 0

LEMMA FirstOfValue ==
    ASSUME NEW I, I \subseteq Nat, NEW k \in I, \A j \in I : k <= j
    PROVE  FirstOf(I) = k
  BY MinValue DEF FirstOf

\* CStr and Scan in terms of the first place that ends them.
LEMMA CStrValue ==
    ASSUME NEW s
    PROVE  LET t == Append(s, NUL)
           IN  CStr(s) = SubSeq(s, 1, FirstOf({i \in 1..Len(t) : t[i] = NUL}) - 1)
  BY DEF CStr, SelectInSeq, FirstOf

LEMMA ScanValue ==
    ASSUME NEW line
    PROVE  LET from == FirstOf({i \in 1..Len(line) : line[i] # Space})
               text == SubSeq(line, from, Len(line))
               word == SubSeq(text, 1, FirstOf({i \in 1..Len(text) : text[i] = Space}) - 1)
           IN  Scan(line) = SubSeq(word, 1, IF Len(word) < NameLen - 1 THEN Len(word)
                                            ELSE NameLen - 1)
  BY DEF Scan, SelectInSeq, FirstOf

\* A sequence cut short.
LEMMA Cut ==
    ASSUME NEW s \in Seq(Int), NEW m \in 1..(Len(s) + 1), NEW n \in 0..Len(s), m <= n + 1
    PROVE  /\ SubSeq(s, m, n) \in Seq(Int)
           /\ Len(SubSeq(s, m, n)) = n - m + 1
           /\ \A i \in 1..(n - m + 1) : SubSeq(s, m, n)[i] = s[m + i - 1]
<1>1. \A i \in m..n : s[i] \in Int
  BY ElementOfSeq
<1>2. m \in Int /\ n \in Int
  OBVIOUS
<1>3. /\ SubSeq(s, m, n) \in Seq(Int)
      /\ Len(SubSeq(s, m, n)) = IF m <= n THEN n - m + 1 ELSE 0
      /\ \A i \in 1..(n - m + 1) : SubSeq(s, m, n)[i] = s[m + i - 1]
  BY <1>1, <1>2, SubSeqProperties
<1> QED
  BY <1>2, <1>3

-----------------------------------------------------------------------------
(* Names. *)

\* The bytes a client is sent: up to Width of the counter, then NUL.
LEMMA CounterBytes ==
    ASSUME NEW n \in Int
    PROVE  /\ ne_bytes(n) \in Seq(Int)
           /\ Len(ne_bytes(n)) = NameLen
           /\ \A i \in (Width + 1)..NameLen : ne_bytes(n)[i] = NUL
<1>1. \A i \in 1..NameLen : ne_bytes(n)[i] \in Int
  BY NameAssumption DEF ne_bytes, Base, NUL
<1>2. ne_bytes(n) \in [1..NameLen -> Int]
  BY <1>1 DEF ne_bytes
<1>3. ne_bytes(n) \in Seq(Int) /\ Len(ne_bytes(n)) = NameLen
  BY <1>2, NameAssumption
<1>4. \A i \in (Width + 1)..NameLen : ne_bytes(n)[i] = NUL
  BY NameAssumption DEF ne_bytes
<1> QED
  BY <1>3, <1>4

\* What makes a process's name a guard's: its length, and SOH behind the bytes
\* of the counter.
IsGuardName(s) ==
    /\ s \in Seq(Int) /\ Len(s) = NameLen - 1
    /\ \A i \in (Width + 1)..(NameLen - 1) : s[i] = SOH

\* guard_set_self_name makes such names of counters.
LEMMA SelfName ==
    ASSUME NEW n \in Int
    PROVE  IsGuardName(guard_set_self_name(n))
<1> DEFINE b == ne_bytes(n)
           z == [i \in 1..NameLen |-> IF b[i] = NUL THEN SOH ELSE b[i]]
<1>1. b \in Seq(Int) /\ Len(b) = NameLen
      /\ (\A i \in (Width + 1)..NameLen : b[i] = NUL)
  BY CounterBytes
<1>2. guard_set_self_name(n) = SubSeq(z, 1, NameLen - 1)
  BY DEF guard_set_self_name
<1> HIDE DEF b
<1>3. \A i \in 1..NameLen : z[i] \in Int
  BY <1>1, ElementOfSeq DEF SOH
<1>4. z \in Seq(Int) /\ Len(z) = NameLen
  BY <1>3, NameAssumption
<1>5. /\ SubSeq(z, 1, NameLen - 1) \in Seq(Int)
      /\ Len(SubSeq(z, 1, NameLen - 1)) = NameLen - 1
      /\ \A i \in 1..(NameLen - 1) : SubSeq(z, 1, NameLen - 1)[i] = z[i]
  <2> HIDE DEF z
  <2>1. 1 \in 1..(Len(z) + 1) /\ NameLen - 1 \in 0..Len(z) /\ 1 <= NameLen - 1 + 1
    BY <1>4, NameAssumption
  <2>2. (NameLen - 1) - 1 + 1 = NameLen - 1 /\ \A i \in 1..(NameLen - 1) : 1 + i - 1 = i
    BY NameAssumption
  <2> QED
    BY <1>4, <2>1, <2>2, Cut
<1>7. \A i \in (Width + 1)..(NameLen - 1) : z[i] = SOH
  BY <1>1, NameAssumption
<1> HIDE DEF z
<1> QED
  BY <1>2, <1>5, <1>7, NameAssumption DEF IsGuardName

\* A C string sent ends with the counter's bytes, if not before.
LEMMA SentName ==
    ASSUME NEW n \in Int
    PROVE  Len(CStr(ne_bytes(n))) <= Width
<1> DEFINE b == ne_bytes(n)
           t == Append(b, NUL)
           I == {i \in 1..Len(t) : t[i] = NUL}
<1>1. b \in Seq(Int) /\ Len(b) = NameLen
      /\ (\A i \in (Width + 1)..NameLen : b[i] = NUL)
  BY CounterBytes
<1>2. CStr(b) = SubSeq(b, 1, FirstOf(I) - 1)
  BY CStrValue
<1> HIDE DEF b
<1>3. Len(t) = NameLen + 1 /\ (\A i \in 1..NameLen : t[i] = b[i])
  BY <1>1, NameAssumption DEF NUL
<1> HIDE DEF t
<1>4. PICK k \in I : \A j \in I : k <= j
  <2>1. Width + 1 \in I
    BY <1>1, <1>3, NameAssumption
  <2>2. I # {} /\ I \subseteq Nat
    BY <2>1
  <2> QED
    BY <2>2, LeastOf
<1>5. k \in 1..(Width + 1)
  <2>1. Width + 1 \in I
    BY <1>1, <1>3, NameAssumption
  <2> QED
    BY <1>4, <2>1
<1>6. FirstOf(I) = k
  <2>1. I \subseteq Nat
    OBVIOUS
  <2> QED
    BY <1>4, <2>1, FirstOfValue
<1> HIDE DEF I
<1>7. Len(SubSeq(b, 1, k - 1)) = k - 1
  <2>1. 1 \in 1..(Len(b) + 1) /\ k - 1 \in 0..Len(b) /\ 1 <= (k - 1) + 1
    BY <1>1, <1>5, NameAssumption
  <2>2. (k - 1) - 1 + 1 = k - 1
    BY <1>5
  <2> QED
    BY <1>1, <2>1, <2>2, Cut
<1>8. Len(CStr(b)) = k - 1
  BY <1>2, <1>6, <1>7
<1> QED
  BY <1>5, <1>8, NameAssumption DEF b

\* The name found in /proc, with no white space behind its second byte: none, if
\* the reader is ended, or more than the counter's bytes.
LEMMA ShownName ==
    ASSUME NEW s, IsGuardName(s), ~LateName(s)
    PROVE  LET b == get_process_name(s)
           IN  b = <<>> \/ Len(b) > Width
<1> DEFINE line == s \o <<Close, Space>>
           L == {i \in 1..Len(line) : line[i] # Space}
<1>1. /\ line \in Seq(Int) /\ Len(line) = NameLen + 1
      /\ \A i \in 1..(NameLen - 1) : line[i] = s[i]
      /\ line[NameLen] = Close /\ line[NameLen + 1] = Space
  <2> DEFINE tail == <<Close, Space>>
  <2>1. tail \in Seq(Int) /\ Len(tail) = 2 /\ tail[1] = Close /\ tail[2] = Space
    BY DEF Close, Space
  <2>2. s \in Seq(Int) /\ Len(s) = NameLen - 1 /\ NameLen - 1 \in Nat
    BY NameAssumption DEF IsGuardName
  <2>3. line = s \o tail
    OBVIOUS
  <2> HIDE DEF line, tail
  <2>4. /\ line \in Seq(Int) /\ Len(line) = Len(s) + Len(tail)
        /\ \A i \in 1..(Len(s) + Len(tail)) :
               line[i] = IF i <= Len(s) THEN s[i] ELSE tail[i - Len(s)]
    BY <2>1, <2>2, <2>3, ConcatProperties
  <2>5. line \in Seq(Int) /\ Len(line) = NameLen + 1
    BY <2>1, <2>2, <2>4, NameAssumption
  <2>6. \A i \in 1..(NameLen - 1) : line[i] = s[i]
    BY <2>1, <2>2, <2>4, NameAssumption
  <2>7. line[NameLen] = tail[1] /\ line[NameLen + 1] = tail[2]
    <3>1. NameLen - Len(s) = 1 /\ NameLen + 1 - Len(s) = 2
          /\ ~(NameLen <= Len(s)) /\ ~(NameLen + 1 <= Len(s))
          /\ NameLen \in 1..(Len(s) + Len(tail)) /\ NameLen + 1 \in 1..(Len(s) + Len(tail))
      BY <2>1, <2>2, NameAssumption
    <3> QED
      BY <2>4, <3>1
  <2> QED
    BY <2>1, <2>5, <2>6, <2>7
<1> HIDE DEF line
<1>2. /\ \A i \in 3..NameLen : line[i] # Space
      /\ line[NameLen - 1] = SOH
  <2>1. \A i \in 3..(NameLen - 1) : s[i] # Space
    BY DEF IsGuardName, LateName
  <2>2. NameLen - 1 \in (Width + 1)..(NameLen - 1) /\ NameLen - 1 \in 1..(NameLen - 1)
    BY NameAssumption
  <2>3. line[NameLen - 1] = SOH
    BY <1>1, <2>2 DEF IsGuardName
  <2>4. \A i \in 3..NameLen : (i \in 1..(NameLen - 1) /\ i \in 3..(NameLen - 1)) \/ i = NameLen
    BY NameAssumption
  <2> QED
    BY <1>1, <2>1, <2>3, <2>4 DEF Close, Space
<1>3. PICK k \in L : k \in 1..3 /\ \A j \in L : k <= j
  <2>1. 3 \in L
    BY <1>1, <1>2, NameAssumption
  <2> QED
    BY <2>1
<1>4. FirstOf(L) = k
  <2>1. L \subseteq Nat
    OBVIOUS
  <2> QED
    BY <1>3, <2>1, FirstOfValue
<1>k. k \in 1..3 /\ line[k] # Space
  BY <1>3
<1> HIDE DEF L
<1> DEFINE n == NameLen + 2 - k
           text == SubSeq(line, k, Len(line))
           W == {i \in 1..Len(text) : text[i] = Space}
           word == SubSeq(text, 1, FirstOf(W) - 1)
           buf == SubSeq(word, 1, IF Len(word) < NameLen - 1 THEN Len(word) ELSE NameLen - 1)
<1>5. Scan(s \o <<Close, Space>>) = buf
  BY <1>4, ScanValue DEF L, line
<1> HIDE DEF buf
<1>6. get_process_name(s) = IF Len(buf) <= 1 THEN <<>>
                            ELSE IF buf[Len(buf)] = Close THEN SubSeq(buf, 1, Len(buf) - 1)
                            ELSE buf
  BY <1>5 DEF get_process_name, Last, Front
<1>n. n \in (NameLen - 1)..(NameLen + 1) /\ k + n - 1 = NameLen + 1
  BY <1>k, NameAssumption
<1>7. /\ text \in Seq(Int) /\ Len(text) = n
      /\ \A i \in 1..n : text[i] = line[k + i - 1]
  <2>1. k \in 1..(Len(line) + 1) /\ Len(line) \in 0..Len(line) /\ k <= Len(line) + 1
    BY <1>1, <1>k, NameAssumption
  <2>2. Len(line) - k + 1 = n
    BY <1>1, <1>k, NameAssumption
  <2> HIDE DEF n
  <2> QED
    BY <1>1, <2>1, <2>2, Cut
<1> HIDE DEF text, n
<1>8. PICK e \in W : (e = n \/ (k = 1 /\ e = 2)) /\ \A j \in W : e <= j
  <2>1. n \in W
    <3>1. n \in 1..n
      BY <1>n, NameAssumption
    <3> QED
      BY <1>1, <1>n, <1>7, <3>1
  <2>2. \A j \in W : j = n \/ (k = 1 /\ j = 2)
    <3>1. ASSUME NEW j \in W, j # n PROVE k + j - 1 < 3
      <4>1. j \in 1..n /\ line[k + j - 1] = Space
        BY <1>7
      <4>2. k + j - 1 \in 1..NameLen
        BY <1>k, <1>n, <3>1, <4>1, NameAssumption
      <4> QED
        BY <1>2, <4>1, <4>2, NameAssumption
    <3>2. ASSUME NEW j \in W, j # n PROVE k + j - 1 # k
      BY <1>k, <1>n, <1>7, <3>2, NameAssumption
    <3> QED
      BY <1>k, <1>n, <1>7, <3>1, <3>2, NameAssumption
  <2> QED
    BY <1>n, <1>7, <2>1, <2>2, NameAssumption
<1>9. FirstOf(W) = e /\ e \in 2..n
  <2>1. W \subseteq Nat
    OBVIOUS
  <2>2. FirstOf(W) = e
    BY <1>8, <2>1, FirstOfValue
  <2> QED
    BY <1>n, <1>8, <2>2, NameAssumption
<1> HIDE DEF W
<1>10. /\ word \in Seq(Int) /\ Len(word) = e - 1
       /\ \A i \in 1..(e - 1) : word[i] = line[k + i - 1]
  <2>1. 1 \in 1..(Len(text) + 1) /\ e - 1 \in 0..Len(text) /\ 1 <= (e - 1) + 1
    BY <1>n, <1>7, <1>9, NameAssumption
  <2>2. (e - 1) - 1 + 1 = e - 1 /\ \A i \in 1..(e - 1) : 1 + i - 1 = i /\ i \in 1..n
    BY <1>n, <1>9, NameAssumption
  <2>3. word = SubSeq(text, 1, e - 1)
    BY <1>9
  <2> HIDE DEF word
  <2> QED
    BY <1>7, <2>1, <2>2, <2>3, Cut
<1> HIDE DEF word
<1> DEFINE m == IF Len(word) < NameLen - 1 THEN Len(word) ELSE NameLen - 1
<1>m. m \in 1..(e - 1) /\ m <= NameLen - 1 /\ (m = e - 1 \/ m = NameLen - 1)
  BY <1>n, <1>9, <1>10, NameAssumption
<1>11. /\ buf \in Seq(Int) /\ Len(buf) = m
       /\ \A i \in 1..m : buf[i] = line[k + i - 1]
  <2>1. buf = SubSeq(word, 1, m)
    BY DEF buf
  <2> HIDE DEF m
  <2>2. 1 \in 1..(Len(word) + 1) /\ m \in 0..Len(word) /\ 1 <= m + 1
    BY <1>n, <1>9, <1>10, <1>m
  <2>3. m - 1 + 1 = m /\ \A i \in 1..m : 1 + i - 1 = i /\ i \in 1..(e - 1)
    BY <1>n, <1>9, <1>m
  <2> QED
    BY <1>10, <2>1, <2>2, <2>3, Cut
<1> HIDE DEF m
<1>12. CASE k = 1 /\ e = 2
  <2>1. Len(buf) <= 1
    BY <1>m, <1>11, <1>12
  <2> QED
    BY <1>6, <2>1
<1>13. CASE e = n /\ k = 1
  <2>1. m = NameLen - 1 /\ k + m - 1 = NameLen - 1 /\ m > 1 /\ m \in 1..m
    BY <1>m, <1>n, <1>13, NameAssumption
  <2>2. buf[Len(buf)] = SOH /\ Len(buf) > 1
    BY <1>2, <1>11, <2>1
  <2>w. Len(buf) > Width
    BY <1>11, <2>1, NameAssumption
  <2>3. ~(Len(buf) <= 1) /\ buf[Len(buf)] # Close
    BY <1>11, <2>1, <2>2 DEF SOH, Close
  <2> QED
    BY <1>6, <2>w, <2>3
<1>14. CASE e = n /\ k \in {2, 3}
  <2>1. m = n - 1 /\ m \in Int /\ m > 2
    BY <1>m, <1>n, <1>14, NameAssumption
  <2>2. k + m - 1 = NameLen /\ k + (m - 1) - 1 = NameLen - 1
    BY <1>k, <1>n, <2>1, NameAssumption
  <2>3. m \in 1..m /\ m - 1 \in 1..m /\ ~(m <= 1)
    BY <2>1
  <2>4. buf[m] = Close
    BY <1>1, <1>11, <2>2, <2>3
  <2>5. get_process_name(s) = SubSeq(buf, 1, m - 1)
    BY <1>6, <1>11, <2>3, <2>4
  <2>6. Len(SubSeq(buf, 1, m - 1)) = m - 1
    <3>1. 1 \in 1..(Len(buf) + 1) /\ m - 1 \in 0..Len(buf) /\ 1 <= (m - 1) + 1
      BY <1>11, <2>1
    <3>2. (m - 1) - 1 + 1 = m - 1
      BY <2>1
    <3> QED
      BY <1>11, <3>1, <3>2, Cut
  <2>7. m - 1 > Width
    BY <1>n, <1>14, <2>1, NameAssumption
  <2> QED
    BY <2>5, <2>6, <2>7
<1> QED
  BY <1>k, <1>8, <1>12, <1>13, <1>14

\* Whatever counters two guards were given: what a client reads of the one is
\* not what it was sent of the other, nor of the same, because the first is longer,
\* unless scanf has cut it at white space behind its second byte.
THEOREM NamesDiffer ==
    ASSUME NEW m \in Int, NEW n \in Int
    PROVE  LET s == guard_set_self_name(m)
               b == get_process_name(s)
           IN  LateName(s) \/ b = <<>> \/ b # CStr(ne_bytes(n))
<1> DEFINE s == guard_set_self_name(m)
           b == get_process_name(s)
           t == CStr(ne_bytes(n))
<1>1. SUFFICES ASSUME ~LateName(s), b # <<>> PROVE b # t
  OBVIOUS
<1>2. Len(b) > Width
  BY <1>1, SelfName, ShownName
<1>3. Len(t) <= Width
  BY SentName
<1> HIDE DEF b, t
<1> QED
  <2>1. ASSUME b = t PROVE FALSE
    <3>1. Len(b) <= Width
      BY <1>3, <2>1
    <3> QED
      BY <1>2, <3>1, NameAssumption
  <2> QED
    BY <2>1

-----------------------------------------------------------------------------
(* The invariant. *)

LEMMA FirstInt == First \in Int
  BY NameAssumption DEF First, Base

\* The counter is a number, and only clients own guards.
TypeInv ==
    /\ counter \in Int
    /\ owner \in [Pid -> Client \cup {None}]
    /\ DOMAIN comm = Pid /\ DOMAIN held = Client

\* A process that is a guard has a guard's name.
CommInv == \A p \in Pid : owner[p] # None =>
               \E n \in Int : comm[p] = guard_set_self_name(n)

\* What a client was sent is a pid and a counter.
HeldInv == \A c \in Client : held[c] # None =>
               /\ held[c].pid \in Pid
               /\ \E n \in Int : held[c].name = CStr(ne_bytes(n))

IInv == TypeInv /\ CommInv /\ HeldInv

LEMMA InitIInv == Init => IInv
<1> SUFFICES ASSUME Init PROVE IInv
  OBVIOUS
<1>1. TypeInv
  BY FirstInt DEF Init, TypeInv
<1>2. CommInv /\ HeldInv
  BY DEF Init, CommInv, HeldInv
<1> QED
  BY <1>1, <1>2 DEF IInv

LEMMA ServeIInv ==
    ASSUME IInv, NEW c \in Client, NEW p \in Pid, Serve(c, p)
    PROVE  IInv'
<1>1. counter \in Int /\ counter' \in Int
  BY FirstInt DEF Serve, fetch_sub, IInv, TypeInv
<1>2. TypeInv'
  <2>1. owner' \in [Pid -> Client \cup {None}]
    BY DEF Serve, IInv, TypeInv
  <2>2. DOMAIN comm' = Pid /\ DOMAIN held' = Client
    BY DEF Serve, IInv, TypeInv
  <2> QED
    BY <1>1, <2>1, <2>2 DEF TypeInv
<1>3. CommInv'
  BY <1>1 DEF Serve, IInv, TypeInv, CommInv
<1>4. HeldInv'
  <2>1. ASSUME NEW x \in Client, x # c PROVE held'[x] = held[x]
    BY <2>1 DEF Serve, IInv, TypeInv
  <2>2. held'[c].pid = p /\ held'[c].name = CStr(ne_bytes(counter))
    BY DEF Serve, IInv, TypeInv
  <2> QED
    BY <1>1, <2>1, <2>2 DEF IInv, HeldInv
<1> QED
  BY <1>2, <1>3, <1>4 DEF IInv

LEMMA NextIInv == IInv /\ [Next]_vars => IInv'
<1> SUFFICES ASSUME IInv, [Next]_vars PROVE IInv'
  OBVIOUS
<1>1. ASSUME NEW c \in Client, NEW p \in Pid, Serve(c, p) PROVE IInv'
  BY <1>1, ServeIInv
<1>2. CASE Refuse \/ Restart
  <2>1. counter' \in Int
    BY <1>2, FirstInt DEF Refuse, Restart, fetch_sub, IInv, TypeInv
  <2>2. TypeInv' /\ CommInv' /\ HeldInv'
    BY <1>2, <2>1 DEF Refuse, Restart, IInv, TypeInv, CommInv, HeldInv
  <2> QED
    BY <2>2 DEF IInv
<1>3. ASSUME NEW p \in Pid, Die(p) PROVE IInv'
  BY <1>3 DEF Die, IInv, TypeInv, CommInv, HeldInv
<1>4. CASE UNCHANGED vars
  BY <1>4 DEF vars, IInv, TypeInv, CommInv, HeldInv
<1> QED
  BY <1>1, <1>2, <1>3, <1>4 DEF Next

\* No client takes another's guard for its own, however often the server is
\* started anew and a pid reused, but for a guard whose name has white space
\* behind its second byte.
THEOREM NotMistaken == Spec => []MistakenOnlyLate
<1>1. IInv => MistakenOnlyLate
  <2> SUFFICES ASSUME IInv, NEW c \in Client, Compare(c) = "mistaken",
                      ~LateName(comm[held[c].pid])
               PROVE  FALSE
    BY DEF MistakenOnlyLate
  <2> DEFINE p == held[c].pid
             b == get_process_name(comm[p])
  <2>1. held[c] # None /\ owner[p] # None /\ b # <<>> /\ b = held[c].name
    BY DEF Compare
  <2>2. p \in Pid /\ \E n \in Int : held[c].name = CStr(ne_bytes(n))
    BY <2>1 DEF IInv, HeldInv
  <2>3. \E n \in Int : comm[p] = guard_set_self_name(n)
    BY <2>1, <2>2 DEF IInv, CommInv
  <2> QED
    BY <2>1, <2>2, <2>3, NamesDiffer
<1> QED
  BY <1>1, InitIInv, NextIInv, PTL DEF Spec
=============================================================================
