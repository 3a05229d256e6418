--------------------------- MODULE ReqCodecProofs ---------------------------
(***************************************************************************)
(* Proofs about the way of a request: what the wrapper packs is what        *)
(* req_parse unpacks, for every int, buffer, number of slots and strings.   *)
(***************************************************************************)
EXTENDS ReqCodec, SequenceTheorems, WellFoundedInduction, TLAPS

-----------------------------------------------------------------------------
(* Induction up to a number, and what recursion up to a number defines.     *)

LEMMA Least ==
    ASSUME NEW T, T \subseteq Nat, T # {}
    PROVE  \E x \in T : \A y \in T : x <= y
<1>1. \A x, y \in Nat : y < x => <<y, x>> \in OpToRel(<, Nat)
  BY DEF OpToRel
<1>2. \E x \in T : \A y \in T : ~ (<<y, x>> \in OpToRel(<, Nat))
  BY NatLessThanWellFounded, WFMin, Zenon
<1>3. \A x, y \in T : ~ (y < x) => x <= y
  OBVIOUS
<1> QED
  BY <1>1, <1>2, <1>3, Zenon

LEMMA Induction ==
    ASSUME NEW n \in Nat, NEW G, 0 \in G,
           \A i \in 1..n : i - 1 \in G => i \in G
    PROVE  \A i \in 0..n : i \in G
<1> DEFINE T == {i \in 0..n : i \notin G}
<1> SUFFICES ASSUME T # {} PROVE FALSE
  OBVIOUS
<1>1. PICK x \in T : \A y \in T : x <= y
  <2>1. T \subseteq Nat
    OBVIOUS
  <2> HIDE DEF T
  <2> QED
    BY <2>1, Least, Zenon
<1>2. x \in 1..n /\ x - 1 \in 0..n
  OBVIOUS
<1>3. x - 1 \in G
  BY <1>1, <1>2
<1> QED
  BY <1>2, <1>3

\* f starts at a and goes on by g.
Unrolls(f, n, a, g) == f[0] = a /\ \A i \in 1..n : f[i] = g[i][f[i - 1]]

LEMMA Recursion ==
    ASSUME NEW n \in Nat, NEW S, NEW a \in S, NEW g \in [1..n -> [S -> S]]
    PROVE  \E f \in [0..n -> S] : Unrolls(f, n, a, g)
<1> DEFINE Upto(f, m) == f[0] = a /\ \A i \in 1..m : f[i] = g[i][f[i - 1]]
           G == {m \in 0..n : \E f \in [0..m -> S] : Upto(f, m)}
<1>1. 0 \in G
  <2> DEFINE f == [i \in 0..0 |-> a]
  <2>1. f \in [0..0 -> S] /\ f[0] = a
    OBVIOUS
  <2>2. Upto(f, 0)
    BY <2>1
  <2> HIDE DEF f, Upto
  <2> QED
    BY <2>1, <2>2
<1>2. ASSUME NEW m \in 1..n, m - 1 \in G
      PROVE  m \in G
  <2>1. PICK f \in [0..(m - 1) -> S] : Upto(f, m - 1)
    BY <1>2
  <2> DEFINE h == [i \in 0..m |-> IF i = m THEN g[m][f[m - 1]] ELSE f[i]]
  <2>2. \A i \in 0..(m - 1) : h[i] = f[i]
    OBVIOUS
  <2>3. h[m] = g[m][f[m - 1]]
    OBVIOUS
  <2>4. h \in [0..m -> S]
    OBVIOUS
  <2>5. Upto(h, m)
    <3> HIDE DEF h
    <3>1. h[0] = a
      BY <2>1, <2>2
    <3>2. ASSUME NEW i \in 1..m
          PROVE  h[i] = g[i][h[i - 1]]
      <4>1. CASE i = m
        BY <4>1, <2>2, <2>3
      <4>2. CASE i # m
        BY <4>2, <2>1, <2>2
      <4> QED
        BY <4>1, <4>2
    <3> QED
      BY <3>1, <3>2
  <2> HIDE DEF h, Upto
  <2> QED
    BY <2>4, <2>5
<1>3. n \in G
  <2> HIDE DEF G
  <2>1. \A m \in 0..n : m \in G
    BY <1>1, <1>2, Induction, Zenon
  <2> QED
    BY <2>1
<1> QED
  BY <1>3 DEF Unrolls

-----------------------------------------------------------------------------
(* Ends and FlattenSeq, up to each place. *)

LEMMA EndsValue ==
    ASSUME NEW lens \in Seq(Nat)
    PROVE  /\ Ends(lens) \in [0..Len(lens) -> Nat]
           /\ Ends(lens)[0] = 0
           /\ \A i \in 1..Len(lens) : Ends(lens)[i] = Ends(lens)[i - 1] + lens[i]
<1> DEFINE P(e) == e = [i \in 0..Len(lens) |-> IF i = 0 THEN 0 ELSE e[i - 1] + lens[i]]
           step == [i \in 1..Len(lens) |-> [k \in Nat |-> k + lens[i]]]
<1>1. Len(lens) \in Nat /\ \A i \in 1..Len(lens) : lens[i] \in Nat
  BY LenProperties, ElementOfSeq
<1>2. step \in [1..Len(lens) -> [Nat -> Nat]]
  BY <1>1
<1>3. \A i \in 1..Len(lens), k \in Nat : step[i][k] = k + lens[i]
  BY <1>1
<1>4. PICK f \in [0..Len(lens) -> Nat] :
            f[0] = 0 /\ \A i \in 1..Len(lens) : f[i] = step[i][f[i - 1]]
  <2> HIDE DEF step
  <2>1. 0 \in Nat
    OBVIOUS
  <2>2. \E f \in [0..Len(lens) -> Nat] : Unrolls(f, Len(lens), 0, step)
    BY <1>1, <1>2, <2>1, Recursion, Zenon
  <2> QED
    BY <2>2 DEF Unrolls
<1>5. \A i \in 1..Len(lens) : f[i] = f[i - 1] + lens[i]
  <2> HIDE DEF step
  <2>1. \A i \in 1..Len(lens) : f[i - 1] \in Nat
    BY <1>1
  <2> QED
    BY <1>3, <1>4, <2>1
<1>6. P(f)
  BY <1>1, <1>4, <1>5
<1>7. Ends(lens) = CHOOSE e : P(e)
  BY Zenon DEF Ends
<1>8. P(Ends(lens))
  <2> HIDE DEF P
  <2> QED
    BY <1>6, <1>7
<1> DEFINE e == Ends(lens)
<1>9. e = [i \in 0..Len(lens) |-> IF i = 0 THEN 0 ELSE e[i - 1] + lens[i]]
  BY <1>8
<1> HIDE DEF e, P, step
<1>10. e[0] = 0 /\ \A i \in 1..Len(lens) : e[i] = e[i - 1] + lens[i]
  BY <1>1, <1>9
<1>11. \A i \in 0..Len(lens) : e[i] \in Nat
  <2> DEFINE G == {i \in 0..Len(lens) : e[i] \in Nat}
  <2>1. 0 \in G
    BY <1>1, <1>10
  <2>2. \A i \in 1..Len(lens) : i - 1 \in G => i \in G
    BY <1>1, <1>10
  <2>3. \A i \in 0..Len(lens) : i \in G
    <3> HIDE DEF G
    <3> QED
      BY <1>1, <2>1, <2>2, Induction
  <2> QED
    BY <2>3
<1>12. e \in [0..Len(lens) -> Nat]
  <2>1. e = [i \in 0..Len(lens) |-> e[i]]
    BY <1>9
  <2> QED
    BY <2>1, <1>11
<1> QED
  BY <1>10, <1>12 DEF e

LEMMA FlattenValue ==
    ASSUME NEW T, NEW s \in Seq(Seq(T))
    PROVE  \E f \in [0..Len(s) -> Seq(T)] :
              /\ f[0] = <<>>
              /\ \A i \in 1..Len(s) : f[i] = f[i - 1] \o s[i]
              /\ FlattenSeq(s) = f[Len(s)]
<1> DEFINE n == Len(s)
           P(h) == h = [i \in 1..n |-> IF i = 1 THEN s[i] ELSE h[i - 1] \o s[i]]
           step == [i \in 1..n |-> [t \in Seq(T) |-> t \o s[i]]]
<1>1. n \in Nat /\ \A i \in 1..n : s[i] \in Seq(T)
  BY LenProperties, ElementOfSeq
<1>2. step \in [1..n -> [Seq(T) -> Seq(T)]]
  BY <1>1, ConcatProperties
<1>3. \A i \in 1..n, t \in Seq(T) : step[i][t] = t \o s[i]
  BY <1>1
<1>4. PICK f \in [0..n -> Seq(T)] :
            f[0] = <<>> /\ \A i \in 1..n : f[i] = step[i][f[i - 1]]
  <2> HIDE DEF step, n
  <2>1. <<>> \in Seq(T)
    OBVIOUS
  <2>2. \E f \in [0..n -> Seq(T)] : Unrolls(f, n, <<>>, step)
    BY <1>1, <1>2, <2>1, Recursion, Zenon
  <2> QED
    BY <2>2 DEF Unrolls
<1>5. \A i \in 1..n : f[i] = f[i - 1] \o s[i]
  <2> HIDE DEF step, n
  <2>1. \A i \in 1..n : f[i - 1] \in Seq(T)
    BY <1>1
  <2> QED
    BY <1>3, <1>4, <2>1
<1>6. CASE n = 0
  <2>1. FlattenSeq(s) = s
    BY <1>6 DEF FlattenSeq
  <2>2. s = <<>>
    BY <1>6
  <2> QED
    BY <1>4, <1>5, <1>6, <2>1, <2>2
<1>7. CASE n # 0
  <2>1. FlattenSeq(s) = (CHOOSE h : P(h))[n]
    BY <1>7, Zenon DEF FlattenSeq
  <2> HIDE DEF step, n
  <2>2. 1 \in 1..n /\ f[1] = s[1]
    <3>1. 1 \in 1..n /\ 1 - 1 = 0
      BY <1>1, <1>7
    <3>2. f[1] = <<>> \o s[1]
      BY <1>4, <1>5, <3>1
    <3>3. s[1] \in Seq(T)
      BY <1>1, <3>1
    <3>4. f[1] = s[1]
      BY <3>2, <3>3, ConcatEmptySeq
    <3> QED
      BY <3>1, <3>4
  <2> DEFINE r == [i \in 1..n |-> f[i]]
  <2>3. P(r)
    <3>1. ASSUME NEW i \in 1..n
          PROVE  r[i] = IF i = 1 THEN s[i] ELSE r[i - 1] \o s[i]
      <4>1. CASE i = 1
        BY <4>1, <2>2
      <4>2. CASE i # 1
        <5>1. i - 1 \in 1..n
          BY <1>1, <4>2
        <5>2. r[i] = f[i] /\ r[i - 1] = f[i - 1]
          BY <5>1
        <5> HIDE DEF r
        <5> QED
          BY <1>5, <4>2, <5>2
      <4> QED
        BY <4>1, <4>2
    <3> HIDE DEF r
    <3>2. r = [i \in 1..n |-> r[i]]
      BY DEF r
    <3> QED
      BY <3>1, <3>2
  <2> DEFINE h == CHOOSE h : P(h)
  <2>4. P(h)
    <3> HIDE DEF P, r
    <3> QED
      BY <2>3
  <2> HIDE DEF h
  <2>5. \A i \in 1..n : h[i] = IF i = 1 THEN s[i] ELSE h[i - 1] \o s[i]
    BY <2>4
  <2> HIDE DEF P
  <2> DEFINE G == {i \in 0..n : i > 0 => h[i] = f[i]}
  <2>6. 0 \in G
    BY <1>1
  <2>7. ASSUME NEW i \in 1..n, i - 1 \in G
        PROVE  i \in G
    <3>1. CASE i = 1
      BY <3>1, <2>2, <2>5
    <3>2. CASE i # 1
      <4>1. i - 1 \in 1..n /\ i \in 0..n
        BY <1>1, <3>2
      <4>2. h[i - 1] = f[i - 1]
        BY <2>7, <4>1
      <4>3. h[i] = f[i]
        BY <1>5, <2>5, <3>2, <4>2
      <4> QED
        BY <4>1, <4>3
    <3> QED
      BY <3>1, <3>2
  <2>8. n \in G
    <3> HIDE DEF G
    <3>1. \A i \in 0..n : i \in G
      BY <1>1, <2>6, <2>7, Induction, Zenon
    <3> QED
      BY <1>1, <3>1
  <2>9. h[n] = f[n]
    BY <1>1, <1>7, <2>8
  <2>10. FlattenSeq(s) = f[n]
    BY <2>1, <2>9 DEF h
  <2> QED
    BY <1>4, <1>5, <2>10 DEF n
<1> QED
  BY <1>6, <1>7

\* What is cut out of one of two sequences joined.
LEMMA LeftPart ==
    ASSUME NEW T, NEW a \in Seq(T), NEW b \in Seq(T),
           NEW p \in Nat \ {0}, NEW q \in 0..Len(a)
    PROVE  SubSeq(a \o b, p, q) = SubSeq(a, p, q)
<1>1. Len(a) \in Nat /\ Len(b) \in Nat
  BY LenProperties
<1>2. \A i \in p..q : i \in 1..Len(a) /\ i \in 1..(Len(a) + Len(b)) /\ i <= Len(a)
  BY <1>1
<1>3. \A i \in p..q : (a \o b)[i] = a[i]
  BY <1>2, ConcatProperties, Zenon
<1>4. \A i \in p..q : a[i] \in T
  BY <1>2, ElementOfSeq
<1>5. p \in Int /\ q \in Int
  BY <1>1
<1>6. /\ SubSeq(a, p, q) \in Seq(T)
      /\ Len(SubSeq(a, p, q)) = IF p <= q THEN q - p + 1 ELSE 0
      /\ \A i \in 1..(q - p + 1) : SubSeq(a, p, q)[i] = a[p + i - 1]
  BY <1>4, <1>5, SubSeqProperties
<1> DEFINE c == a \o b
<1>7. \A i \in p..q : c[i] \in T
  BY <1>3, <1>4
<1> HIDE DEF c
<1>8. /\ SubSeq(c, p, q) \in Seq(T)
      /\ Len(SubSeq(c, p, q)) = IF p <= q THEN q - p + 1 ELSE 0
      /\ \A i \in 1..(q - p + 1) : SubSeq(c, p, q)[i] = c[p + i - 1]
  BY <1>5, <1>7, SubSeqProperties
<1>9. ASSUME NEW i \in 1..Len(SubSeq(c, p, q))
      PROVE  SubSeq(c, p, q)[i] = SubSeq(a, p, q)[i]
  <2>1. i \in 1..(q - p + 1) /\ p + i - 1 \in p..q
    BY <1>5, <1>8
  <2>2. c[p + i - 1] = a[p + i - 1]
    BY <1>3, <2>1 DEF c
  <2> QED
    BY <1>6, <1>8, <2>1, <2>2
<1>10. SubSeq(c, p, q) = SubSeq(a, p, q)
  BY <1>6, <1>8, <1>9, SeqEqual
<1> QED
  BY <1>10 DEF c

LEMMA RightPart ==
    ASSUME NEW T, NEW a \in Seq(T), NEW b \in Seq(T)
    PROVE  SubSeq(a \o b, Len(a) + 1, Len(a) + Len(b)) = b
<1> DEFINE c == a \o b
           p == Len(a) + 1
           q == Len(a) + Len(b)
<1>1. Len(a) \in Nat /\ Len(b) \in Nat /\ p \in Int /\ q \in Int
  BY LenProperties
<1>2. \A i \in p..q : i \in 1..(Len(a) + Len(b)) /\ ~ (i <= Len(a)) /\ i - Len(a) \in 1..Len(b)
  BY <1>1
<1>3. \A i \in p..q : c[i] = b[i - Len(a)]
  BY <1>2, ConcatProperties, Zenon
<1>4. \A i \in p..q : c[i] \in T
  BY <1>2, <1>3, ElementOfSeq
<1>5. q - p + 1 = Len(b) /\ (p <= q => q - p + 1 = Len(b)) /\ (~ (p <= q) => Len(b) = 0)
  BY <1>1
<1> HIDE DEF c
<1>6. /\ SubSeq(c, p, q) \in Seq(T)
      /\ Len(SubSeq(c, p, q)) = IF p <= q THEN q - p + 1 ELSE 0
      /\ \A i \in 1..(q - p + 1) : SubSeq(c, p, q)[i] = c[p + i - 1]
  <2> HIDE DEF p, q
  <2> QED
    BY <1>1, <1>4, SubSeqProperties
<1>7. Len(SubSeq(c, p, q)) = Len(b)
  <2> HIDE DEF p, q
  <2> QED
    BY <1>5, <1>6
<1>8. ASSUME NEW i \in 1..Len(b)
      PROVE  SubSeq(c, p, q)[i] = b[i]
  <2>1. i \in 1..(q - p + 1) /\ p + i - 1 \in p..q /\ (p + i - 1) - Len(a) = i
    BY <1>1
  <2> HIDE DEF p, q
  <2> QED
    BY <1>3, <1>6, <2>1
<1>9. SubSeq(c, p, q) = b
  <2> HIDE DEF p, q
  <2> QED
    BY <1>6, <1>7, <1>8, SeqEqual
<1> QED
  BY <1>9 DEF c

\* FlattenSeq loses nothing: what lies between two ends is the sequence there.
LEMMA Pieces ==
    ASSUME NEW T, NEW s \in Seq(Seq(T)), NEW lens \in Seq(Nat), Len(lens) = Len(s),
           \A i \in 1..Len(s) : Len(s[i]) = lens[i]
    PROVE  /\ FlattenSeq(s) \in Seq(T)
           /\ Len(FlattenSeq(s)) = Total(lens)
           /\ \A i \in 1..Len(s) :
                 SubSeq(FlattenSeq(s), Ends(lens)[i - 1] + 1, Ends(lens)[i]) = s[i]
<1> DEFINE n == Len(s)
           e == Ends(lens)
<1>1. n \in Nat /\ \A i \in 1..n : s[i] \in Seq(T) /\ lens[i] \in Nat
  BY LenProperties, ElementOfSeq
<1>2. /\ e \in [0..n -> Nat]
      /\ e[0] = 0
      /\ \A i \in 1..n : e[i] = e[i - 1] + lens[i]
  BY EndsValue
<1>3. PICK f \in [0..n -> Seq(T)] : /\ f[0] = <<>>
                                    /\ \A i \in 1..n : f[i] = f[i - 1] \o s[i]
                                    /\ FlattenSeq(s) = f[n]
  BY FlattenValue
<1> HIDE DEF n, e
<1> DEFINE Upto(m) == /\ Len(f[m]) = e[m]
                      /\ \A i \in 0..m : e[i] <= e[m]
                      /\ \A i \in 1..m : SubSeq(f[m], e[i - 1] + 1, e[i]) = s[i]
           G == {m \in 0..n : Upto(m)}
<1>4. 0 \in G
  BY <1>1, <1>2, <1>3
<1>5. ASSUME NEW m \in 1..n, m - 1 \in G
      PROVE  m \in G
  <2>1. m - 1 \in 0..n /\ m \in 0..n /\ m \in 1..n /\ Upto(m - 1)
    BY <1>1, <1>5
  <2>2. f[m] = f[m - 1] \o s[m] /\ f[m - 1] \in Seq(T) /\ s[m] \in Seq(T)
    BY <1>1, <1>3, <2>1
  <2>3. Len(f[m]) = Len(f[m - 1]) + Len(s[m])
    BY <2>2, ConcatProperties
  <2>4. e[m] \in Nat /\ e[m - 1] \in Nat /\ lens[m] \in Nat /\ e[m] = e[m - 1] + lens[m]
        /\ Len(s[m]) = lens[m]
    BY <1>1, <1>2, <2>1 DEF n
  <2>5. Len(f[m]) = e[m]
    BY <2>1, <2>3, <2>4
  <2>6. ASSUME NEW i \in 0..m
        PROVE  e[i] <= e[m]
    <3>1. CASE i = m
      BY <3>1, <2>4
    <3>2. CASE i # m
      <4>1. i \in 0..(m - 1) /\ i \in 0..n
        BY <1>1, <3>2
      <4>2. e[i] <= e[m - 1] /\ e[i] \in Nat
        BY <1>2, <2>1, <4>1
      <4> QED
        BY <2>4, <4>2
    <3> QED
      BY <3>1, <3>2
  <2>7. ASSUME NEW i \in 1..m
        PROVE  SubSeq(f[m], e[i - 1] + 1, e[i]) = s[i]
    <3>1. CASE i = m
      <4>1. SubSeq(f[m - 1] \o s[m], Len(f[m - 1]) + 1, Len(f[m - 1]) + Len(s[m])) = s[m]
        BY <2>2, RightPart
      <4>2. Len(f[m - 1]) = e[m - 1] /\ Len(f[m - 1]) + Len(s[m]) = e[m]
        BY <2>1, <2>4
      <4> QED
        BY <2>2, <3>1, <4>1, <4>2
    <3>2. CASE i # m
      <4>1. i \in 1..(m - 1) /\ i \in 0..(m - 1) /\ i - 1 \in 0..n /\ i \in 0..n
        BY <1>1, <3>2
      <4>2. e[i - 1] \in Nat /\ e[i] \in Nat /\ e[i] <= e[m - 1] /\ Len(f[m - 1]) = e[m - 1]
        BY <1>2, <2>1, <4>1
      <4>3. e[i - 1] + 1 \in Nat \ {0} /\ e[i] \in 0..Len(f[m - 1])
        <5>1. \A x, y, z \in Nat : y <= z => x + 1 \in Nat \ {0} /\ y \in 0..z
          OBVIOUS
        <5> QED
          BY <2>4, <4>2, <5>1, Zenon
      <4>4. SubSeq(f[m - 1] \o s[m], e[i - 1] + 1, e[i]) = SubSeq(f[m - 1], e[i - 1] + 1, e[i])
        BY <2>2, <4>3, LeftPart
      <4> QED
        BY <2>1, <2>2, <4>1, <4>4
    <3> QED
      BY <3>1, <3>2
  <2> HIDE DEF Upto
  <2>8. Upto(m)
    BY <2>5, <2>6, <2>7 DEF Upto
  <2> QED
    BY <2>1, <2>8
<1>6. n \in G
  <2> HIDE DEF G
  <2>1. \A m \in 0..n : m \in G
    BY <1>1, <1>4, <1>5, Induction, Zenon
  <2> QED
    BY <1>1, <2>1
<1>7. n \in 0..n /\ Upto(n)
  BY <1>6
<1>8. f[n] \in Seq(T) /\ Total(lens) = e[n]
  BY <1>3, <1>7 DEF Total, e, n
<1> QED
  BY <1>3, <1>7, <1>8 DEF e, n

-----------------------------------------------------------------------------
(* Strings and their lengths. *)

LEMMA Remainder ==
    ASSUME NEW n \in 0..(Word - 1)
    PROVE  n % Word = n /\ Word % Word = 0
  BY CodecAssumption

\* A string a request can hold: no NUL in it, and shorter than the largest int.
IsStr(s) == s \in Seq(Nat \ {NUL}) /\ Len(s) <= Word \div 2 - 2

LEMMA StrValue ==
    ASSUME NEW n \in Strings, NEW k \in Nat \ {NUL}
    PROVE  IsStr(Str(n, k)) /\ Len(Str(n, k)) = n
<1>1. n \in Nat /\ n <= Word \div 2 - 2
  BY CodecAssumption
<1>2. Str(n, k) \in [1..n -> Nat \ {NUL}]
  BY DEF Str
<1>3. Str(n, k) \in Seq(Nat \ {NUL}) /\ Len(Str(n, k)) = n
  BY <1>1, <1>2
<1> QED
  BY <1>1, <1>3 DEF IsStr

\* The room a string takes on its way.
Size(s) == IF s \in {Nil, <<>>} THEN 0 ELSE Len(s) + 1

\* What sendmsg is given of a string is its bytes and a NUL, or nothing.
LEMMA IovValue ==
    ASSUME NEW s, s = Nil \/ IsStr(s)
    PROVE  /\ Size(s) \in 0..(Word \div 2 - 1)
           /\ strlenNul(s) = Size(s)
           /\ Iov(s) \in Seq(Nat)
           /\ Len(Iov(s)) = Size(s)
           /\ s \notin {Nil, <<>>} => IsCStr(Iov(s)) /\ Front(Iov(s)) = s
<1>1. CASE s = Nil
  <2>1. strlenNul(s) = 0
    <3>1. 0 < Word - 1 /\ 1 + (Word - 1) = Word /\ 0 \in 0..(Word - 1)
      BY CodecAssumption
    <3> QED
      BY <1>1, <3>1, Remainder DEF strlenNul, strlen
  <2>2. Iov(s) = <<>>
    BY <1>1 DEF Iov
  <2>3. 0 \in 0..(Word \div 2 - 1)
    BY CodecAssumption
  <2> QED
    BY <1>1, <2>1, <2>2, <2>3 DEF Size
<1>2. CASE IsStr(s)
  <2> DEFINE n == Len(s)
             t == Append(s, NUL)
  <2>1. /\ s \in Seq(Nat \ {NUL}) /\ s \in Seq(Nat) /\ s # Nil
        /\ n \in Nat /\ n + 1 \in 0..(Word \div 2 - 1) /\ 1 + n \in 0..(Word - 1)
        /\ s = <<>> <=> n = 0
    <3>1. s \in Seq(Nat \ {NUL}) /\ s \in Seq(Nat)
      BY <1>2, SeqMonotonic DEF IsStr
    <3>2. s # Nil
      BY <3>1, NilAssumption
    <3>3. n \in Nat /\ (s = <<>> <=> n = 0)
      BY <3>1, EmptySeq, LenProperties
    <3>4. n <= Word \div 2 - 2
      BY <1>2 DEF IsStr
    <3> QED
      BY <3>1, <3>2, <3>3, <3>4, CodecAssumption
  <2>2. t \in Seq(Nat) /\ Len(t) = n + 1 /\ (\A i \in 1..n : t[i] = s[i]) /\ t[n + 1] = NUL
    BY <2>1, AppendProperties DEF NUL
  <2>3. \A i \in 1..n : t[i] # NUL
    BY <2>1, <2>2, ElementOfSeq
  <2>4. strlenNul(s) = IF n = 0 THEN 0 ELSE n + 1
    <3>1. (1 + n) % Word = 1 + n /\ 1 + n = n + 1
      BY <2>1, Remainder
    <3> QED
      BY <2>1, <3>1 DEF strlenNul, strlen
  <2>5. CASE n = 0
    <3>1. Iov(s) = SubSeq(t, 1, 0)
      BY <2>1, <2>4, <2>5 DEF Iov
    <3>2. Iov(s) = <<>>
      BY <3>1, SubSeqEmpty
    <3>3. s = <<>>
      BY <2>1, <2>5
    <3>4. strlenNul(s) = 0 /\ Size(s) = 0
      BY <2>4, <2>5, <3>3 DEF Size
    <3>5. 0 \in 0..(Word \div 2 - 1)
      BY CodecAssumption
    <3>6. <<>> \in Seq(Nat) /\ Len(<<>>) = 0
      OBVIOUS
    <3> QED
      BY <3>2, <3>3, <3>4, <3>5, <3>6
  <2>6. CASE n # 0
    <3>1. Iov(s) = SubSeq(t, 1, n + 1)
      BY <2>1, <2>4, <2>6 DEF Iov
    <3> HIDE DEF t
    <3>2. SubSeq(t, 1, Len(t)) = t
      BY <2>2, SubSeqFull
    <3>3. Iov(s) = t
      BY <2>2, <3>1, <3>2
    <3>4. IsCStr(t)
      <4>1. t # <<>> /\ DOMAIN t = 1..(n + 1)
        BY <2>1, <2>2, LenProperties
      <4>2. ASSUME NEW i \in 1..(n + 1) PROVE t[i] = NUL <=> i = n + 1
        BY <2>1, <2>2, <2>3
      <4> QED
        BY <2>2, <4>1, <4>2 DEF IsCStr
    <3>5. Front(t) = s
      <4>1. Front(t) = SubSeq(t, 1, n)
        BY <2>1, <2>2 DEF Front
      <4>2. t = s \o <<NUL>>
        BY <2>1, AppendIsConcat DEF t, NUL
      <4>3. SubSeq(s \o <<NUL>>, 1, n) = SubSeq(s, 1, n)
        BY <2>1, LeftPart DEF NUL
      <4>4. SubSeq(s, 1, n) = s
        BY <2>1, SubSeqFull
      <4> QED
        BY <4>1, <4>2, <4>3, <4>4
    <3> QED
      BY <2>1, <2>2, <2>4, <2>6, <3>3, <3>4, <3>5 DEF Size
  <2> QED
    BY <2>5, <2>6
<1> QED
  BY <1>1, <1>2

-----------------------------------------------------------------------------
(* The message. *)

\* What the wrapper hands to the C client for q.
Strs(q) == enter_rocker(Spelled(q)).strs

Sizes(q) == [i \in 1..(3 + Slots) |-> Size(Strs(q)[i])]

\* What sendmsg is given.
Iovs(q) == [i \in 1..(3 + Slots) |-> Iov(Strs(q)[i])]

Packed(q) == recvfrom(ROCKER_parse_request(enter_rocker(Spelled(q))))

LEMMA SpelledValue ==
    ASSUME NEW q \in Requests
    PROVE  /\ Spelled(q) = [app_id |-> q.app_id, uid |-> q.uid, gid |-> q.gid,
                            pkg |-> Str(q.pkg, 1), exec |-> Str(q.exec, 2),
                            data |-> Str(q.data, 3),
                            overlay |-> [i \in DOMAIN q.overlay |-> Str(q.overlay[i], 3 + i)]]
           /\ {q.pkg, q.exec, q.data} \subseteq Strings
           /\ q.overlay \in Seq(Strings)
           /\ \A i \in 1..Len(q.overlay) : q.overlay[i] \in Strings
           /\ Spelled(q).overlay \in Seq(Seq(Nat))
           /\ Len(Spelled(q).overlay) = Len(q.overlay)
           /\ \A i \in 1..Len(q.overlay) :
                 Spelled(q).overlay[i] = Str(q.overlay[i], 3 + i) /\ IsStr(Str(q.overlay[i], 3 + i))
<1>1. Spelled(q) = [app_id |-> q.app_id, uid |-> q.uid, gid |-> q.gid,
                    pkg |-> Str(q.pkg, 1), exec |-> Str(q.exec, 2),
                    data |-> Str(q.data, 3),
                    overlay |-> [i \in DOMAIN q.overlay |-> Str(q.overlay[i], 3 + i)]]
  BY DEF Spelled
<1>2. {q.pkg, q.exec, q.data} \subseteq Strings /\ q.overlay \in Overlays
  BY DEF Requests
<1>3. PICK n \in 0..MaxOverlay : q.overlay \in [1..n -> Strings]
  BY <1>2 DEF Overlays
<1>4. n \in Nat /\ q.overlay \in Seq(Strings) /\ Len(q.overlay) = n /\ DOMAIN q.overlay = 1..n
  BY <1>3, CodecAssumption
<1>5. \A i \in 1..n : q.overlay[i] \in Strings
  BY <1>3
<1> DEFINE o == [i \in 1..n |-> Str(q.overlay[i], 3 + i)]
<1>6. Spelled(q).overlay = o
  BY <1>1, <1>4
<1>7. ASSUME NEW i \in 1..n
      PROVE  o[i] = Str(q.overlay[i], 3 + i) /\ IsStr(o[i]) /\ o[i] \in Seq(Nat)
  <2>1. 3 + i \in Nat \ {NUL}
    BY DEF NUL
  <2>2. IsStr(Str(q.overlay[i], 3 + i))
    BY <1>5, <2>1, StrValue
  <2>3. Str(q.overlay[i], 3 + i) \in Seq(Nat)
    BY <2>2, SeqMonotonic DEF IsStr
  <2> QED
    BY <2>2, <2>3
<1>8. o \in [1..n -> Seq(Nat)]
  BY <1>7
<1>9. o \in Seq(Seq(Nat)) /\ Len(o) = n
  BY <1>4, <1>8
<1> HIDE DEF o
<1> QED
  BY <1>1, <1>2, <1>4, <1>5, <1>6, <1>7, <1>9

LEMMA StrsValue ==
    ASSUME NEW q \in Requests
    PROVE  /\ Len(Strs(q)) = 3 + Slots
           /\ DOMAIN Strs(q) = 1..(3 + Slots)
           /\ Strs(q)[1] = Str(q.pkg, 1)
           /\ Strs(q)[2] = Str(q.exec, 2)
           /\ Strs(q)[3] = Str(q.data, 3)
           /\ \A i \in 1..Slots :
                 Strs(q)[3 + i] = IF i <= Len(q.overlay) THEN Str(q.overlay[i], 3 + i) ELSE Nil
           /\ \A i \in 1..(3 + Slots) : Strs(q)[i] = Nil \/ IsStr(Strs(q)[i])
<1> DEFINE S == Seq(Nat) \cup {Nil}
           a == <<Str(q.pkg, 1), Str(q.exec, 2), Str(q.data, 3)>>
           b == [i \in 1..Slots |-> IF i <= Len(q.overlay) THEN Str(q.overlay[i], 3 + i) ELSE Nil]
<1>1. Strs(q) = a \o b
  <2>1. b = [i \in 1..Slots |-> IF i <= Len(Spelled(q).overlay) THEN Spelled(q).overlay[i] ELSE Nil]
    BY SpelledValue, CodecAssumption
  <2>2. /\ Spelled(q).pkg = Str(q.pkg, 1)
        /\ Spelled(q).exec = Str(q.exec, 2)
        /\ Spelled(q).data = Str(q.data, 3)
    BY SpelledValue
  <2> HIDE DEF b
  <2> QED
    BY <2>1, <2>2 DEF Strs, enter_rocker
<1>2. \A i \in 1..3 : IsStr(a[i])
  <2>1. IsStr(Str(q.pkg, 1)) /\ IsStr(Str(q.exec, 2)) /\ IsStr(Str(q.data, 3))
    BY SpelledValue, StrValue DEF NUL
  <2> QED
    BY <2>1
<1>3. \A i \in 1..Slots : b[i] = Nil \/ IsStr(b[i])
  BY SpelledValue, CodecAssumption
<1>4. \A x : IsStr(x) => x \in S
  BY SeqMonotonic DEF IsStr
<1>5. a \in Seq(S) /\ Len(a) = 3
  BY <1>2, <1>4
<1>6. b \in Seq(S) /\ Len(b) = Slots
  <2>1. b \in [1..Slots -> S]
    BY <1>3, <1>4
  <2> QED
    BY <2>1, CodecAssumption
<1> DEFINE c == a \o b
<1>7. /\ c \in Seq(S) /\ Len(c) = 3 + Slots
      /\ \A i \in 1..(3 + Slots) : c[i] = IF i <= 3 THEN a[i] ELSE b[i - 3]
  <2> HIDE DEF a, b, S
  <2> QED
    <3>1. /\ c \in Seq(S) /\ Len(c) = Len(a) + Len(b)
          /\ \A i \in 1..(Len(a) + Len(b)) :
                c[i] = IF i <= Len(a) THEN a[i] ELSE b[i - Len(a)]
      BY <1>5, <1>6, ConcatProperties, Zenon
    <3> QED
      BY <1>5, <1>6, <3>1
<1>8. DOMAIN c = 1..(3 + Slots)
  <2> HIDE DEF c, S
  <2> QED
    BY <1>7, LenProperties
<1>9. \A i \in 1..3 : i \in 1..(3 + Slots) /\ c[i] = a[i]
  <2> HIDE DEF a, b, c
  <2> QED
    BY <1>7, CodecAssumption
<1>10. \A i \in 1..Slots : c[3 + i] = b[i]
  <2>1. \A i \in 1..Slots : 3 + i \in 1..(3 + Slots) /\ ~ (3 + i <= 3) /\ (3 + i) - 3 = i
    BY CodecAssumption
  <2> HIDE DEF a, b, c
  <2> QED
    BY <1>7, <2>1
<1>11. ASSUME NEW i \in 1..(3 + Slots)
       PROVE  c[i] = Nil \/ IsStr(c[i])
  <2>1. i \in 1..3 \/ i - 3 \in 1..Slots
    BY CodecAssumption
  <2>2. i \in 1..3 <=> i <= 3
    BY CodecAssumption
  <2> HIDE DEF a, b, c
  <2> QED
    BY <1>2, <1>3, <1>7, <2>1, <2>2
<1>12. \A i \in 1..Slots :
          c[3 + i] = IF i <= Len(q.overlay) THEN Str(q.overlay[i], 3 + i) ELSE Nil
  <2> HIDE DEF c, a
  <2> QED
    BY <1>10
<1>13. c[1] = Str(q.pkg, 1) /\ c[2] = Str(q.exec, 2) /\ c[3] = Str(q.data, 3)
  <2> HIDE DEF b, c
  <2> QED
    BY <1>9
<1> HIDE DEF c
<1> QED
  BY <1>1, <1>7, <1>8, <1>11, <1>12, <1>13 DEF c

LEMMA SizesValue ==
    ASSUME NEW q \in Requests
    PROVE  /\ Sizes(q) \in Seq(Nat) /\ Len(Sizes(q)) = 3 + Slots
           /\ \A i \in 1..(3 + Slots) : Sizes(q)[i] = Size(Strs(q)[i])
           /\ Iovs(q) \in Seq(Seq(Nat)) /\ Len(Iovs(q)) = 3 + Slots
           /\ \A i \in 1..(3 + Slots) : Iovs(q)[i] = Iov(Strs(q)[i])
           /\ \A i \in 1..(3 + Slots) : Len(Iovs(q)[i]) = Sizes(q)[i]
<1>1. \A i \in 1..(3 + Slots) : Size(Strs(q)[i]) \in Nat
  BY StrsValue, IovValue
<1>2. \A i \in 1..(3 + Slots) :
         Iov(Strs(q)[i]) \in Seq(Nat) /\ Len(Iov(Strs(q)[i])) = Size(Strs(q)[i])
  BY StrsValue, IovValue
<1>3. Sizes(q) \in [1..(3 + Slots) -> Nat]
  BY <1>1 DEF Sizes
<1>4. Iovs(q) \in [1..(3 + Slots) -> Seq(Nat)]
  BY <1>2 DEF Iovs
<1>5. 3 + Slots \in Nat
  BY CodecAssumption
<1>6. Sizes(q) \in Seq(Nat) /\ Len(Sizes(q)) = 3 + Slots
  BY <1>3, <1>5
<1>7. Iovs(q) \in Seq(Seq(Nat)) /\ Len(Iovs(q)) = 3 + Slots
  BY <1>4, <1>5
<1>8. \A i \in 1..(3 + Slots) : Sizes(q)[i] = Size(Strs(q)[i]) /\ Iovs(q)[i] = Iov(Strs(q)[i])
  BY DEF Sizes, Iovs
<1> QED
  BY <1>2, <1>6, <1>7, <1>8

\* The three numbers.
Numbers(q) == <<c_int(q.app_id), c_int(q.uid), IF q.gid = NoGid THEN -1 ELSE c_int(q.gid)>>

LEMMA c_intValue ==
    ASSUME NEW v \in Ids
    PROVE  c_int(v) \in Int /\ v \in Nat /\ (c_int(v) > 0 => c_int(v) = v)
           /\ (c_int(v) > 0 <=> v \in 1..(Word \div 2 - 1))
<1>1. v \in Nat /\ v <= Word - 1 /\ Word \in Nat /\ Word \div 2 \in Nat
  BY CodecAssumption
<1> QED
  BY <1>1 DEF c_int

LEMMA NumbersValue ==
    ASSUME NEW q \in Requests
    PROVE  /\ Numbers(q) \in Seq(Int) /\ Len(Numbers(q)) = 3
           /\ Numbers(q)[1] = c_int(q.app_id) /\ Numbers(q)[2] = c_int(q.uid)
           /\ Numbers(q)[3] = IF q.gid = NoGid THEN -1 ELSE c_int(q.gid)
           /\ q.app_id \in Ids /\ q.uid \in Ids /\ (q.gid # NoGid => q.gid \in Ids)
<1>1. q.app_id \in Ids /\ q.uid \in Ids /\ (q.gid # NoGid => q.gid \in Ids)
  BY DEF Requests
<1>2. /\ c_int(q.app_id) \in Int /\ c_int(q.uid) \in Int
      /\ (IF q.gid = NoGid THEN -1 ELSE c_int(q.gid)) \in Int
  BY <1>1, c_intValue
<1> QED
  BY <1>1, <1>2 DEF Numbers

\* What the server has of q: the numbers, negative ones made 0, the sizes of the
\* strings, and, when the buffer has the room, all of the strings.
LEMMA PackedValue ==
    ASSUME NEW q \in Requests
    PROVE  LET w == Packed(q)
           IN  /\ \A i \in 1..3 : Metas(w)[i] = IF Numbers(q)[i] < 0 THEN 0 ELSE Numbers(q)[i]
               /\ \A i \in 1..(3 + Slots) : Metas(w)[3 + i] = Sizes(q)[i]
               /\ Lens(w) = Sizes(q)
               /\ Fits(w) <=> Total(Sizes(q)) <= Room
               /\ Fits(w) => w.bytes = FlattenSeq(Iovs(q))
<1> DEFINE w == Packed(q)
           c == enter_rocker(Spelled(q))
           d == ROCKER_parse_request(c)
           ids == Numbers(q)
           sizes == Sizes(q)
           m == ids \o sizes
           bytes == FlattenSeq(Iovs(q))
<1>1. Slots \in Nat /\ Room \in Nat
  BY CodecAssumption
<1>2. c.ids = ids /\ c.strs = Strs(q)
  <2>1. Spelled(q).app_id = q.app_id /\ Spelled(q).uid = q.uid /\ Spelled(q).gid = q.gid
    BY SpelledValue
  <2> QED
    BY <2>1 DEF enter_rocker, Numbers, Strs
<1>3. d.meta = m /\ d.bytes = bytes
  <2>1. DOMAIN Strs(q) = 1..(3 + Slots)
    BY StrsValue
  <2>2. [i \in 1..(3 + Slots) |-> strlenNul(Strs(q)[i])] = sizes
    BY StrsValue, IovValue DEF Sizes
  <2>3. [i \in 1..(3 + Slots) |-> Iov(Strs(q)[i])] = Iovs(q)
    BY DEF Iovs
  <2> HIDE DEF c, ids, sizes
  <2>4. d = [meta |-> c.ids \o [i \in DOMAIN c.strs |-> strlenNul(c.strs[i])],
             bytes |-> FlattenSeq([i \in DOMAIN c.strs |-> Iov(c.strs[i])])]
    BY DEF ROCKER_parse_request
  <2> HIDE DEF d
  <2> QED
    BY <1>2, <2>1, <2>2, <2>3, <2>4
<1>4. bytes \in Seq(Nat) /\ Len(bytes) = Total(sizes)
  BY SizesValue, Pieces
<1> DEFINE got == IF Len(bytes) < Room THEN Len(bytes) ELSE Room
<1>5. w.meta = m /\ w.bytes = SubSeq(bytes, 1, got)
  <2>1. w = recvfrom(d)
    BY DEF Packed
  <2>2. d = [meta |-> d.meta, bytes |-> d.bytes]
    BY DEF ROCKER_parse_request
  <2> HIDE DEF d, w, bytes, m
  <2> QED
    BY <1>3, <2>1, <2>2 DEF recvfrom
<1> HIDE DEF w, c, d, ids, sizes, m, bytes
<1>6. /\ m \in Seq(Int) /\ Len(m) = 6 + Slots /\ DOMAIN m = 1..(6 + Slots)
      /\ \A i \in 1..3 : m[i] = ids[i] /\ ids[i] \in Int
      /\ \A i \in 1..(3 + Slots) : m[3 + i] = sizes[i] /\ sizes[i] \in Nat
  <2>1. ids \in Seq(Int) /\ Len(ids) = 3
    BY NumbersValue DEF ids
  <2>2. sizes \in Seq(Nat) /\ sizes \in Seq(Int) /\ Len(sizes) = 3 + Slots
    BY SizesValue, SeqMonotonic DEF sizes
  <2>3. /\ m \in Seq(Int) /\ Len(m) = Len(ids) + Len(sizes)
        /\ \A i \in 1..(Len(ids) + Len(sizes)) :
              m[i] = IF i <= Len(ids) THEN ids[i] ELSE sizes[i - Len(ids)]
    BY <2>1, <2>2, ConcatProperties, Zenon DEF m
  <2>4. \A i \in 1..3 : i \in 1..(3 + (3 + Slots)) /\ i <= 3
    BY <1>1
  <2>5. \A i \in 1..(3 + Slots) :
           3 + i \in 1..(3 + (3 + Slots)) /\ ~ (3 + i <= 3) /\ (3 + i) - 3 = i
    BY <1>1
  <2>6. \A i \in 1..3 : m[i] = ids[i] /\ ids[i] \in Int
    BY <2>1, <2>2, <2>3, <2>4, ElementOfSeq
  <2>7. \A i \in 1..(3 + Slots) : m[3 + i] = sizes[i] /\ sizes[i] \in Nat
    BY <2>1, <2>2, <2>3, <2>5, ElementOfSeq
  <2> QED
    BY <1>1, <2>1, <2>2, <2>3, <2>6, <2>7, LenProperties
<1> DEFINE metas == Metas(w)
<1>7. metas = [i \in 1..(6 + Slots) |-> IF m[i] < 0 THEN 0 ELSE m[i]]
  BY <1>5, <1>6 DEF Metas
<1> HIDE DEF metas
<1>8. \A i \in 1..3 : metas[i] = IF ids[i] < 0 THEN 0 ELSE ids[i]
  BY <1>1, <1>6, <1>7
<1>9. ASSUME NEW i \in 1..(3 + Slots)
      PROVE  metas[3 + i] = sizes[i]
  <2>1. 3 + i \in 1..(6 + Slots)
    BY <1>1
  <2>2. m[3 + i] = sizes[i] /\ ~ (sizes[i] < 0)
    BY <1>6
  <2> QED
    BY <1>7, <2>1, <2>2
<1>10. Lens(w) = sizes
  <2>1. 4 \in Int /\ 6 + Slots \in Int /\ (6 + Slots) - 4 + 1 = 3 + Slots /\ 4 <= 6 + Slots
    BY <1>1
  <2>2. \A i \in 4..(6 + Slots) : metas[i] \in Nat
    <3>1. \A i \in 4..(6 + Slots) : i - 3 \in 1..(3 + Slots) /\ 3 + (i - 3) = i
      BY <1>1
    <3> QED
      BY <1>6, <1>9, <3>1
  <2>3. Lens(w) = SubSeq(metas, 4, 6 + Slots)
    BY DEF Lens, metas
  <2>4. /\ SubSeq(metas, 4, 6 + Slots) \in Seq(Nat)
        /\ Len(SubSeq(metas, 4, 6 + Slots)) = 3 + Slots
        /\ \A i \in 1..(3 + Slots) : SubSeq(metas, 4, 6 + Slots)[i] = metas[4 + i - 1]
    BY <2>1, <2>2, SubSeqProperties
  <2>5. sizes \in Seq(Nat) /\ Len(sizes) = 3 + Slots
    BY SizesValue DEF sizes
  <2>6. \A i \in 1..(3 + Slots) : SubSeq(metas, 4, 6 + Slots)[i] = sizes[i]
    <3>1. \A i \in 1..(3 + Slots) : 4 + i - 1 = 3 + i
      BY <1>1
    <3> QED
      BY <1>9, <2>4, <3>1
  <2>7. SubSeq(metas, 4, 6 + Slots) = sizes
    BY <2>4, <2>5, <2>6, SeqEqual
  <2> QED
    BY <2>3, <2>7
<1>11. Len(w.bytes) = got /\ (Len(bytes) <= Room => w.bytes = bytes)
  <2>1. Len(bytes) \in Nat /\ got \in 0..Len(bytes)
    BY <1>1, <1>4, LenProperties
  <2>2. \A i \in 1..got : bytes[i] \in Nat
    BY <1>4, <2>1, ElementOfSeq
  <2>3. Len(w.bytes) = got
    <3> HIDE DEF got
    <3>1. 1 \in Int /\ got \in Int /\ (IF 1 <= got THEN got - 1 + 1 ELSE 0) = got
      BY <2>1
    <3>2. Len(SubSeq(bytes, 1, got)) = IF 1 <= got THEN got - 1 + 1 ELSE 0
      BY <2>2, <3>1, SubSeqProperties
    <3> QED
      BY <1>5, <3>1, <3>2
  <2>4. Len(bytes) <= Room => got = Len(bytes)
    BY <1>1, <2>1
  <2> HIDE DEF got
  <2>5. SubSeq(bytes, 1, Len(bytes)) = bytes
    BY <1>4, SubSeqFull
  <2> QED
    BY <1>5, <2>3, <2>4, <2>5
<1>12. Fits(w) <=> Total(sizes) <= Room
  <2>1. Len(bytes) \in Nat
    BY <1>4, LenProperties
  <2> QED
    BY <1>1, <1>4, <1>10, <1>11, <2>1 DEF Fits
<1>13. Fits(w) => w.bytes = bytes
  BY <1>4, <1>11, <1>12
<1> QED
  BY <1>8, <1>9, <1>10, <1>12, <1>13 DEF w, ids, sizes, bytes, metas

-----------------------------------------------------------------------------
(* The paths. *)

LEMMA JoinOne ==
    ASSUME NEW T, NEW a \in T, NEW b \in T, NEW c \in T
    PROVE  <<a>> \o <<b>> = <<a, b>> /\ <<a, b>> \o <<c>> = <<a, b, c>>
<1>1. /\ <<a>> \in Seq(T) /\ <<b>> \in Seq(T) /\ <<c>> \in Seq(T)
      /\ <<a, b>> \in Seq(T) /\ <<a, b, c>> \in Seq(T)
  OBVIOUS
<1>2. /\ Len(<<a>>) = 1 /\ Len(<<b>>) = 1 /\ Len(<<c>>) = 1
      /\ Len(<<a, b>>) = 2 /\ Len(<<a, b, c>>) = 3
  OBVIOUS
<1>3. <<a>> \o <<b>> = <<a, b>>
  <2>1. /\ <<a>> \o <<b>> \in Seq(T) /\ Len(<<a>> \o <<b>>) = 2
        /\ \A i \in 1..2 : (<<a>> \o <<b>>)[i] = IF i <= 1 THEN <<a>>[i] ELSE <<b>>[i - 1]
    BY <1>1, <1>2, ConcatProperties
  <2>2. \A i \in 1..2 : <<a, b>>[i] = IF i <= 1 THEN <<a>>[i] ELSE <<b>>[i - 1]
    OBVIOUS
  <2> DEFINE x == <<a>> \o <<b>>
             y == <<a, b>>
  <2>3. x \in Seq(T) /\ y \in Seq(T) /\ Len(x) = 2 /\ Len(y) = 2 /\ \A i \in 1..2 : x[i] = y[i]
    BY <1>1, <1>2, <2>1, <2>2
  <2> HIDE DEF x, y
  <2>4. x = y
    BY <2>3, SeqEqual
  <2> QED
    BY <2>4 DEF x, y
<1>4. <<a, b>> \o <<c>> = <<a, b, c>>
  <2>1. /\ <<a, b>> \o <<c>> \in Seq(T) /\ Len(<<a, b>> \o <<c>>) = 3
        /\ \A i \in 1..3 :
              (<<a, b>> \o <<c>>)[i] = IF i <= 2 THEN <<a, b>>[i] ELSE <<c>>[i - 2]
    BY <1>1, <1>2, ConcatProperties
  <2>2. \A i \in 1..3 : <<a, b, c>>[i] = IF i <= 2 THEN <<a, b>>[i] ELSE <<c>>[i - 2]
    OBVIOUS
  <2> DEFINE x == <<a, b>> \o <<c>>
             y == <<a, b, c>>
  <2>3. x \in Seq(T) /\ y \in Seq(T) /\ Len(x) = 3 /\ Len(y) = 3 /\ \A i \in 1..3 : x[i] = y[i]
    BY <1>1, <1>2, <2>1, <2>2
  <2> HIDE DEF x, y
  <2>4. x = y
    BY <2>3, SeqEqual
  <2> QED
    BY <2>4 DEF x, y
<1> QED
  BY <1>3, <1>4

IsJoin(ab, a, b) == ab = a \o b

LEMMA JoinJoined ==
    ASSUME NEW T, NEW a \in Seq(T), NEW b \in Seq(T), NEW c \in Seq(T),
           NEW ab, IsJoin(ab, a, b), NEW bc, IsJoin(bc, b, c), NEW abc, IsJoin(abc, ab, c)
    PROVE  IsJoin(abc, a, bc)
  BY ConcatAssociative DEF IsJoin

\* Three sequences of one, then others.
LEMMA FlattenAfterThree ==
    ASSUME NEW T, NEW s \in Seq(Seq(T)), NEW t \in Seq(Seq(T)), Len(t) = 3 + Len(s),
           NEW a1 \in T, NEW a2 \in T, NEW a3 \in T,
           t[1] = <<a1>>, t[2] = <<a2>>, t[3] = <<a3>>,
           \A i \in 1..Len(s) : t[3 + i] = s[i]
    PROVE  /\ FlattenSeq(t) = <<a1, a2, a3>> \o FlattenSeq(s)
           /\ FlattenSeq(s) \in Seq(T)
<1> DEFINE n == Len(s)
           A == <<a1, a2, a3>>
<1>1. n \in Nat /\ Len(t) = 3 + n /\ \A i \in 1..n : s[i] \in Seq(T)
  BY LenProperties, ElementOfSeq
<1>2. PICK g \in [0..n -> Seq(T)] : /\ g[0] = <<>>
                                    /\ \A i \in 1..n : g[i] = g[i - 1] \o s[i]
                                    /\ FlattenSeq(s) = g[n]
  BY FlattenValue
<1>3. PICK f \in [0..(3 + n) -> Seq(T)] : /\ f[0] = <<>>
                                          /\ \A i \in 1..(3 + n) : f[i] = f[i - 1] \o t[i]
                                          /\ FlattenSeq(t) = f[3 + n]
  <2>1. \E f \in [0..Len(t) -> Seq(T)] : /\ f[0] = <<>>
                                         /\ \A i \in 1..Len(t) : f[i] = f[i - 1] \o t[i]
                                         /\ FlattenSeq(t) = f[Len(t)]
    BY FlattenValue
  <2> HIDE DEF n
  <2> QED
    BY <1>1, <2>1
<1>4. A \in Seq(T)
  OBVIOUS
<1> HIDE DEF n
<1>5. f[3] = A
  <2>1. f[1] = f[0] \o t[1] /\ f[2] = f[1] \o t[2] /\ f[3] = f[2] \o t[3]
    <3>1. 1 \in 1..(3 + n) /\ 2 \in 1..(3 + n) /\ 3 \in 1..(3 + n)
      BY <1>1
    <3>2. 1 - 1 = 0 /\ 2 - 1 = 1 /\ 3 - 1 = 2
      OBVIOUS
    <3> QED
      BY <1>3, <3>1, <3>2
  <2>2. f[1] = <<a1>>
    <3>1. <<>> \o <<a1>> = <<a1>>
      OBVIOUS
    <3> QED
      BY <1>3, <2>1, <3>1
  <2>3. f[2] = <<a1, a2>>
    <3>1. <<a1>> \o <<a2>> = <<a1, a2>>
      BY JoinOne
    <3> QED
      BY <2>1, <2>2, <3>1
  <2>4. <<a1, a2>> \o <<a3>> = A
    BY JoinOne DEF A
  <2> QED
    BY <2>1, <2>3, <2>4
<1> HIDE DEF A
<1> DEFINE G == {j \in 0..n : f[3 + j] = A \o g[j]}
<1>6. 0 \in G
  <2>1. A \o <<>> = A
    BY <1>4, ConcatEmptySeq
  <2>2. 3 + 0 = 3 /\ 0 \in 0..n
    BY <1>1
  <2> QED
    BY <1>2, <1>5, <2>1, <2>2
<1>7. ASSUME NEW j \in 1..n, j - 1 \in G
      PROVE  j \in G
  <2>1. /\ 3 + j \in 1..(3 + n) /\ (3 + j) - 1 = 3 + (j - 1)
        /\ j - 1 \in 0..n /\ j \in 0..n
    BY <1>1
  <2>2. f[3 + j] = f[3 + (j - 1)] \o t[3 + j]
    BY <1>3, <2>1
  <2>3. f[3 + (j - 1)] = A \o g[j - 1] /\ t[3 + j] = s[j]
    BY <1>7 DEF n
  <2>4. g[j - 1] \in Seq(T) /\ s[j] \in Seq(T)
    BY <1>1, <1>2, <2>1
  <2>5. g[j] = g[j - 1] \o s[j]
    BY <1>2
  <2>6. f[3 + j] = f[3 + (j - 1)] \o s[j]
    BY <2>2, <2>3
  <2>7. f[3 + j] = A \o g[j]
    <3>1. /\ IsJoin(f[3 + (j - 1)], A, g[j - 1])
          /\ IsJoin(g[j], g[j - 1], s[j])
          /\ IsJoin(f[3 + j], f[3 + (j - 1)], s[j])
      BY <2>3, <2>5, <2>6 DEF IsJoin
    <3>2. IsJoin(f[3 + j], A, g[j])
      <4>1. \A x, y \in Seq(T) : \A ab, bc, abc :
               IsJoin(ab, A, x) /\ IsJoin(bc, x, y) /\ IsJoin(abc, ab, y) => IsJoin(abc, A, bc)
        BY <1>4, JoinJoined, Zenon
      <4> QED
        BY <2>4, <3>1, <4>1
    <3> QED
      BY <3>2 DEF IsJoin
  <2> QED
    BY <2>1, <2>7
<1>8. n \in G
  <2> HIDE DEF G
  <2>1. \A j \in 0..n : j \in G
    BY <1>1, <1>6, <1>7, Induction, Zenon
  <2> QED
    BY <1>1, <2>1
<1>9. FlattenSeq(t) = A \o FlattenSeq(s)
  BY <1>2, <1>3, <1>8
<1>10. FlattenSeq(s) \in Seq(T)
  BY <1>1, <1>2
<1> QED
  BY <1>9, <1>10 DEF A

\* The parts Kept joins.
KeptParts(overlay) ==
    [i \in 1..Slots |-> IF i <= Len(overlay) /\ overlay[i] # <<>> THEN <<overlay[i]>> ELSE <<>>]

LEMMA PathsValue ==
    ASSUME NEW q \in Requests, Fits(Packed(q)), \A i \in 1..3 : Sizes(q)[i] # 0
    PROVE  /\ Paths(Packed(q)) = <<Spelled(q).pkg, Spelled(q).exec, Spelled(q).data>>
                                    \o Kept(Spelled(q).overlay)
           /\ {Spelled(q).pkg, Spelled(q).exec, Spelled(q).data} \subseteq Seq(Nat)
           /\ Kept(Spelled(q).overlay) \in Seq(Seq(Nat))
           /\ \A i \in Given(Packed(q)) : IsCStr(Piece(Packed(q), i))
<1> DEFINE w == Packed(q)
           str == Strs(q)
           o == Spelled(q).overlay
           there(i) == str[i] \notin {Nil, <<>>}
           parts == [i \in 1..(3 + Slots) |-> IF there(i) THEN <<str[i]>> ELSE <<>>]
<1>1. Slots \in Nat
  BY CodecAssumption
<1>2. \A i \in 1..(3 + Slots) : str[i] = Nil \/ IsStr(str[i])
  BY StrsValue
<1>3. \A i \in 1..(3 + Slots) : there(i) => str[i] \in Seq(Nat)
  BY <1>2, SeqMonotonic DEF IsStr
<1>4. ASSUME NEW i \in 1..(3 + Slots)
      PROVE  Sizes(q)[i] # 0 <=> there(i)
  <2>1. Sizes(q)[i] = Size(str[i])
    BY SizesValue
  <2>2. there(i) => Len(str[i]) \in Nat
    BY <1>3, LenProperties
  <2> QED
    BY <2>1, <2>2 DEF Size
<1>5. Given(w) = {i \in 1..(3 + Slots) : there(i)}
  <2>1. Lens(w) = Sizes(q)
    BY PackedValue
  <2> HIDE DEF w, there
  <2> QED
    BY <1>4, <2>1 DEF Given
<1>6. ASSUME NEW i \in 1..(3 + Slots)
      PROVE  Piece(w, i) = Iov(str[i])
  <2>1. w.bytes = FlattenSeq(Iovs(q)) /\ Lens(w) = Sizes(q)
    BY PackedValue
  <2>2. SubSeq(FlattenSeq(Iovs(q)), Ends(Sizes(q))[i - 1] + 1, Ends(Sizes(q))[i]) = Iovs(q)[i]
    <3>1. /\ Iovs(q) \in Seq(Seq(Nat)) /\ Sizes(q) \in Seq(Nat)
          /\ Len(Iovs(q)) = 3 + Slots /\ Len(Sizes(q)) = Len(Iovs(q))
          /\ \A j \in 1..Len(Iovs(q)) : Len(Iovs(q)[j]) = Sizes(q)[j]
      BY SizesValue
    <3>2. \A j \in 1..Len(Iovs(q)) :
             SubSeq(FlattenSeq(Iovs(q)), Ends(Sizes(q))[j - 1] + 1, Ends(Sizes(q))[j])
                = Iovs(q)[j]
      BY <3>1, Pieces
    <3> QED
      BY <3>1, <3>2
  <2>3. Iovs(q)[i] = Iov(str[i])
    BY SizesValue
  <2> HIDE DEF w, str
  <2> QED
    BY <2>1, <2>2, <2>3 DEF Piece
<1>7. ASSUME NEW i \in 1..(3 + Slots), there(i)
      PROVE  IsCStr(Piece(w, i)) /\ Front(Piece(w, i)) = str[i]
  <2>1. IsCStr(Iov(str[i])) /\ Front(Iov(str[i])) = str[i]
    BY <1>2, <1>7, IovValue
  <2> QED
    BY <1>6, <2>1
<1>8. Paths(w) = FlattenSeq(parts)
  <2>1. [i \in 1..(3 + Slots) |-> IF i \in Given(w) THEN <<Front(Piece(w, i))>> ELSE <<>>] = parts
    <3> HIDE DEF w, str
    <3> QED
      BY <1>5, <1>7
  <2> QED
    BY <2>1, Zenon DEF Paths
<1>9. o \in Seq(Seq(Nat)) /\ Len(o) = Len(q.overlay)
  BY SpelledValue
<1>10. KeptParts(o) \in Seq(Seq(Seq(Nat))) /\ Len(KeptParts(o)) = Slots
  <2>1. \A i \in 1..Slots : i <= Len(o) => i \in 1..Len(o)
    BY <1>1
  <2>2. \A i \in 1..Slots : i <= Len(o) => o[i] \in Seq(Nat)
    BY <1>9, <2>1, ElementOfSeq
  <2> HIDE DEF o
  <2>3. \A i \in 1..Slots : KeptParts(o)[i] \in Seq(Seq(Nat))
    BY <2>2 DEF KeptParts
  <2>4. KeptParts(o) \in [1..Slots -> Seq(Seq(Nat))]
    BY <2>3 DEF KeptParts
  <2> QED
    BY <1>1, <2>4
<1>11. parts \in Seq(Seq(Seq(Nat))) /\ Len(parts) = 3 + Slots
  <2>1. \A i \in 1..(3 + Slots) : parts[i] \in Seq(Seq(Nat))
    <3> HIDE DEF str
    <3> QED
      BY <1>3
  <2>2. parts \in [1..(3 + Slots) -> Seq(Seq(Nat))]
    <3> HIDE DEF str, there
    <3> QED
      BY <2>1
  <2> HIDE DEF parts
  <2> QED
    BY <1>1, <2>2
<1>12. /\ str[1] = Spelled(q).pkg /\ str[2] = Spelled(q).exec /\ str[3] = Spelled(q).data
       /\ there(1) /\ there(2) /\ there(3)
       /\ 1 \in 1..(3 + Slots) /\ 2 \in 1..(3 + Slots) /\ 3 \in 1..(3 + Slots)
  <2>1. 1 \in 1..(3 + Slots) /\ 2 \in 1..(3 + Slots) /\ 3 \in 1..(3 + Slots)
    BY <1>1
  <2>2. /\ Spelled(q).pkg = Str(q.pkg, 1) /\ Spelled(q).exec = Str(q.exec, 2)
        /\ Spelled(q).data = Str(q.data, 3)
    BY SpelledValue
  <2>3. str[1] = Str(q.pkg, 1) /\ str[2] = Str(q.exec, 2) /\ str[3] = Str(q.data, 3)
    BY StrsValue
  <2> HIDE DEF there, str
  <2> QED
    BY <1>4, <2>1, <2>2, <2>3
<1>13. ASSUME NEW i \in 1..Slots
       PROVE  parts[3 + i] = KeptParts(o)[i]
  <2>1. 3 + i \in 1..(3 + Slots)
    BY <1>1
  <2>2. str[3 + i] = IF i <= Len(q.overlay) THEN Str(q.overlay[i], 3 + i) ELSE Nil
    BY StrsValue
  <2>3. i <= Len(q.overlay) => i \in 1..Len(q.overlay)
    BY <1>1, SpelledValue, LenProperties
  <2>4. i <= Len(o) => o[i] = Str(q.overlay[i], 3 + i) /\ IsStr(o[i])
    BY <1>9, <2>3, SpelledValue
  <2>5. i <= Len(o) => o[i] # Nil
    <3>1. Nil \notin Seq(Nat)
      BY NilAssumption
    <3> HIDE DEF o
    <3> QED
      BY <2>4, <3>1, SeqMonotonic DEF IsStr
  <2>6. there(3 + i) <=> i <= Len(o) /\ o[i] # <<>>
    <3> HIDE DEF o, str
    <3> QED
      BY <1>9, <2>2, <2>4, <2>5
  <2>7. i <= Len(o) => str[3 + i] = o[i]
    <3> HIDE DEF o, str
    <3> QED
      BY <1>9, <2>2, <2>4
  <2>8. parts[3 + i] = IF there(3 + i) THEN <<str[3 + i]>> ELSE <<>>
    <3> HIDE DEF str, there
    <3> QED
      BY <2>1
  <2> HIDE DEF parts, there, str, o
  <2> QED
    BY <2>6, <2>7, <2>8 DEF KeptParts
<1>14. parts[1] = <<str[1]>> /\ parts[2] = <<str[2]>> /\ parts[3] = <<str[3]>>
  <2> HIDE DEF str, there
  <2> QED
    BY <1>12
<1>15. str[1] \in Seq(Nat) /\ str[2] \in Seq(Nat) /\ str[3] \in Seq(Nat)
  BY <1>3, <1>12
<1>16. FlattenSeq(parts) = <<str[1], str[2], str[3]>> \o FlattenSeq(KeptParts(o))
       /\ FlattenSeq(KeptParts(o)) \in Seq(Seq(Nat))
  <2> HIDE DEF parts, str, o
  <2> QED
    BY <1>10, <1>11, <1>13, <1>14, <1>15, FlattenAfterThree
<1>17. FlattenSeq(KeptParts(o)) = Kept(o)
  BY Zenon DEF KeptParts, Kept
<1> HIDE DEF str, o, parts, there, w
<1> QED
  BY <1>5, <1>7, <1>8, <1>12, <1>15, <1>16, <1>17 DEF w, o

-----------------------------------------------------------------------------
(* The whole way. *)

\* What req_parse makes of q, when it takes it.
Asked(q) == [Spelled(q) EXCEPT !.overlay = Kept(@)]

LEMMA BytesValue ==
    ASSUME NEW n \in Strings, NEW k \in Nat \ {NUL}
    PROVE  Size(Str(n, k)) = Bytes(n) /\ (Bytes(n) # 0 <=> n # 0) /\ Bytes(n) \in Nat
<1>1. n \in Nat
  BY CodecAssumption
<1>2. Str(n, k) \in Seq(Nat) /\ Len(Str(n, k)) = n
  BY StrValue, SeqMonotonic DEF IsStr
<1>3. Str(n, k) # Nil
  BY <1>2, NilAssumption
<1>4. Str(n, k) = <<>> <=> n = 0
  BY <1>1, <1>2, EmptySeq
<1> QED
  BY <1>1, <1>2, <1>3, <1>4 DEF Size, Bytes

\* CanAsk in terms of what is sent.
LEMMA CanAskValue ==
    ASSUME NEW q \in Requests
    PROVE  CanAsk(q) <=> /\ \A i \in 1..3 : Numbers(q)[i] > 0
                         /\ \A i \in 1..3 : Sizes(q)[i] # 0
                         /\ Total(Sizes(q)) <= Room
<1> DEFINE a == <<Bytes(q.pkg), Bytes(q.exec), Bytes(q.data)>>
           b == [i \in 1..Slots |-> IF i <= Len(q.overlay) THEN Bytes(q.overlay[i]) ELSE 0]
<1>1. Slots \in Nat /\ {q.pkg, q.exec, q.data} \subseteq Strings
  BY SpelledValue, CodecAssumption
<1>2. \A i \in 1..Slots : i <= Len(q.overlay) => q.overlay[i] \in Strings
  BY SpelledValue, LenProperties
<1>3. /\ Sizes(q)[1] = Bytes(q.pkg) /\ Sizes(q)[2] = Bytes(q.exec) /\ Sizes(q)[3] = Bytes(q.data)
      /\ (Sizes(q)[1] # 0 <=> q.pkg # 0) /\ (Sizes(q)[2] # 0 <=> q.exec # 0)
      /\ (Sizes(q)[3] # 0 <=> q.data # 0)
      /\ a \in Seq(Nat)
  <2>1. 1 \in 1..(3 + Slots) /\ 2 \in 1..(3 + Slots) /\ 3 \in 1..(3 + Slots)
    BY <1>1
  <2>2. /\ Sizes(q)[1] = Size(Str(q.pkg, 1)) /\ Sizes(q)[2] = Size(Str(q.exec, 2))
        /\ Sizes(q)[3] = Size(Str(q.data, 3))
    BY <2>1, SizesValue, StrsValue
  <2>3. /\ Size(Str(q.pkg, 1)) = Bytes(q.pkg) /\ (Bytes(q.pkg) # 0 <=> q.pkg # 0)
        /\ Size(Str(q.exec, 2)) = Bytes(q.exec) /\ (Bytes(q.exec) # 0 <=> q.exec # 0)
        /\ Size(Str(q.data, 3)) = Bytes(q.data) /\ (Bytes(q.data) # 0 <=> q.data # 0)
        /\ Bytes(q.pkg) \in Nat /\ Bytes(q.exec) \in Nat /\ Bytes(q.data) \in Nat
    BY <1>1, BytesValue DEF NUL
  <2> QED
    BY <2>2, <2>3
<1>4. ASSUME NEW i \in 1..Slots
      PROVE  Sizes(q)[3 + i] = b[i] /\ b[i] \in Nat
  <2>1. 3 + i \in 1..(3 + Slots)
    BY <1>1
  <2>2. Sizes(q)[3 + i] = Size(IF i <= Len(q.overlay) THEN Str(q.overlay[i], 3 + i) ELSE Nil)
    BY <2>1, SizesValue, StrsValue
  <2>3. CASE i <= Len(q.overlay)
    <3>1. 3 + i \in Nat \ {NUL}
      BY DEF NUL
    <3>2. Size(Str(q.overlay[i], 3 + i)) = Bytes(q.overlay[i]) /\ Bytes(q.overlay[i]) \in Nat
      BY <1>2, <2>3, <3>1, BytesValue
    <3> QED
      BY <2>2, <2>3, <3>2
  <2>4. CASE ~ (i <= Len(q.overlay))
    BY <2>2, <2>4 DEF Size
  <2> QED
    BY <2>3, <2>4
<1>5. a \o b = Sizes(q)
  <2>1. b \in [1..Slots -> Nat]
    BY <1>4
  <2>2. b \in Seq(Nat) /\ Len(b) = Slots /\ a \in Seq(Nat) /\ Len(a) = 3
    BY <1>1, <1>3, <2>1
  <2>3. a[1] = Sizes(q)[1] /\ a[2] = Sizes(q)[2] /\ a[3] = Sizes(q)[3]
    BY <1>3
  <2> HIDE DEF a, b
  <2>4. /\ a \o b \in Seq(Nat) /\ Len(a \o b) = Len(a) + Len(b)
        /\ \A i \in 1..(Len(a) + Len(b)) :
              (a \o b)[i] = IF i <= Len(a) THEN a[i] ELSE b[i - Len(a)]
    BY <2>2, ConcatProperties, Zenon
  <2>5. ASSUME NEW i \in 1..(3 + Slots)
        PROVE  (a \o b)[i] = Sizes(q)[i]
    <3>1. (a \o b)[i] = IF i <= 3 THEN a[i] ELSE b[i - 3]
      BY <2>2, <2>4
    <3>2. CASE i <= 3
      <4>1. i = 1 \/ i = 2 \/ i = 3
        BY <3>2
      <4> QED
        BY <2>3, <3>1, <3>2, <4>1
    <3>3. CASE ~ (i <= 3)
      <4>1. i - 3 \in 1..Slots /\ 3 + (i - 3) = i
        BY <1>1, <3>3
      <4> QED
        BY <1>4, <3>1, <3>3, <4>1
    <3> QED
      BY <3>2, <3>3
  <2> DEFINE c == a \o b
  <2>6. c \in Seq(Nat) /\ Len(c) = 3 + Slots /\ \A i \in 1..(3 + Slots) : c[i] = Sizes(q)[i]
    BY <2>2, <2>4, <2>5
  <2>7. Sizes(q) \in Seq(Nat) /\ Len(Sizes(q)) = 3 + Slots
    BY SizesValue
  <2> HIDE DEF c
  <2>8. c = Sizes(q)
    BY <2>6, <2>7, SeqEqual
  <2> QED
    BY <2>8 DEF c
<1>6. (\A id \in {q.app_id, q.uid, q.gid} : id # NoGid /\ id \in 1..(Word \div 2 - 1))
         <=> \A i \in 1..3 : Numbers(q)[i] > 0
  <2>1. /\ c_int(q.app_id) > 0 <=> q.app_id \in 1..(Word \div 2 - 1)
        /\ c_int(q.uid) > 0 <=> q.uid \in 1..(Word \div 2 - 1)
        /\ q.gid # NoGid => (c_int(q.gid) > 0 <=> q.gid \in 1..(Word \div 2 - 1))
    BY NumbersValue, c_intValue
  <2>2. /\ Numbers(q)[1] > 0 <=> c_int(q.app_id) > 0
        /\ Numbers(q)[2] > 0 <=> c_int(q.uid) > 0
        /\ Numbers(q)[3] > 0 <=> q.gid # NoGid /\ c_int(q.gid) > 0
    BY NumbersValue
  <2>3. q.app_id # NoGid /\ q.uid # NoGid
    BY NumbersValue, c_intValue, NilAssumption
  <2>4. (\A i \in 1..3 : Numbers(q)[i] > 0) <=>
           Numbers(q)[1] > 0 /\ Numbers(q)[2] > 0 /\ Numbers(q)[3] > 0
    BY \A i \in 1..3 : i = 1 \/ i = 2 \/ i = 3
  <2> QED
    BY <2>1, <2>2, <2>3, <2>4, Zenon
<1>7. 0 \notin {q.pkg, q.exec, q.data} <=> \A i \in 1..3 : Sizes(q)[i] # 0
  <2>1. (\A i \in 1..3 : Sizes(q)[i] # 0) <=>
           Sizes(q)[1] # 0 /\ Sizes(q)[2] # 0 /\ Sizes(q)[3] # 0
    BY \A i \in 1..3 : i = 1 \/ i = 2 \/ i = 3
  <2> QED
    BY <1>3, <2>1
<1> HIDE DEF a, b
<1>8. CanAsk(q) <=> /\ \A id \in {q.app_id, q.uid, q.gid} : id # NoGid /\ id \in 1..(Word \div 2 - 1)
                    /\ 0 \notin {q.pkg, q.exec, q.data}
                    /\ Total(a \o b) <= Room
  BY Zenon DEF CanAsk, a, b
<1> QED
  BY <1>5, <1>6, <1>7, <1>8, Zenon

\* req_parse gets back what was asked, or refuses it.
THEOREM RoundTrip ==
    ASSUME NEW q \in Requests
    PROVE  /\ req_parse(Packed(q)) = IF CanAsk(q) THEN Asked(q) ELSE Refused
           /\ CanAsk(q) => Asked(q) \in Cfgs
<1> DEFINE w == Packed(q)
           m == Metas(w)
           o == Spelled(q).overlay
<1>1. /\ \A i \in 1..3 : m[i] = IF Numbers(q)[i] < 0 THEN 0 ELSE Numbers(q)[i]
      /\ \A i \in 1..(3 + Slots) : m[3 + i] = Sizes(q)[i]
      /\ Fits(w) <=> Total(Sizes(q)) <= Room
  BY PackedValue
<1>2. \A i \in 1..3 : Numbers(q)[i] \in Int /\ i \in 1..(3 + Slots)
  BY NumbersValue, ElementOfSeq, CodecAssumption
<1> HIDE DEF w, m
<1>3. (\A i \in 1..6 : m[i] # 0) <=>
         (\A i \in 1..3 : m[i] # 0) /\ (\A i \in 1..3 : m[3 + i] # 0)
  <2>1. \A i \in 1..6 : i \in 1..3 \/ (i - 3 \in 1..3 /\ i = 3 + (i - 3))
    OBVIOUS
  <2>2. \A i \in 1..3 : i \in 1..6 /\ 3 + i \in 1..6
    OBVIOUS
  <2> QED
    BY <2>1, <2>2
<1>4. \A i \in 1..3 : m[i] # 0 => Numbers(q)[i] >= 0 /\ m[i] = Numbers(q)[i]
  BY <1>1, <1>2
<1>5. ASSUME Fits(w), \A i \in 1..6 : m[i] # 0
      PROVE  \A i \in 1..3 : Sizes(q)[i] # 0
  BY <1>1, <1>2, <1>3, <1>5
<1>6. ASSUME ~ CanAsk(q)
      PROVE  req_parse(w) = Refused
  <2>1. ~ (Fits(w) /\ \A i \in 1..6 : m[i] # 0)
    <3>1. CanAsk(q) <=> /\ \A i \in 1..3 : Numbers(q)[i] > 0
                        /\ \A i \in 1..3 : Sizes(q)[i] # 0
                        /\ Total(Sizes(q)) <= Room
      BY CanAskValue
    <3>2. (\A i \in 1..3 : m[i] # 0) => \A i \in 1..3 : Numbers(q)[i] > 0
      BY <1>1, <1>2, <1>4
    <3> QED
      BY <1>1, <1>3, <1>5, <1>6, <3>1, <3>2
  <2> QED
    BY <2>1 DEF req_parse, m
<1>7. ASSUME CanAsk(q)
      PROVE  req_parse(w) = Asked(q) /\ Asked(q) \in Cfgs
  <2>1. /\ \A i \in 1..3 : Numbers(q)[i] > 0
        /\ \A i \in 1..3 : Sizes(q)[i] # 0
        /\ Fits(w)
    BY <1>1, <1>7, CanAskValue
  <2>2. \A i \in 1..3 : m[i] = Numbers(q)[i] /\ m[i] # 0 /\ m[3 + i] # 0
    BY <1>1, <1>2, <2>1
  <2>3. \A i \in 1..6 : m[i] # 0
    BY <1>3, <2>2
  <2>4. /\ Paths(w) = <<Spelled(q).pkg, Spelled(q).exec, Spelled(q).data>> \o Kept(o)
        /\ {Spelled(q).pkg, Spelled(q).exec, Spelled(q).data} \subseteq Seq(Nat)
        /\ Kept(o) \in Seq(Seq(Nat))
        /\ \A i \in Given(w) : IsCStr(Piece(w, i))
    BY <2>1, PathsValue DEF w
  <2>5. req_parse(w) = Cfg(w)
    BY <2>1, <2>3, <2>4 DEF req_parse, m
  <2>6. m[1] = q.app_id /\ m[2] = q.uid /\ m[3] = q.gid /\ ~ (m[3] < 0)
        /\ {q.app_id, q.uid, q.gid} \subseteq Nat
    <3>1. /\ m[1] = c_int(q.app_id) /\ m[2] = c_int(q.uid)
          /\ m[3] = (IF q.gid = NoGid THEN -1 ELSE c_int(q.gid))
          /\ m[1] > 0 /\ m[2] > 0 /\ m[3] > 0
      BY <2>1, <2>2, NumbersValue
    <3>2. q.gid # NoGid
      BY <3>1
    <3> QED
      BY <3>1, <3>2, NumbersValue, c_intValue
  <2> DEFINE A == <<Spelled(q).pkg, Spelled(q).exec, Spelled(q).data>>
             p == A \o Kept(o)
  <2>7. /\ p[1] = Spelled(q).pkg /\ p[2] = Spelled(q).exec /\ p[3] = Spelled(q).data
        /\ SubSeq(p, 4, Len(p)) = Kept(o)
    <3>1. A \in Seq(Seq(Nat)) /\ Len(A) = 3
      BY <2>4
    <3>2. A[1] = Spelled(q).pkg /\ A[2] = Spelled(q).exec /\ A[3] = Spelled(q).data
      OBVIOUS
    <3>3. Len(Kept(o)) \in Nat
      BY <2>4, LenProperties
    <3> HIDE DEF A, o
    <3>4. /\ Len(p) = Len(A) + Len(Kept(o))
          /\ \A i \in 1..(Len(A) + Len(Kept(o))) :
                p[i] = IF i <= Len(A) THEN A[i] ELSE Kept(o)[i - Len(A)]
      BY <2>4, <3>1, ConcatProperties, Zenon
    <3>5. SubSeq(p, Len(A) + 1, Len(A) + Len(Kept(o))) = Kept(o)
      BY <2>4, <3>1, RightPart, Zenon
    <3>6. 3 + 1 = 4 /\ \A i \in 1..3 : i \in 1..(3 + Len(Kept(o)))
      BY <3>3
    <3> HIDE DEF p
    <3> QED
      BY <3>1, <3>2, <3>4, <3>5, <3>6
  <2> HIDE DEF A
  <2>8. Cfg(w) = [app_id |-> m[1], uid |-> m[2], gid |-> IF m[3] < 0 THEN NoGid ELSE m[3],
                  pkg |-> p[1], exec |-> p[2], data |-> p[3],
                  overlay |-> SubSeq(p, 4, Len(p))]
    BY <2>4, Zenon DEF Cfg, m, A
  <2>9. Asked(q) = [app_id |-> q.app_id, uid |-> q.uid, gid |-> q.gid,
                    pkg |-> Spelled(q).pkg, exec |-> Spelled(q).exec,
                    data |-> Spelled(q).data, overlay |-> Kept(o)]
    BY SpelledValue DEF Asked
  <2> HIDE DEF p, o
  <2>10. Cfg(w) = Asked(q)
    BY <2>6, <2>7, <2>8, <2>9
  <2>11. Asked(q) \in Cfgs
    BY <2>4, <2>6, <2>9 DEF Cfgs
  <2> QED
    BY <2>5, <2>10, <2>11
<1> QED
  BY <1>6, <1>7 DEF w

-----------------------------------------------------------------------------
(* The invariant: what each variable holds follows from the request. *)

DecodedInv ==
    /\ wire # Nil => wire = Packed(req)
    /\ cfg # Nil => cfg = IF CanAsk(req) THEN Asked(req) ELSE Refused

PhaseInv ==
    /\ cfg = Nil => host = Nil /\ verdict = Nil
    /\ host # Nil => host \in Hosts

IInv == req \in Requests /\ DecodedInv /\ PhaseInv /\ AcceptsExactly

\* check_path settles what Suits asks for of the two directories.
LEMMA NewHost ==
    ASSUME host \in Hosts, RockerCfg_new
    PROVE  /\ host' \in Hosts
           /\ verdict' = "accepted" <=> Suits(host')
           /\ verdict' \in {"accepted", "refused"}
           /\ host' # host =>
                 /\ host.user /\ host.group
                 /\ \A p \in {"exec", "data", "pkg"} :
                       host'[p] # host[p] => host[p] = "absent" /\ host'[p] = "dir"
<1>1. CASE ~ (host.user /\ host.group)
  BY <1>1 DEF RockerCfg_new, Suits
<1>2. CASE host.user /\ host.group
  <2> DEFINE exec == create_dir_all(host.exec)
             data == IF exec = "dir" THEN create_dir_all(host.data) ELSE host.data
  <2>1. host = [user |-> host.user, group |-> host.group, pkg |-> host.pkg,
                exec |-> host.exec, data |-> host.data]
        /\ host.user \in BOOLEAN /\ host.group \in BOOLEAN
        /\ host.pkg \in {"dir", "file", "absent"} /\ host.exec \in Place /\ host.data \in Place
    BY DEF Hosts
  <2>2. host' = check_path(host) /\ verdict' = IF PathsFit(host') THEN "accepted" ELSE "refused"
    BY <1>2 DEF RockerCfg_new
  <2>3. host' = [user |-> host.user, group |-> host.group, pkg |-> host.pkg,
                 exec |-> exec, data |-> data]
    BY <2>1, <2>2 DEF check_path
  <2>4. exec \in Place /\ data \in Place /\ exec # "absent" /\ (exec = "dir" => data # "absent")
        /\ (exec # host.exec => host.exec = "absent" /\ exec = "dir")
        /\ (data # host.data => host.data = "absent" /\ data = "dir")
    BY <2>1 DEF create_dir_all, Place
  <2> HIDE DEF exec, data
  <2>5. host' \in Hosts
    BY <2>1, <2>3, <2>4 DEF Hosts
  <2>6. /\ host'.user = host.user /\ host'.group = host.group /\ host'.pkg = host.pkg
        /\ host'.exec = exec /\ host'.data = data
    BY <2>3
  <2>7. PathsFit(host') <=> Suits(host')
    BY <1>2, <2>4, <2>6 DEF PathsFit, Suits
  <2>8. \A p \in {"exec", "data", "pkg"} :
           host'[p] # host[p] => host[p] = "absent" /\ host'[p] = "dir"
    BY <2>4, <2>6
  <2> QED
    BY <1>2, <2>2, <2>5, <2>7, <2>8
<1> QED
  BY <1>1, <1>2

LEMMA InitIInv == Init => IInv
  BY DEF Init, IInv, DecodedInv, PhaseInv, AcceptsExactly

LEMMA NextIInv ==
    ASSUME IInv, [Next]_vars
    PROVE  IInv'
<1> USE DEF IInv, DecodedInv, PhaseInv
<1>1. CASE Send
  <2>1. wire' = Packed(req) /\ UNCHANGED <<req, cfg, host, verdict>>
    BY <1>1 DEF Send, Packed
  <2> QED
    BY <2>1 DEF AcceptsExactly
<1>2. CASE Parse
  <2>1. /\ wire # Nil /\ cfg = Nil /\ host = Nil /\ verdict = Nil
        /\ cfg' = req_parse(wire) /\ UNCHANGED <<req, wire>>
        /\ IF cfg' = Refused THEN verdict' = "refused" /\ UNCHANGED host
                             ELSE host' \in Hosts /\ UNCHANGED verdict
    BY <1>2 DEF Parse
  <2>2. /\ cfg' = IF CanAsk(req) THEN Asked(req) ELSE Refused
        /\ CanAsk(req) => Asked(req) \in Cfgs
    BY <2>1, RoundTrip
  <2>3. cfg' # Nil /\ (cfg' = Refused <=> ~ CanAsk(req))
    BY <2>2, NilAssumption
  <2>4. CASE CanAsk(req)
    BY <2>1, <2>2, <2>3, <2>4, NilAssumption DEF AcceptsExactly
  <2>5. CASE ~ CanAsk(req)
    BY <2>1, <2>2, <2>3, <2>5, NilAssumption DEF AcceptsExactly
  <2> QED
    BY <2>4, <2>5
<1>3. CASE New
  <2>1. host \in Hosts /\ RockerCfg_new /\ cfg # Nil /\ UNCHANGED <<req, wire, cfg>>
    BY <1>3 DEF New
  <2>2. /\ host' \in Hosts
        /\ verdict' = "accepted" <=> Suits(host')
    BY <2>1, NewHost
  <2>3. host' # Nil /\ host # Nil
    BY <2>1, <2>2, NilAssumption
  <2>4. CanAsk(req)
    BY <2>3 DEF AcceptsExactly
  <2>5. AcceptsExactly'
    BY <2>1, <2>2, <2>3, <2>4 DEF AcceptsExactly
  <2> QED
    BY <2>1, <2>2, <2>5
<1>4. CASE UNCHANGED vars
  BY <1>4 DEF vars, AcceptsExactly
<1> QED
  BY <1>1, <1>2, <1>3, <1>4 DEF Next

THEOREM Invariant == Spec => []IInv
<1>1. IInv /\ [Next]_vars => IInv'
  BY NextIInv
<1> QED
  BY InitIInv, <1>1, PTL DEF Spec

\* A request that is decoded is the one that was asked, whatever the buffer, the
\* int and the strings (ROCKER_parse_request___ and req_parse).
THEOREM DecodedTrue == Spec => []AcceptedIsAsked
<1>1. IInv => AcceptedIsAsked
  BY DEF IInv, DecodedInv, AcceptedIsAsked, Asked
<1> QED
  BY Invariant, <1>1, PTL

\* What can be asked and suits the host is accepted, and nothing else is
\* (req_parse, RockerCfg::new).
THEOREM AcceptsTrue == Spec => []AcceptsExactly
<1>1. IInv => AcceptsExactly
  BY DEF IInv
<1> QED
  BY Invariant, <1>1, PTL

\* Only a request of a user and a group the host knows leaves directories there,
\* and only where there was nothing (RockerCfg::new, check_path).
THEOREM StrangersTrue == Spec => StrangersLeaveNoTrace
<1> DEFINE Kind == host # Nil /\ host' # host =>
                     /\ host.user /\ host.group
                     /\ \A p \in {"exec", "data", "pkg"} :
                           host'[p] # host[p] => host[p] = "absent" /\ host'[p] = "dir"
<1>1. IInv /\ [Next]_vars => [Kind]_vars
  <2> SUFFICES ASSUME IInv, Next, host # Nil, host' # host PROVE Kind
    OBVIOUS
  <2>1. New
    BY DEF Next, Send, Parse, IInv, PhaseInv
  <2>2. host \in Hosts /\ RockerCfg_new
    BY <2>1 DEF New, IInv, PhaseInv
  <2> QED
    BY <2>2, NewHost
<1>2. Spec => [][Kind]_vars
  <2> HIDE DEF Kind
  <2> QED
    BY Invariant, <1>1, PTL DEF Spec
<1> QED
  BY <1>2 DEF StrangersLeaveNoTrace
=============================================================================
