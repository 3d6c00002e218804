----------------------------- MODULE ListLemmas -----------------------------
(***************************************************************************)
(* Facts about the kernel's lists (include/sys/list.h) as sequences        *)
(* without repetition, for the proofs about the modules that keep them.    *)
(***************************************************************************)
EXTENDS Integers, Sequences, FiniteSets, SequencesExt, WellFoundedInduction,
        FiniteSetTheorems, TLAPS

(* list_add of several nodes in front of a list with none of them. *)
LEMMA ConcatDistinct ==
  ASSUME NEW S, NEW s \in Seq(S), NEW q \in Seq(S),
         IsInjective(s), IsInjective(q), Range(s) \cap Range(q) = {}
  PROVE  /\ s \o q \in Seq(S)
         /\ IsInjective(s \o q)
         /\ Range(s \o q) = Range(s) \cup Range(q)
<1> DEFINE c == s \o q
<1>1. /\ c \in Seq(S)
      /\ Len(c) = Len(s) + Len(q)
      /\ \A i \in 1..Len(s) : c[i] = s[i]
      /\ \A i \in 1..Len(q) : c[Len(s) + i] = q[i]
  OBVIOUS
<1>2. \A i \in DOMAIN c : \/ i \in DOMAIN s /\ c[i] = s[i]
                          \/ i - Len(s) \in DOMAIN q /\ c[i] = q[i - Len(s)]
  OBVIOUS
<1>3. Range(c) = Range(s) \cup Range(q)
  <2>1. Range(c) \subseteq Range(s) \cup Range(q)
    BY <1>2 DEF Range
  <2>2. Range(s) \subseteq Range(c)
    BY <1>1 DEF Range
  <2>3. Range(q) \subseteq Range(c)
    <3>0. DOMAIN q = 1..Len(q)
      OBVIOUS
    <3> SUFFICES ASSUME NEW i \in 1..Len(q) PROVE q[i] \in Range(c)
      BY <3>0, Zenon DEF Range
    <3>1. Len(s) + i \in DOMAIN c /\ c[Len(s) + i] = q[i]
      BY <1>1
    <3> QED BY <3>1 DEF Range
  <2> QED BY <2>1, <2>2, <2>3
<1>4. IsInjective(c)
  <2> SUFFICES ASSUME NEW i \in DOMAIN c, NEW j \in DOMAIN c, c[i] = c[j]
               PROVE  i = j
    BY DEF IsInjective
  <2> HIDE DEF c
  <2>1. CASE i \in DOMAIN s /\ c[i] = s[i] /\ j \in DOMAIN s /\ c[j] = s[j]
    BY <2>1 DEF IsInjective
  <2>2. CASE /\ i - Len(s) \in DOMAIN q /\ c[i] = q[i - Len(s)]
             /\ j - Len(s) \in DOMAIN q /\ c[j] = q[j - Len(s)]
    <3>1. i - Len(s) = j - Len(s)
      BY <2>2 DEF IsInjective
    <3>2. i \in Int /\ j \in Int /\ Len(s) \in Int
      BY <1>1
    <3> QED BY <3>1, <3>2
  <2>3. CASE /\ i \in DOMAIN s /\ c[i] = s[i]
             /\ j - Len(s) \in DOMAIN q /\ c[j] = q[j - Len(s)]
    <3>1. c[i] \in Range(s) /\ c[j] \in Range(q)
      BY <2>3 DEF Range
    <3> QED BY <3>1
  <2>4. CASE /\ i - Len(s) \in DOMAIN q /\ c[i] = q[i - Len(s)]
             /\ j \in DOMAIN s /\ c[j] = s[j]
    <3>1. c[i] \in Range(q) /\ c[j] \in Range(s)
      BY <2>4 DEF Range
    <3> QED BY <3>1
  <2> QED BY <1>2, <2>1, <2>2, <2>3, <2>4
<1> QED BY <1>1, <1>3, <1>4

(* list_del of the head. *)
LEMMA TailDistinct ==
  ASSUME NEW S, NEW q \in Seq(S), q # <<>>, IsInjective(q)
  PROVE  /\ Tail(q) \in Seq(S)
         /\ Head(q) \in S
         /\ Head(q) \in Range(q)
         /\ IsInjective(Tail(q))
         /\ Range(Tail(q)) = Range(q) \ {Head(q)}
<1>1. /\ Tail(q) \in Seq(S) /\ Head(q) = q[1] /\ 1 \in DOMAIN q
      /\ \A i \in DOMAIN Tail(q) : i + 1 \in DOMAIN q /\ i \in Nat \ {0}
                                   /\ Tail(q)[i] = q[i + 1]
      /\ \A i \in DOMAIN q \ {1} : i - 1 \in DOMAIN Tail(q)
                                   /\ Tail(q)[i - 1] = q[i]
  OBVIOUS
<1> DEFINE r == Tail(q)
<1> HIDE DEF r
<1>2. IsInjective(r)
  <2> SUFFICES ASSUME NEW i \in DOMAIN r, NEW j \in DOMAIN r, r[i] = r[j]
               PROVE  i = j
    BY DEF IsInjective
  <2>1. i + 1 = j + 1
    BY <1>1 DEF IsInjective, r
  <2> QED BY <1>1, <2>1 DEF r
<1>3. Range(r) \subseteq Range(q) \ {Head(q)}
  <2> SUFFICES ASSUME NEW i \in DOMAIN r PROVE r[i] \in Range(q) /\ r[i] # q[1]
    BY <1>1 DEF Range
  <2>1. i + 1 \in DOMAIN q /\ i + 1 # 1 /\ r[i] = q[i + 1] /\ 1 \in DOMAIN q
    BY <1>1 DEF r
  <2> QED BY <2>1 DEF Range, IsInjective
<1>4. Range(q) \ {Head(q)} \subseteq Range(r)
  <2> SUFFICES ASSUME NEW i \in DOMAIN q, q[i] # q[1] PROVE q[i] \in Range(r)
    BY <1>1 DEF Range
  <2>1. i - 1 \in DOMAIN r /\ r[i - 1] = q[i]
    BY <1>1 DEF r
  <2> QED BY <2>1 DEF Range
<1>5. Head(q) \in S /\ Head(q) \in Range(q)
  BY <1>1 DEF Range
<1> QED BY <1>1, <1>2, <1>3, <1>4, <1>5 DEF r

(* list_add of one node. *)
LEMMA PrependDistinct ==
  ASSUME NEW S, NEW q \in Seq(S), NEW x \in S, IsInjective(q), x \notin Range(q)
  PROVE  /\ <<x>> \o q \in Seq(S)
         /\ IsInjective(<<x>> \o q)
         /\ Range(<<x>> \o q) = Range(q) \cup {x}
<1> DEFINE one == <<x>>
<1>1. IsInjective(one) /\ Range(one) = {x} /\ one \in Seq(S)
  BY DEF IsInjective, Range
<1> HIDE DEF one
<1>2. Range(one) \cap Range(q) = {}
  BY <1>1
<1>3. /\ one \o q \in Seq(S) /\ IsInjective(one \o q)
      /\ Range(one \o q) = Range(one) \cup Range(q)
  BY <1>1, <1>2, ConcatDistinct
<1>4. /\ one \o q \in Seq(S) /\ IsInjective(one \o q)
      /\ Range(one \o q) = Range(q) \cup {x}
  BY <1>1, <1>3
<1> QED BY <1>4 DEF one

(* list_add_tail of a node that is not on the list. *)
LEMMA AppendDistinct ==
  ASSUME NEW S, NEW q \in Seq(S), NEW x \in S, IsInjective(q), x \notin Range(q)
  PROVE  /\ Append(q, x) \in Seq(S)
         /\ Append(q, x) # <<>>
         /\ IsInjective(Append(q, x))
         /\ Range(Append(q, x)) = Range(q) \cup {x}
<1> DEFINE r == Append(q, x)
<1>1. /\ r \in Seq(S) /\ r # <<>>
      /\ DOMAIN r = DOMAIN q \cup {Len(q) + 1} /\ Len(q) + 1 \notin DOMAIN q
      /\ \A i \in DOMAIN q : r[i] = q[i]
      /\ r[Len(q) + 1] = x
  OBVIOUS
<1> HIDE DEF r
<1>2. Range(r) = Range(q) \cup {x}
  BY <1>1 DEF Range
<1>3. IsInjective(r)
  BY <1>1 DEF IsInjective, Range
<1>4. r \in Seq(S) /\ r # <<>> /\ IsInjective(r) /\ Range(r) = Range(q) \cup {x}
  BY <1>1, <1>2, <1>3
<1> QED BY <1>4, Zenon DEF r

(* A non-empty set of numbers has a least member. *)
LEMMA MinMember ==
  ASSUME NEW I \in SUBSET Nat, I # {}
  PROVE  Min(I) \in I /\ \A i \in I : Min(I) <= i
<1>1. PICK m \in I : \A i \in I : ~(<<i, m>> \in OpToRel(<, Nat))
  BY NatLessThanWellFounded, WFMin
<1>2. ASSUME NEW i \in I PROVE ~(i < m)
  <2>1. i \in Nat /\ m \in Nat
    OBVIOUS
  <2>2. i < m => <<i, m>> \in OpToRel(<, Nat)
    BY <2>1, Zenon DEF OpToRel
  <2> QED BY <1>1, <2>2
<1>3. \A i \in I : m <= i
  BY <1>2
<1> QED BY <1>3 DEF Min

(* Removing from a list, with repetitions or not, leaves a list. *)
LEMMA RemoveType ==
  ASSUME NEW S, NEW q \in Seq(S), NEW x
  PROVE  RemoveFirst(q, x) \in Seq(S)
<1>1. CASE \A i \in 1..Len(q) : q[i] # x
  BY <1>1 DEF RemoveFirst
<1>2. CASE \E i \in 1..Len(q) : q[i] = x
  <2> DEFINE I == {i \in 1..Len(q) : q[i] = x}
             k == Min(I)
  <2>1. I \in SUBSET Nat /\ I # {}
    BY <1>2
  <2>2. k \in I
    BY <2>1, MinMember
  <2>3. RemoveFirst(q, x) = RemoveAt(q, k)
    BY <1>2, <2>1 DEF RemoveFirst, SelectInSeq
  <2>4. k \in 1..Len(q)
    BY <2>2
  <2> HIDE DEF k
  <2> QED BY <2>3, <2>4 DEF RemoveAt
<1> QED BY <1>1, <1>2

(* list_del of a node wherever it is. *)
LEMMA RemoveDistinct ==
  ASSUME NEW S, NEW q \in Seq(S), NEW x, IsInjective(q)
  PROVE  /\ RemoveFirst(q, x) \in Seq(S)
         /\ IsInjective(RemoveFirst(q, x))
         /\ Range(RemoveFirst(q, x)) = Range(q) \ {x}
<1>1. CASE \A i \in 1..Len(q) : q[i] # x
  <2>1. RemoveFirst(q, x) = q
    BY <1>1 DEF RemoveFirst
  <2>2. x \notin Range(q)
    BY <1>1 DEF Range
  <2> QED BY <2>1, <2>2
<1>2. CASE \E i \in 1..Len(q) : q[i] = x
  <2>1. PICK k \in 1..Len(q) : q[k] = x
    BY <1>2
  <2>2. {i \in 1..Len(q) : q[i] = x} = {k}
    BY <2>1 DEF IsInjective
  <2>3. Min({k}) = k
    BY <2>1 DEF Min
  <2>4. SelectInSeq(q, LAMBDA v : v = x) = k
    BY <2>2, <2>3 DEF SelectInSeq
  <2>5. RemoveFirst(q, x) = RemoveAt(q, k)
    BY <1>2, <2>4 DEF RemoveFirst
  <2> DEFINE s == SubSeq(q, 1, k - 1)
             u == SubSeq(q, k + 1, Len(q))
  <2>6. /\ s \in Seq(S) /\ Len(s) = k - 1
        /\ \A i \in 1..(k - 1) : s[i] = q[i] /\ i \in DOMAIN q
    BY <2>1
  <2>7. /\ u \in Seq(S) /\ Len(u) = Len(q) - k
        /\ \A i \in 1..(Len(q) - k) : u[i] = q[i + k] /\ i + k \in DOMAIN q
    BY <2>1
  <2>k. k \in Nat /\ k >= 1 /\ k <= Len(q) /\ Len(q) \in Nat /\ DOMAIN q = 1..Len(q)
    BY <2>1
  <2> HIDE DEF s, u
  <2>8. IsInjective(s)
    BY <2>6, <2>k DEF IsInjective
  <2>9. IsInjective(u)
    <3> SUFFICES ASSUME NEW i \in 1..(Len(q) - k), NEW j \in 1..(Len(q) - k), u[i] = u[j]
                 PROVE  i = j
      BY <2>7 DEF IsInjective
    <3>1. i + k = j + k
      BY <2>7 DEF IsInjective
    <3> QED BY <3>1, <2>k
  <2>10. Range(s) = {q[i] : i \in 1..(k - 1)}
    BY <2>6 DEF Range
  <2>11. Range(u) = {q[i] : i \in (k + 1)..Len(q)}
    <3>1. ASSUME NEW i \in 1..(Len(q) - k) PROVE u[i] \in {q[j] : j \in (k + 1)..Len(q)}
      BY <2>7, <2>k, SMTT(30)
    <3>2. ASSUME NEW i \in (k + 1)..Len(q) PROVE q[i] \in Range(u)
      <4>1. i - k \in 1..(Len(q) - k) /\ (i - k) + k = i
        BY <2>k
      <4>2. u[i - k] = q[i]
        BY <2>7, <4>1
      <4> QED BY <2>7, <4>1, <4>2 DEF Range
    <3>3. Range(u) \subseteq {q[j] : j \in (k + 1)..Len(q)}
      BY <2>7, <3>1 DEF Range
    <3> QED BY <3>2, <3>3
  <2>12. Range(s) \cap Range(u) = {}
    <3> SUFFICES ASSUME NEW i \in 1..(k - 1), NEW j \in (k + 1)..Len(q), q[i] = q[j]
                 PROVE  FALSE
      BY <2>10, <2>11
    <3>1. i \in DOMAIN q /\ j \in DOMAIN q /\ i # j
      BY <2>k
    <3> QED BY <3>1 DEF IsInjective
  <2>13. Range(s) \cup Range(u) = Range(q) \ {x}
    <3>1. ASSUME NEW i \in DOMAIN q, q[i] # x PROVE i \in 1..(k - 1) \/ i \in (k + 1)..Len(q)
      BY <2>1, <2>k, <3>1
    <3>2. ASSUME NEW i \in DOMAIN q, i # k PROVE q[i] # x
      BY <2>1, <2>k, <3>2 DEF IsInjective
    <3>3. \A i \in 1..(k - 1) : i \in DOMAIN q /\ i # k
      BY <2>k
    <3>4. \A i \in (k + 1)..Len(q) : i \in DOMAIN q /\ i # k
      BY <2>k
    <3> QED BY <2>10, <2>11, <3>1, <3>2, <3>3, <3>4 DEF Range
  <2>14. RemoveAt(q, k) = s \o u
    BY DEF RemoveAt, s, u
  <2> QED BY <2>5, <2>6, <2>7, <2>8, <2>9, <2>12, <2>13, <2>14, ConcatDistinct
<1> QED BY <1>1, <1>2

(* list_del of the first node. *)
LEMMA RemoveHead ==
  ASSUME NEW S, NEW q \in Seq(S), q # <<>>
  PROVE  RemoveFirst(q, Head(q)) = Tail(q)
<1> DEFINE I == {i \in 1..Len(q) : q[i] = Head(q)}
           k == Min(I)
<1>1. I \in SUBSET Nat /\ 1 \in I /\ I \subseteq 1..Len(q)
  OBVIOUS
<1>2. k \in I /\ k <= 1
  BY <1>1, MinMember
<1>3. k = 1
  BY <1>1, <1>2
<1>4. RemoveFirst(q, Head(q)) = RemoveAt(q, k)
  BY <1>1 DEF RemoveFirst, SelectInSeq
<1> HIDE DEF k
<1> QED BY <1>3, <1>4 DEF RemoveAt

(* A list without repetition has as many members as nodes. *)
LEMMA DistinctLength ==
  ASSUME NEW S, NEW q \in Seq(S), IsInjective(q)
  PROVE  Cardinality(Range(q)) = Len(q)
<1>1. q \in [1..Len(q) -> Range(q)] /\ \A x \in Range(q) : \E i \in 1..Len(q) : q[i] = x
  BY DEF Range
<1>2. q \in Bijection(1..Len(q), Range(q))
  BY <1>1 DEF Bijection, Injection, Surjection
<1>3. Len(q) \in Nat /\ ExistsBijection(1..Len(q), Range(q))
  BY <1>2 DEF ExistsBijection
<1> QED BY <1>3, FS_CountingElements
-----------------------------------------------------------------------------
(* Counting up. *)
LEMMA UpTo ==
  ASSUME NEW n \in Nat, NEW T, 0 \in T, \A i \in 1 .. n : i - 1 \in T => i \in T
  PROVE  0 .. n \subseteq T
<1> DEFINE bad == (0 .. n) \ T
<1>1. SUFFICES ASSUME bad # {} PROVE FALSE
  OBVIOUS
<1>2. bad \in SUBSET Nat
  OBVIOUS
<1>3. PICK k \in bad : \A i \in bad : k <= i
  BY <1>1, <1>2, MinMember
<1>4. k \in 1 .. n /\ k - 1 \in 0 .. n /\ k \notin T
  OBVIOUS
<1>5. k - 1 \notin bad
  BY <1>3, <1>4
<1> QED BY <1>4, <1>5

(* n applications of f. *)
Iterates(g, f, x, n, X) ==
  /\ g \in [0 .. n -> X]
  /\ g[0] = x /\ \A i \in 1 .. n : g[i] = f[<<i, g[i - 1]>>]

LEMMA Iterate ==
  ASSUME NEW n \in Nat, NEW X, NEW x \in X, NEW f \in [(1 .. n) \X X -> X]
  PROVE  \E g : Iterates(g, f, x, n, X)
<1> DEFINE Up(g, k) == g[0] = x /\ \A i \in 1 .. k : g[i] = f[<<i, g[i - 1]>>]
           T == {k \in 0 .. n : \E g \in [0 .. k -> X] : Up(g, k)}
<1>1. 0 \in T
  <2> DEFINE g0 == [i \in 0 .. 0 |-> x]
  <2>1. g0 \in [0 .. 0 -> X] /\ Up(g0, 0)
    OBVIOUS
  <2> HIDE DEF g0, Up
  <2> QED BY <2>1
<1>2. ASSUME NEW k \in 1 .. n, k - 1 \in T PROVE k \in T
  <2>1. PICK g \in [0 .. k - 1 -> X] : Up(g, k - 1)
    BY <1>2
  <2>2. g[k - 1] \in X /\ <<k, g[k - 1]>> \in (1 .. n) \X X
    OBVIOUS
  <2>3. PICK y \in X : y = f[<<k, g[k - 1]>>]
    BY <2>2
  <2> DEFINE h == [i \in 0 .. k |-> IF i = k THEN y ELSE g[i]]
  <2>4. h \in [0 .. k -> X] /\ h[k] = y /\ \A i \in 0 .. k - 1 : h[i] = g[i]
    BY <2>3
  <2> HIDE DEF h
  <2>5. ASSUME NEW i \in 1 .. k PROVE h[i] = f[<<i, h[i - 1]>>]
    <3>1. CASE i = k
      <4>1. h[i] = y /\ h[i - 1] = g[k - 1]
        BY <2>4, <3>1
      <4> QED BY <2>3, <3>1, <4>1
    <3>2. CASE i # k
      <4>1. i \in 1 .. k - 1 /\ i \in 0 .. k - 1 /\ i - 1 \in 0 .. k - 1
        BY <3>2
      <4> QED BY <2>1, <2>4, <4>1
    <3> QED BY <3>1, <3>2
  <2>6. Up(h, k)
    BY <2>1, <2>4, <2>5
  <2> HIDE DEF Up
  <2> QED BY <2>4, <2>6
<1>3. n \in T
  <2> HIDE DEF T
  <2> QED BY <1>1, <1>2, UpTo
<1> QED BY <1>3 DEF Iterates

(* Lists with the same elements are equal. *)
LEMMA SameList ==
  ASSUME NEW S, NEW u \in Seq(S), NEW b \in Seq(S), Len(u) = Len(b),
         \A i \in 1 .. Len(u) : u[i] = b[i]
  PROVE  u = b
  OBVIOUS

(* What joining two lists gives. *)
Joined(s, a, b) ==
  /\ Len(s) = Len(a) + Len(b)
  /\ \A i \in 1 .. Len(a) : s[i] = a[i]
  /\ \A i \in 1 .. Len(b) : s[Len(a) + i] = b[i]

LEMMA Join ==
  ASSUME NEW S, NEW a \in Seq(S), NEW b \in Seq(S)
  PROVE  a \o b \in Seq(S) /\ Joined(a \o b, a, b)
  BY DEF Joined

(* Joining lists is associative. *)
Assoc(a, b, c) == (a \o b) \o c = a \o (b \o c)

LEMMA ConcatThree ==
  ASSUME NEW S, NEW a \in Seq(S), NEW b \in Seq(S), NEW c \in Seq(S)
  PROVE  Assoc(a, b, c)
<1>1. PICK x, y : x = a \o b /\ y = b \o c
  OBVIOUS
<1>2. PICK u, v : u = x \o c /\ v = a \o y
  OBVIOUS
<1>3. x \in Seq(S) /\ Joined(x, a, b) /\ y \in Seq(S) /\ Joined(y, b, c)
  BY <1>1, Join
<1>4. u \in Seq(S) /\ Joined(u, x, c) /\ v \in Seq(S) /\ Joined(v, a, y)
  BY <1>2, <1>3, Join
<1>5. PICK la \in Nat, lb \in Nat, lc \in Nat : la = Len(a) /\ lb = Len(b) /\ lc = Len(c)
  OBVIOUS
<1>6. Len(x) = la + lb /\ Len(y) = lb + lc /\ Len(u) = la + lb + lc /\ Len(v) = la + lb + lc
  BY <1>3, <1>4, <1>5 DEF Joined
<1>7. ASSUME NEW i \in 1 .. la + lb + lc PROVE u[i] = v[i]
  <2>1. CASE i <= la
    <3>1. i \in 1 .. la /\ i \in 1 .. la + lb
      BY <2>1
    <3> QED BY <1>3, <1>4, <1>5, <1>6, <3>1 DEF Joined
  <2>2. CASE i > la /\ i <= la + lb
    <3>1. PICK j \in 1 .. lb : i = la + j
      <4>1. i - la \in 1 .. lb /\ i = la + (i - la)
        BY <2>2
      <4> QED BY <4>1
    <3>2. i \in 1 .. la + lb /\ j \in 1 .. lb + lc
      BY <3>1
    <3>3. u[i] = x[i] /\ x[i] = b[j]
      BY <1>3, <1>4, <1>5, <1>6, <3>1, <3>2 DEF Joined
    <3>4. v[i] = y[j] /\ y[j] = b[j]
      BY <1>3, <1>4, <1>5, <1>6, <3>1, <3>2 DEF Joined
    <3> QED BY <3>3, <3>4
  <2>3. CASE i > la + lb
    <3>1. PICK j \in 1 .. lc : i = la + lb + j
      <4>1. i - (la + lb) \in 1 .. lc /\ i = la + lb + (i - (la + lb))
        BY <2>3
      <4> QED BY <4>1
    <3>2. lb + j \in 1 .. lb + lc /\ i = la + (lb + j)
      BY <3>1
    <3>3. u[i] = c[j]
      BY <1>4, <1>5, <1>6, <3>1 DEF Joined
    <3>4. v[i] = y[lb + j] /\ y[lb + j] = c[j]
      BY <1>3, <1>4, <1>5, <1>6, <3>1, <3>2 DEF Joined
    <3> QED BY <3>3, <3>4
  <2> QED BY <2>1, <2>2, <2>3
<1>8. u = v
  BY <1>4, <1>6, <1>7, SameList
<1> QED BY <1>1, <1>2, <1>8 DEF Assoc

(* What FlattenSeq computes, one list after the other. *)
Flat(g, ss) ==
  g[1] = ss[1] /\ \A i \in 2 .. Len(ss) : g[i] = g[i - 1] \o ss[i]

LEMMA FlattenSteps ==
  ASSUME NEW S, NEW ss \in Seq(Seq(S)), Len(ss) > 0
  PROVE  \E g \in [1 .. Len(ss) -> Seq(S)] : Flat(g, ss) /\ FlattenSeq(ss) = g[Len(ss)]
<1> DEFINE n == Len(ss)
           Body(g) == [i \in 1 .. n |-> IF i = 1 THEN ss[i] ELSE g[i - 1] \o ss[i]]
           f == [z \in (1 .. n) \X Seq(S) |-> IF z[1] = 1 THEN ss[1] ELSE z[2] \o ss[z[1]]]
           c == CHOOSE g : g = Body(g)
<1>1. n \in Nat /\ n >= 1 /\ ss \in [1 .. n -> Seq(S)] /\ DOMAIN ss = 1 .. n
  OBVIOUS
<1>2. FlattenSeq(ss) = c[n]
  BY DEF FlattenSeq
<1> HIDE DEF n
<1>3. f \in [(1 .. n) \X Seq(S) -> Seq(S)]
  BY <1>1
<1>4. \A i \in 1 .. n, x \in Seq(S) : f[<<i, x>>] = IF i = 1 THEN ss[1] ELSE x \o ss[i]
  OBVIOUS
<1> HIDE DEF f
<1>5. <<>> \in Seq(S)
  OBVIOUS
<1>6. PICK g : Iterates(g, f, <<>>, n, Seq(S))
  BY <1>1, <1>3, <1>5, Iterate
<1> DEFINE h == [i \in 1 .. n |-> g[i]]
<1>7. \A i \in 1 .. n : h[i] = IF i = 1 THEN ss[i] ELSE h[i - 1] \o ss[i]
  <2> SUFFICES ASSUME NEW i \in 1 .. n
               PROVE  h[i] = IF i = 1 THEN ss[i] ELSE h[i - 1] \o ss[i]
    OBVIOUS
  <2>1. g[i] = IF i = 1 THEN ss[1] ELSE g[i - 1] \o ss[i]
    <3>1. g[i - 1] \in Seq(S) /\ g[i] = f[<<i, g[i - 1]>>]
      BY <1>1, <1>6 DEF Iterates
    <3> QED BY <1>4, <3>1
  <2>2. i # 1 => h[i - 1] = g[i - 1]
    BY <1>1
  <2>3. h[i] = g[i]
    OBVIOUS
  <2> HIDE DEF h
  <2> QED BY <2>1, <2>2, <2>3
<1>8. h = Body(h)
  <2>1. h = [i \in 1 .. n |-> h[i]]
    OBVIOUS
  <2> HIDE DEF h
  <2> QED BY <1>7, <2>1
<1> HIDE DEF h
<1>9. c = Body(c)
  <2> HIDE DEF Body
  <2> QED BY <1>8
<1> HIDE DEF c
<1>10. DOMAIN c = 1 .. n /\ \A i \in 1 .. n : c[i] = IF i = 1 THEN ss[i] ELSE c[i - 1] \o ss[i]
  <2> DEFINE e(i) == IF i = 1 THEN ss[i] ELSE c[i - 1] \o ss[i]
  <2>1. c = [i \in 1 .. n |-> e(i)]
    BY <1>9
  <2> HIDE DEF e
  <2>2. DOMAIN c = 1 .. n /\ \A i \in 1 .. n : c[i] = e(i)
    BY <2>1
  <2> QED BY <2>2 DEF e
<1>11. \A i \in 1 .. n : c[i] \in Seq(S)
  <2> DEFINE T == {0} \cup {i \in 1 .. n : c[i] \in Seq(S)}
  <2>1. ASSUME NEW i \in 1 .. n, i - 1 \in T PROVE i \in T
    <3>1. ss[i] \in Seq(S)
      BY <1>1
    <3>2. c[i] \in Seq(S)
      <4>1. CASE i = 1
        BY <1>10, <3>1, <4>1
      <4>2. CASE i # 1
        <5>1. i - 1 \in 1 .. n
          BY <1>1, <4>2
        <5>2. c[i - 1] \in Seq(S)
          BY <2>1, <5>1
        <5>3. c[i] = c[i - 1] \o ss[i]
          BY <1>10, <4>2
        <5> QED BY <3>1, <5>2, <5>3
      <4> QED BY <4>1, <4>2
    <3> QED BY <3>2
  <2> HIDE DEF T
  <2>2. 0 .. n \subseteq T
    <3>1. 0 \in T
      BY DEF T
    <3> QED BY <1>1, <2>1, <3>1, UpTo
  <2> QED BY <2>2 DEF T
<1>12. c \in [1 .. n -> Seq(S)]
  <2>1. c = [i \in 1 .. n |-> c[i]]
    BY <1>9
  <2> QED BY <1>11, <2>1
<1>13. Flat(c, ss)
  <2>1. \A i \in 2 .. n : i \in 1 .. n /\ i # 1
    BY <1>1
  <2>2. 1 \in 1 .. n /\ n = Len(ss)
    BY <1>1 DEF n
  <2> QED BY <1>10, <2>1, <2>2 DEF Flat
<1> QED BY <1>2, <1>12, <1>13 DEF n

LEMMA FlattenUnique ==
  ASSUME NEW S, NEW ss \in Seq(Seq(S)), Len(ss) > 0,
         NEW h \in [1 .. Len(ss) -> Seq(S)], Flat(h, ss)
  PROVE  FlattenSeq(ss) = h[Len(ss)]
<1> DEFINE n == Len(ss)
<1>1. n \in Nat /\ n >= 1
  OBVIOUS
<1>2. PICK g \in [1 .. n -> Seq(S)] : Flat(g, ss) /\ FlattenSeq(ss) = g[n]
  BY FlattenSteps
<1> DEFINE T == {0} \cup {i \in 1 .. n : g[i] = h[i]}
<1>3. ASSUME NEW i \in 1 .. n, i - 1 \in T PROVE i \in T
  <2>1. CASE i = 1
    BY <1>1, <1>2, <2>1 DEF Flat
  <2>2. CASE i # 1
    <3>1. i \in 2 .. n /\ i - 1 \in 1 .. n
      BY <1>1, <2>2
    <3>2. g[i - 1] = h[i - 1]
      BY <1>3, <3>1
    <3>3. g[i] = g[i - 1] \o ss[i] /\ h[i] = h[i - 1] \o ss[i]
      BY <1>2, <3>1 DEF Flat
    <3> QED BY <3>2, <3>3
  <2> QED BY <2>1, <2>2
<1>4. 0 \in T
  OBVIOUS
<1> HIDE DEF T, n
<1>5. 0 .. n \subseteq T
  BY <1>1, <1>3, <1>4, UpTo
<1>6. n \in T /\ n # 0
  BY <1>1, <1>5
<1>7. g[n] = h[n]
  BY <1>6 DEF T
<1> QED BY <1>2, <1>7 DEF n

LEMMA FlattenType ==
  ASSUME NEW S, NEW ss \in Seq(Seq(S))
  PROVE  FlattenSeq(ss) \in Seq(S)
<1>1. CASE Len(ss) = 0
  BY <1>1 DEF FlattenSeq
<1>2. CASE Len(ss) > 0
  <2>1. PICK g \in [1 .. Len(ss) -> Seq(S)] : FlattenSeq(ss) = g[Len(ss)]
    BY <1>2, FlattenSteps
  <2>2. Len(ss) \in 1 .. Len(ss)
    BY <1>2
  <2> QED BY <2>1, <2>2
<1> QED BY <1>1, <1>2

(* One more list behind the others. *)
LEMMA FlattenAppend ==
  ASSUME NEW S, NEW ss \in Seq(Seq(S)), NEW s \in Seq(S)
  PROVE  FlattenSeq(Append(ss, s)) = FlattenSeq(ss) \o s
<1>1. PICK tt : tt = Append(ss, s)
  OBVIOUS
<1>2. /\ tt \in Seq(Seq(S)) /\ Len(tt) = Len(ss) + 1 /\ tt[Len(ss) + 1] = s
      /\ \A i \in 1 .. Len(ss) : tt[i] = ss[i]
  BY <1>1
<1>3. CASE Len(ss) = 0
  <2> DEFINE h == [i \in 1 .. 1 |-> s]
  <2>1. h \in [1 .. Len(tt) -> Seq(S)] /\ Flat(h, tt) /\ h[Len(tt)] = s
    BY <1>2, <1>3 DEF Flat
  <2> HIDE DEF h
  <2>2. FlattenSeq(tt) = s
    BY <1>2, <1>3, <2>1, FlattenUnique
  <2>3. FlattenSeq(ss) = <<>>
    BY <1>3 DEF FlattenSeq
  <2>4. <<>> \o s = s
    OBVIOUS
  <2> QED BY <1>1, <2>2, <2>3, <2>4
<1>4. CASE Len(ss) > 0
  <2> DEFINE n == Len(ss)
  <2>1. PICK g \in [1 .. n -> Seq(S)] : Flat(g, ss) /\ FlattenSeq(ss) = g[n]
    BY <1>4, FlattenSteps
  <2>0. n \in Nat /\ n >= 1 /\ n \in 1 .. n
    BY <1>4
  <2> HIDE DEF n
  <2>2. n \in Nat /\ n >= 1 /\ g[n] \in Seq(S) /\ g[n] \o s \in Seq(S)
    <3>1. g[n] \in Seq(S)
      BY <2>0
    <3> QED BY <2>0, <3>1
  <2> DEFINE h == [i \in 1 .. n + 1 |-> IF i = n + 1 THEN g[n] \o s ELSE g[i]]
  <2>3. h \in [1 .. n + 1 -> Seq(S)] /\ h[n + 1] = g[n] \o s /\ \A i \in 1 .. n : h[i] = g[i]
    BY <2>2
  <2> HIDE DEF h
  <2>4. h[1] = tt[1]
    <3>1. 1 \in 1 .. n
      BY <2>0
    <3> QED BY <1>2, <2>1, <2>3, <3>1 DEF Flat, n
  <2>5. ASSUME NEW i \in 2 .. n + 1 PROVE h[i] = h[i - 1] \o tt[i]
    <3>1. CASE i = n + 1
      <4>1. h[i] = g[n] \o s /\ h[i - 1] = g[n] /\ tt[i] = s
        <5>1. n + 1 - 1 = n /\ n \in 1 .. n
          BY <2>0
        <5> QED BY <1>2, <2>3, <3>1, <5>1 DEF n
      <4> QED BY <4>1
    <3>2. CASE i # n + 1
      <4>1. i \in 2 .. n /\ i \in 1 .. n /\ i - 1 \in 1 .. n
        BY <2>2, <3>2
      <4> QED BY <1>2, <2>1, <2>3, <4>1 DEF Flat, n
    <3> QED BY <3>1, <3>2
  <2>6. Flat(h, tt)
    BY <1>2, <2>4, <2>5 DEF Flat, n
  <2>7. Len(tt) = n + 1 /\ Len(tt) > 0
    BY <1>2, <2>0 DEF n
  <2>8. FlattenSeq(tt) = h[Len(tt)]
    BY <1>2, <2>3, <2>6, <2>7, FlattenUnique
  <2> QED BY <1>1, <2>1, <2>3, <2>7, <2>8
<1> QED BY <1>3, <1>4

(* The first list and the rest. *)
LEMMA FlattenCons ==
  ASSUME NEW S, NEW ss \in Seq(Seq(S)), Len(ss) > 0
  PROVE  FlattenSeq(ss) = ss[1] \o FlattenSeq(Tail(ss))
<1>1. PICK tt : tt = Tail(ss)
  OBVIOUS
<1>2. /\ tt \in Seq(Seq(S)) /\ Len(tt) = Len(ss) - 1 /\ ss[1] \in Seq(S)
      /\ \A i \in 1 .. Len(tt) : tt[i] = ss[i + 1]
  BY <1>1
<1>3. CASE Len(ss) = 1
  <2> DEFINE h == [i \in 1 .. 1 |-> ss[1]]
  <2>1. h \in [1 .. Len(ss) -> Seq(S)] /\ Flat(h, ss) /\ h[Len(ss)] = ss[1]
    BY <1>2, <1>3 DEF Flat
  <2> HIDE DEF h
  <2>2. FlattenSeq(ss) = ss[1]
    BY <1>3, <2>1, FlattenUnique
  <2>3. FlattenSeq(tt) = <<>>
    BY <1>2, <1>3 DEF FlattenSeq
  <2>4. ss[1] \o <<>> = ss[1]
    BY <1>2
  <2> QED BY <1>1, <2>2, <2>3, <2>4
<1>4. CASE Len(ss) > 1
  <2>a. PICK a \in Seq(S) : a = ss[1]
    BY <1>2
  <2> DEFINE n == Len(tt)
  <2>0. n \in Nat /\ n >= 1 /\ Len(ss) = n + 1
    BY <1>2, <1>4
  <2>1. PICK g \in [1 .. n -> Seq(S)] : Flat(g, tt) /\ FlattenSeq(tt) = g[n]
    <3>1. Len(tt) > 0
      BY <2>0
    <3> QED BY <1>2, <3>1, FlattenSteps
  <2> HIDE DEF n
  <2>2. ASSUME NEW i \in 1 .. n PROVE g[i] \in Seq(S) /\ a \o g[i] \in Seq(S)
    <3>1. g[i] \in Seq(S)
      OBVIOUS
    <3> QED BY <1>2, <3>1
  <2> DEFINE h == [i \in 1 .. n + 1 |-> IF i = 1 THEN a ELSE a \o g[i - 1]]
  <2>3. h[1] = a /\ \A i \in 2 .. n + 1 : h[i] = a \o g[i - 1]
    <3>1. 1 \in 1 .. n + 1 /\ \A i \in 2 .. n + 1 : i \in 1 .. n + 1 /\ i # 1
      BY <2>0
    <3> QED BY <3>1
  <2>4. h \in [1 .. n + 1 -> Seq(S)]
    <3>1. ASSUME NEW i \in 1 .. n + 1, i # 1 PROVE a \o g[i - 1] \in Seq(S)
      BY <2>0, <2>2, <3>1
    <3> QED BY <1>2, <3>1
  <2> HIDE DEF h
  <2>5. ASSUME NEW i \in 2 .. n + 1 PROVE h[i] = h[i - 1] \o ss[i]
    <3>1. CASE i = 2
      <4>1. g[1] = tt[1] /\ tt[1] = ss[2]
        <5>1. 1 \in 1 .. Len(tt) /\ 1 + 1 = 2
          BY <2>0 DEF n
        <5> QED BY <1>2, <2>1, <5>1 DEF Flat
      <4>2. h[2] = a \o g[1]
        <5>1. 2 \in 2 .. n + 1 /\ 2 - 1 = 1
          BY <2>0
        <5> QED BY <2>3, <5>1
      <4>3. i - 1 = 1
        BY <3>1
      <4> QED BY <2>3, <3>1, <4>1, <4>2, <4>3
    <3>2. CASE i # 2
      <4>1. i - 1 \in 2 .. n /\ i - 1 \in 1 .. n /\ i - 2 \in 1 .. n /\ i - 1 \in 2 .. n + 1
        BY <2>0, <3>2
      <4>2. g[i - 1] = g[i - 2] \o ss[i] /\ ss[i] \in Seq(S)
        <5>1. g[i - 1] = g[i - 1 - 1] \o tt[i - 1]
          BY <2>1, <4>1 DEF Flat, n
        <5>2. tt[i - 1] = ss[i - 1 + 1]
          BY <1>2, <4>1 DEF n
        <5> QED BY <2>0, <5>1, <5>2
      <4>3. h[i] = a \o g[i - 1] /\ h[i - 1] = a \o g[i - 2]
        <5>1. h[i - 1] = a \o g[i - 1 - 1]
          BY <2>3, <4>1
        <5>2. i - 1 - 1 = i - 2
          BY <2>0
        <5> QED BY <2>3, <5>1, <5>2
      <4>4. g[i - 2] \in Seq(S)
        BY <2>2, <4>1
      <4>5. (a \o g[i - 2]) \o ss[i] = a \o (g[i - 2] \o ss[i])
        <5>1. PICK b \in Seq(S) : b = g[i - 2]
          BY <4>4
        <5>2. PICK d \in Seq(S) : d = ss[i]
          BY <4>2
        <5>3. Assoc(a, b, d)
          BY ConcatThree
        <5> QED BY <5>1, <5>2, <5>3 DEF Assoc
      <4> QED BY <4>2, <4>3, <4>5
    <3> QED BY <3>1, <3>2
  <2>6. Flat(h, ss)
    BY <2>a, <2>0, <2>3, <2>5 DEF Flat
  <2>7. FlattenSeq(ss) = h[Len(ss)]
    BY <1>2, <2>0, <2>4, <2>6, FlattenUnique
  <2>8. h[n + 1] = a \o g[n]
    <3>1. n + 1 \in 2 .. n + 1 /\ n + 1 - 1 = n
      BY <2>0
    <3>2. PICK j : j = n + 1 /\ j - 1 = n
      BY <2>0
    <3>3. h[j] = a \o g[j - 1]
      BY <2>3, <3>1, <3>2
    <3> QED BY <3>2, <3>3
  <2> QED BY <1>1, <2>a, <2>0, <2>1, <2>7, <2>8
<1>5. PICK l \in Nat : l = Len(ss)
  OBVIOUS
<1>6. Len(ss) = 1 \/ Len(ss) > 1
  BY <1>5
<1> QED BY <1>3, <1>4, <1>6

\* Where each list of ss begins in the flat list f, and where that ends.
Places(p, ss, f) ==
  /\ p \in [1 .. Len(ss) + 1 -> Nat] /\ p[1] = 0 /\ p[Len(ss) + 1] = Len(f)
  /\ \A j \in 1 .. Len(ss) : p[j + 1] = p[j] + Len(ss[j])
  /\ \A j \in 1 .. Len(ss) : \A x \in 1 .. Len(ss[j]) :
       p[j] + x \in 1 .. Len(f) /\ f[p[j] + x] = ss[j][x]

(* One more list. *)
LEMMA PlacesAppend ==
  ASSUME NEW S, NEW ss \in Seq(Seq(S)), NEW s \in Seq(S), NEW f \in Seq(S),
         NEW p, Places(p, ss, f)
  PROVE  \E q : Places(q, Append(ss, s), f \o s)
<1>1. PICK n \in Nat : n = Len(ss)
  OBVIOUS
<1>2. PICK l \in Nat, m \in Nat : l = Len(f) /\ m = Len(s)
  OBVIOUS
<1>3. PICK tt, h : tt = Append(ss, s) /\ h = f \o s
  OBVIOUS
<1>4. Len(tt) = n + 1 /\ tt[n + 1] = s /\ \A j \in 1 .. n : tt[j] = ss[j]
  BY <1>1, <1>3
<1>5. /\ Len(h) = l + m /\ \A x \in 1 .. l : h[x] = f[x]
      /\ \A x \in 1 .. m : h[l + x] = s[x]
  BY <1>2, <1>3, Join DEF Joined
<1>6. /\ p \in [1 .. n + 1 -> Nat] /\ p[1] = 0 /\ p[n + 1] = l
      /\ \A j \in 1 .. n : p[j + 1] = p[j] + Len(ss[j])
      /\ \A j \in 1 .. n : \A x \in 1 .. Len(ss[j]) : p[j] + x \in 1 .. l /\ f[p[j] + x] = ss[j][x]
  BY <1>1, <1>2 DEF Places
<1>7. PICK q \in [1 .. n + 2 -> Nat] : q[n + 2] = l + m /\ \A j \in 1 .. n + 1 : q[j] = p[j]
  <2> DEFINE r == [j \in 1 .. n + 2 |-> IF j = n + 2 THEN l + m ELSE p[j]]
  <2>1. \A j \in 1 .. n + 2 : j # n + 2 => j \in 1 .. n + 1
    BY <1>1
  <2>2. \A j \in 1 .. n + 2 : (IF j = n + 2 THEN l + m ELSE p[j]) \in Nat
    BY <1>2, <1>6, <2>1
  <2>3. r \in [1 .. n + 2 -> Nat] /\ r[n + 2] = l + m /\ \A j \in 1 .. n + 1 : r[j] = p[j]
    BY <1>1, <2>2
  <2> HIDE DEF r
  <2> QED BY <2>3
<1>8. ASSUME NEW j \in 1 .. n + 1
      PROVE  /\ q[j + 1] = q[j] + Len(tt[j])
             /\ \A x \in 1 .. Len(tt[j]) : q[j] + x \in 1 .. l + m /\ h[q[j] + x] = tt[j][x]
  <2>1. CASE j = n + 1
    <3>1. q[j] = l /\ Len(tt[j]) = m /\ tt[j] = s /\ j + 1 = n + 2
      <4>1. n + 1 \in 1 .. n + 1 /\ n + 1 + 1 = n + 2
        BY <1>1
      <4>2. q[n + 1] = l
        BY <1>6, <1>7, <4>1
      <4> QED BY <1>2, <1>4, <2>1, <4>1, <4>2
    <3>2. \A x \in 1 .. m : l + x \in 1 .. l + m
      BY <1>2
    <3> QED BY <1>5, <1>7, <3>1, <3>2
  <2>2. CASE j # n + 1
    <3>1. j \in 1 .. n /\ j \in 1 .. n + 1 /\ j + 1 \in 1 .. n + 1
      BY <1>1, <2>2
    <3>2. q[j] = p[j] /\ q[j + 1] = p[j + 1] /\ tt[j] = ss[j]
      BY <1>4, <1>7, <3>1
    <3>3. \A y \in 1 .. l : y \in 1 .. l + m
      BY <1>2
    <3>4. q[j + 1] = q[j] + Len(tt[j])
      BY <1>6, <3>1, <3>2
    <3>5. ASSUME NEW x \in 1 .. Len(tt[j])
          PROVE  q[j] + x \in 1 .. l + m /\ h[q[j] + x] = tt[j][x]
      <4>1. p[j] + x \in 1 .. l /\ f[p[j] + x] = ss[j][x]
        BY <1>6, <3>1, <3>2
      <4> QED BY <1>5, <3>2, <3>3, <4>1
    <3> QED BY <3>4, <3>5
  <2> QED BY <2>1, <2>2
<1>9. n + 1 + 1 = n + 2 /\ 1 \in 1 .. n + 1
  BY <1>1
<1>10. Places(q, tt, h)
  BY <1>4, <1>5, <1>6, <1>7, <1>8, <1>9 DEF Places
<1> QED BY <1>3, <1>10

(* The places in a flat list. *)
LEMMA FlattenPlaces ==
  ASSUME NEW S, NEW ss \in Seq(Seq(S))
  PROVE  FlattenSeq(ss) \in Seq(S) /\ \E p : Places(p, ss, FlattenSeq(ss))
<1>1. PICK n \in Nat : n = Len(ss)
  OBVIOUS
<1> DEFINE pre(i) == SubSeq(ss, 1, i)
           T == {i \in 0 .. n : \E p : Places(p, pre(i), FlattenSeq(pre(i)))}
<1>2. ASSUME NEW i \in 0 .. n PROVE pre(i) \in Seq(Seq(S)) /\ Len(pre(i)) = i
  BY <1>1
<1>3. 0 \in T
  <2>1. pre(0) = <<>> /\ Len(pre(0)) = 0 /\ 0 \in 0 .. n
    BY <1>1
  <2>2. FlattenSeq(pre(0)) = <<>>
    BY <2>1 DEF FlattenSeq
  <2>3. Places([j \in 1 .. 1 |-> 0], <<>>, <<>>)
    BY DEF Places
  <2> QED BY <2>1, <2>2, <2>3
<1>4. ASSUME NEW i \in 1 .. n, i - 1 \in T PROVE i \in T
  <2>1. i - 1 \in 0 .. n /\ i \in 0 .. n /\ ss[i] \in Seq(S)
    BY <1>1
  <2>2. pre(i) = Append(pre(i - 1), ss[i])
    BY <1>1, <2>1
  <2>3. pre(i - 1) \in Seq(Seq(S))
    BY <1>2, <2>1
  <2>4. PICK p : Places(p, pre(i - 1), FlattenSeq(pre(i - 1)))
    BY <1>4
  <2> HIDE DEF pre
  <2>5. FlattenSeq(pre(i - 1)) \in Seq(S)
    BY <2>3, FlattenType
  <2>6. \E q : Places(q, Append(pre(i - 1), ss[i]), FlattenSeq(pre(i - 1)) \o ss[i])
    BY <2>1, <2>3, <2>4, <2>5, PlacesAppend
  <2>7. FlattenSeq(Append(pre(i - 1), ss[i])) = FlattenSeq(pre(i - 1)) \o ss[i]
    BY <2>1, <2>3, FlattenAppend
  <2> QED BY <2>1, <2>2, <2>6, <2>7
<1>5. n \in T
  <2> HIDE DEF T
  <2>1. 0 .. n \subseteq T
    BY <1>1, <1>3, <1>4, UpTo
  <2> QED BY <1>1, <2>1
<1>6. pre(n) = ss
  BY <1>1
<1> HIDE DEF pre
<1>7. \E p : Places(p, ss, FlattenSeq(ss))
  BY <1>5, <1>6
<1> QED BY <1>7, FlattenType
=============================================================================
