---------------------------- MODULE MemoryProofs ----------------------------
(***************************************************************************)
(* The memory of a program: the list of its areas in the kernel, for an    *)
(* address space and requests of any size, and its heap in libc, for a     *)
(* page of any power of two and any number of pages.  Then the kernel's    *)
(* physical pages: the radix tree on keys of any width, the object pools   *)
(* and the page allocator, for any memory map.                             *)
(***************************************************************************)
EXTENDS Frames, Areas, Malloc, ListLemmas, TLAPS

-----------------------------------------------------------------------------
(* The list of areas                                                       *)

\* v is a page of the area a.
In(v, a) == a.begin <= v /\ v < a.begin + a.len

\* Areas a program has mapped: not empty, between the limits, and with pages
\* of their own only.
Mapped ==
  {a \in Area : /\ a.len > 0 /\ Low <= a.begin /\ a.begin + a.len <= High
                /\ \A v \in a.pages : In(v, a)}

Before(a, b) == a.begin + a.len <= b.begin
Ordered(as) == \A i, j \in 1 .. Len(as) : i < j => Before(as[i], as[j])
Sound(as) == as \in Seq(Mapped) /\ Ordered(as)
AllPages(as) == UNION {as[i].pages : i \in 1 .. Len(as)}

\* The members of a list.
Mem(as) == {as[i] : i \in 1 .. Len(as)}

(* What the constants are. *)
LEMMA Limits ==
  Word \in Nat /\ Low \in Nat /\ High \in Nat /\ 0 < Low /\ Low < High /\ High < Word
  BY AreasAssumption

(* Numbers below Word do not wrap. *)
LEMMA NoWrapping ==
  ASSUME NEW x \in Nat, x < Word
  PROVE  x % Word = x
  BY Limits

(* The fields of an area. *)
LEMMA GoodArea ==
  ASSUME NEW a \in Mapped
  PROVE  /\ a \in Area /\ a.begin \in Nat /\ a.len \in Nat /\ a.len > 0 /\ Low <= a.begin
         /\ a.begin + a.len <= High /\ a.begin < Word /\ a.len < Word /\ a.hw \in BOOLEAN
         /\ a.pages \subseteq 0 .. Word - 1 /\ \A v \in a.pages : v \in Nat /\ In(v, a)
         /\ End(a) = a.begin + a.len
<1>1. a.begin \in 0 .. Word - 1 /\ a.len \in 0 .. Word - 1 /\ a.hw \in BOOLEAN
      /\ a.pages \subseteq 0 .. Word - 1
  BY DEF Mapped, Area
<1>2. a.len > 0 /\ Low <= a.begin /\ a.begin + a.len <= High /\ \A v \in a.pages : In(v, a)
  BY DEF Mapped
<1>3. PICK b \in Nat, l \in Nat : a.begin = b /\ a.len = l /\ b + l <= High
  BY <1>1, <1>2, Limits
<1>4. (b + l) % Word = b + l
  BY <1>3, Limits
<1>5. End(a) = b + l
  BY <1>3, <1>4 DEF End, Plus
<1>6. a \in Area
  BY DEF Mapped
<1> QED BY <1>1, <1>2, <1>3, <1>5, <1>6, Limits

(* Lists behind one another. *)
LEMMA JoinSound ==
  ASSUME NEW s, NEW q, Sound(s), Sound(q), \A a \in Mem(s), b \in Mem(q) : Before(a, b)
  PROVE  Sound(s \o q) /\ AllPages(s \o q) = AllPages(s) \cup AllPages(q) /\ Mem(s \o q) = Mem(s) \cup Mem(q)
<1>1. PICK m \in Nat, n \in Nat : m = Len(s) /\ n = Len(q)
  BY DEF Sound
<1>2. PICK c : c = s \o q
  OBVIOUS
<1>3. s \in Seq(Mapped) /\ q \in Seq(Mapped)
  BY DEF Sound
<1>4. c \in Seq(Mapped) /\ Joined(c, s, q)
  BY <1>2, <1>3, Join
<1>5. /\ Len(c) = m + n
      /\ \A i \in 1 .. m : c[i] = s[i]
      /\ \A i \in 1 .. n : c[m + i] = q[i]
  BY <1>1, <1>4 DEF Joined
<1>6. ASSUME NEW i \in 1 .. m + n, i > m
      PROVE  i - m \in 1 .. n /\ c[i] = q[i - m]
  <2>1. i - m \in 1 .. n /\ m + (i - m) = i
    BY <1>6
  <2> QED BY <1>5, <2>1
<1>7. Mem(c) = Mem(s) \cup Mem(q)
  <2>1. ASSUME NEW i \in 1 .. m + n PROVE c[i] \in Mem(s) \cup Mem(q)
    <3>1. CASE i <= m
      <4>1. i \in 1 .. m
        BY <3>1
      <4> QED BY <1>1, <1>5, <4>1 DEF Mem
    <3>2. CASE i > m
      BY <1>1, <1>6, <3>2 DEF Mem
    <3> QED BY <3>1, <3>2
  <2>2. ASSUME NEW i \in 1 .. m PROVE s[i] \in Mem(c)
    <3>1. i \in 1 .. m + n
      OBVIOUS
    <3> QED BY <1>5, <3>1 DEF Mem
  <2>3. ASSUME NEW i \in 1 .. n PROVE q[i] \in Mem(c)
    <3>1. m + i \in 1 .. m + n
      OBVIOUS
    <3>2. q[i] = c[m + i]
      BY <1>5
    <3> QED BY <1>5, <3>1, <3>2 DEF Mem
  <2>4. Mem(c) \subseteq Mem(s) \cup Mem(q)
    BY <1>5, <2>1 DEF Mem
  <2>5. Mem(s) \subseteq Mem(c)
    BY <1>1, <2>2 DEF Mem
  <2>6. Mem(q) \subseteq Mem(c)
    BY <1>1, <2>3 DEF Mem
  <2> QED BY <2>4, <2>5, <2>6
<1>8. Ordered(c)
  <2> SUFFICES ASSUME NEW i \in 1 .. m + n, NEW j \in 1 .. m + n, i < j
               PROVE  Before(c[i], c[j])
    BY <1>5 DEF Ordered
  <2>1. CASE j <= m
    <3>1. i \in 1 .. m /\ j \in 1 .. m
      BY <2>1
    <3> QED BY <1>1, <1>5, <3>1 DEF Sound, Ordered
  <2>2. CASE i <= m /\ j > m
    <3>1. i \in 1 .. m
      BY <2>2
    <3>2. c[i] \in Mem(s)
      BY <1>1, <1>5, <3>1 DEF Mem
    <3>3. c[j] \in Mem(q)
      BY <1>1, <1>6, <2>2 DEF Mem
    <3> QED BY <3>2, <3>3
  <2>3. CASE i > m
    <3>1. j > m
      BY <2>3
    <3>2. i - m \in 1 .. n /\ c[i] = q[i - m]
      BY <1>6, <2>3
    <3>3. j - m \in 1 .. n /\ c[j] = q[j - m]
      BY <1>6, <3>1
    <3>4. i - m < j - m
      OBVIOUS
    <3>5. Before(q[i - m], q[j - m])
      BY <1>1, <3>2, <3>3, <3>4 DEF Sound, Ordered
    <3> QED BY <3>2, <3>3, <3>5
  <2> QED BY <2>1, <2>2, <2>3
<1>9. \A x : AllPages(x) = UNION {a.pages : a \in Mem(x)}
  BY DEF AllPages, Mem
<1>10. AllPages(c) = AllPages(s) \cup AllPages(q)
  <2>1. UNION {a.pages : a \in Mem(s) \cup Mem(q)}
          = (UNION {a.pages : a \in Mem(s)}) \cup UNION {a.pages : a \in Mem(q)}
    OBVIOUS
  <2> QED BY <1>7, <1>9, <2>1
<1> QED BY <1>2, <1>4, <1>7, <1>8, <1>10 DEF Sound

(* A part of a list. *)
LEMMA PartSound ==
  ASSUME NEW s, Sound(s), NEW k \in 1 .. Len(s) + 1
  PROVE  /\ Sound(SubSeq(s, 1, k - 1)) /\ Mem(SubSeq(s, 1, k - 1)) = {s[i] : i \in 1 .. k - 1}
         /\ Sound(SubSeq(s, k, Len(s))) /\ Mem(SubSeq(s, k, Len(s))) = {s[i] : i \in k .. Len(s)}
<1>1. s \in Seq(Mapped) /\ Ordered(s)
  BY DEF Sound
<1>2. PICK n \in Nat : n = Len(s) /\ k \in Nat /\ 1 <= k /\ k <= n + 1
  BY <1>1
<1>3. PICK p : p = SubSeq(s, 1, k - 1)
  OBVIOUS
<1>4. p \in Seq(Mapped) /\ Len(p) = k - 1 /\ \A i \in 1 .. k - 1 : p[i] = s[i]
  BY <1>1, <1>2, <1>3
<1>5. Ordered(p)
  <2>1. \A i \in 1 .. k - 1 : i \in 1 .. n
    BY <1>2
  <2> QED BY <1>1, <1>2, <1>4, <2>1 DEF Ordered
<1>6. Mem(p) = {s[i] : i \in 1 .. k - 1}
  BY <1>4 DEF Mem
<1>7. PICK q : q = SubSeq(s, k, n)
  OBVIOUS
<1>8. q \in Seq(Mapped) /\ Len(q) = n - k + 1 /\ \A i \in 1 .. n - k + 1 : q[i] = s[i + k - 1]
  BY <1>1, <1>2, <1>7
<1>9. Ordered(q)
  <2> SUFFICES ASSUME NEW i \in 1 .. n - k + 1, NEW j \in 1 .. n - k + 1, i < j
               PROVE  Before(q[i], q[j])
    BY <1>8 DEF Ordered
  <2>1. i + k - 1 \in 1 .. n /\ j + k - 1 \in 1 .. n /\ i + k - 1 < j + k - 1
    BY <1>2
  <2>2. Before(s[i + k - 1], s[j + k - 1])
    BY <1>1, <1>2, <2>1 DEF Ordered
  <2> QED BY <1>8, <2>2
<1>10. Mem(q) = {s[i] : i \in k .. n}
  <2>1. ASSUME NEW i \in 1 .. n - k + 1 PROVE q[i] \in {s[j] : j \in k .. n}
    <3>1. i + k - 1 \in k .. n
      BY <1>2
    <3> QED BY <1>8, <3>1
  <2>2. ASSUME NEW j \in k .. n PROVE s[j] \in Mem(q)
    <3>1. j - k + 1 \in 1 .. n - k + 1 /\ (j - k + 1) + k - 1 = j
      BY <1>2
    <3>2. q[j - k + 1] = s[j]
      BY <1>8, <3>1
    <3> QED BY <1>8, <3>1, <3>2 DEF Mem
  <2>3. Mem(q) \subseteq {s[j] : j \in k .. n}
    BY <1>8, <2>1 DEF Mem
  <2> QED BY <2>2, <2>3
<1> QED BY <1>2, <1>3, <1>4, <1>5, <1>6, <1>7, <1>8, <1>9, <1>10 DEF Sound

(* A list of one. *)
LEMMA OneSound ==
  ASSUME NEW a \in Mapped
  PROVE  Sound(<<a>>) /\ Mem(<<a>>) = {a} /\ AllPages(<<a>>) = a.pages
<1>1. <<a>> \in Seq(Mapped) /\ Len(<<a>>) = 1 /\ <<a>>[1] = a
  OBVIOUS
<1>2. 1 .. 1 = {1}
  OBVIOUS
<1>3. Ordered(<<a>>)
  BY <1>1 DEF Ordered
<1>4. Mem(<<a>>) = {a}
  BY <1>1, <1>2 DEF Mem
<1>5. AllPages(<<a>>) = a.pages
  BY <1>1, <1>2 DEF AllPages
<1> QED BY <1>1, <1>3, <1>4, <1>5 DEF Sound

-----------------------------------------------------------------------------
(* Searching                                                               *)

(* The first hit. *)
LEMMA FirstIs ==
  ASSUME NEW n \in Nat, NEW ar, Len(ar) = n, NEW hits \in SUBSET (1 .. n)
  PROVE  /\ First(hits, ar) \in 1 .. n + 1
         /\ First(hits, ar) <= n => First(hits, ar) \in hits
         /\ \A i \in 1 .. n : i < First(hits, ar) => i \notin hits
         /\ \A i \in hits : First(hits, ar) <= i
<1> DEFINE I == hits \cup {n + 1}
<1>1. I \in SUBSET Nat /\ I # {}
  OBVIOUS
<1>2. PICK m : m = Min(I)
  OBVIOUS
<1>3. m \in I /\ \A i \in I : m <= i
  BY <1>1, <1>2, MinMember
<1>4. First(hits, ar) = m
  BY <1>2 DEF First
<1>5. m \in 1 .. n + 1 /\ (m <= n => m \in hits)
  BY <1>3
<1>6. \A i \in hits : m <= i
  BY <1>3
<1> QED BY <1>4, <1>5, <1>6

(* vma_find_by_vaddr finds the area around an address. *)
LEMMA FindIs ==
  ASSUME NEW ar, Sound(ar), NEW v \in Nat
  PROVE  /\ Find(ar, v) \in 0 .. Len(ar)
         /\ \A i \in 1 .. Len(ar) : Find(ar, v) = i <=> In(v, ar[i])
<1>1. ar \in Seq(Mapped) /\ Ordered(ar)
  BY DEF Sound
<1>2. PICK n \in Nat : n = Len(ar) /\ DOMAIN ar = 1 .. n
  BY <1>1
<1> DEFINE hits == {j \in 1 .. n : ar[j].begin > v \/ End(ar[j]) > v}
<1>3. PICK f : f = First(hits, ar)
  OBVIOUS
<1>4. Find(ar, v) = IF f \in 1 .. n /\ ar[f].begin <= v THEN f ELSE 0
  BY <1>2, <1>3 DEF Find
<1>5. /\ f \in 1 .. n + 1
      /\ f <= n => f \in hits
      /\ \A i \in hits : f <= i
  BY <1>2, <1>3, FirstIs
<1>6. ASSUME NEW j \in 1 .. n
      PROVE  /\ ar[j].begin \in Nat /\ ar[j].len \in Nat /\ ar[j].len > 0
             /\ End(ar[j]) = ar[j].begin + ar[j].len
  <2>1. ar[j] \in Mapped
    BY <1>1, <1>2
  <2> QED BY <2>1, GoodArea
<1>7. Find(ar, v) \in 0 .. n
  BY <1>4
<1>8. ASSUME NEW i \in 1 .. n, Find(ar, v) = i PROVE In(v, ar[i])
  <2>1. f = i /\ ar[i].begin <= v
    BY <1>4, <1>8
  <2>2. ar[i].begin > v \/ End(ar[i]) > v
    BY <1>5, <2>1
  <2>3. ar[i].begin \in Nat /\ End(ar[i]) = ar[i].begin + ar[i].len
    BY <1>6
  <2> QED BY <2>1, <2>2, <2>3 DEF In
<1>9. ASSUME NEW i \in 1 .. n, In(v, ar[i]) PROVE Find(ar, v) = i
  <2>1. PICK b \in Nat, l \in Nat : b = ar[i].begin /\ l = ar[i].len
    BY <1>6
  <2>2. b <= v /\ v < b + l /\ End(ar[i]) = b + l
    BY <1>6, <1>9, <2>1 DEF In
  <2>3. i \in hits
    BY <2>2
  <2>4. f <= i /\ f \in 1 .. n
    BY <1>5, <2>3
  <2>5. ASSUME f < i PROVE FALSE
    <3>1. Before(ar[f], ar[i])
      BY <1>1, <1>2, <2>4, <2>5 DEF Ordered
    <3>2. PICK c \in Nat, m \in Nat : c = ar[f].begin /\ m = ar[f].len /\ End(ar[f]) = c + m
      BY <1>6, <2>4
    <3>3. c + m <= b
      BY <2>1, <3>1, <3>2 DEF Before
    <3>4. c > v \/ c + m > v
      BY <1>5, <2>4, <3>2
    <3> QED BY <2>2, <3>2, <3>3, <3>4
  <2>6. f = i
    BY <2>4, <2>5
  <2> QED BY <1>4, <2>1, <2>2, <2>6
<1> HIDE DEF hits
<1> QED BY <1>2, <1>7, <1>8, <1>9

-----------------------------------------------------------------------------
(* Inserting                                                               *)

(* An area put between two parts of a list. *)
LEMMA InsertSound ==
  ASSUME NEW ar, Sound(ar), NEW k \in 1 .. Len(ar) + 1, NEW e \in Mapped,
         \A i \in 1 .. k - 1 : Before(ar[i], e), \A i \in k .. Len(ar) : Before(e, ar[i])
  PROVE  Sound(InsertAt(ar, k, e)) /\ AllPages(InsertAt(ar, k, e)) = AllPages(ar) \cup e.pages
         /\ e \in Mem(InsertAt(ar, k, e))
<1>1. PICK p, q : p = SubSeq(ar, 1, k - 1) /\ q = SubSeq(ar, k, Len(ar))
  OBVIOUS
<1>2. /\ Sound(p) /\ Mem(p) = {ar[i] : i \in 1 .. k - 1}
      /\ Sound(q) /\ Mem(q) = {ar[i] : i \in k .. Len(ar)}
  BY <1>1, PartSound
<1>3. PICK o : o = <<e>>
  OBVIOUS
<1>4. Sound(o) /\ Mem(o) = {e} /\ AllPages(o) = e.pages
  BY <1>3, OneSound
<1>5. \A a \in Mem(p), b \in Mem(o) : Before(a, b)
  BY <1>2, <1>4
<1>6. PICK r : r = p \o o
  OBVIOUS
<1>7. Sound(r) /\ AllPages(r) = AllPages(p) \cup AllPages(o) /\ Mem(r) = Mem(p) \cup Mem(o)
  BY <1>2, <1>4, <1>5, <1>6, JoinSound
<1>8. Len(ar) \in Nat /\ k \in Nat /\ 1 <= k /\ k <= Len(ar) + 1
  BY DEF Sound
<1>9. \A a \in Mem(p), b \in Mem(q) : Before(a, b)
  <2>1. ASSUME NEW i \in 1 .. k - 1, NEW j \in k .. Len(ar) PROVE Before(ar[i], ar[j])
    <3>1. i \in 1 .. Len(ar) /\ j \in 1 .. Len(ar) /\ i < j
      BY <1>8
    <3> QED BY <3>1 DEF Sound, Ordered
  <2> QED BY <1>2, <2>1
<1>10. \A a \in Mem(r), b \in Mem(q) : Before(a, b)
  BY <1>2, <1>4, <1>7, <1>9
<1>11. Sound(r \o q) /\ AllPages(r \o q) = AllPages(r) \cup AllPages(q) /\ Mem(r \o q) = Mem(r) \cup Mem(q)
  BY <1>2, <1>7, <1>10, JoinSound
<1>12. InsertAt(ar, k, e) = r \o q
  BY <1>1, <1>3, <1>6 DEF InsertAt
<1>13. AllPages(p) \cup AllPages(q) = AllPages(ar)
  <2>1. \A x : AllPages(x) = UNION {a.pages : a \in Mem(x)}
    BY DEF AllPages, Mem
  <2>2. Mem(p) \cup Mem(q) = Mem(ar)
    <3>1. 1 .. Len(ar) = (1 .. k - 1) \cup (k .. Len(ar))
      BY <1>8
    <3> QED BY <1>2, <3>1 DEF Mem
  <2> QED BY <2>1, <2>2
<1>14. AllPages(r \o q) = AllPages(ar) \cup e.pages
  BY <1>4, <1>7, <1>11, <1>13
<1>15. e \in Mem(r \o q)
  BY <1>4, <1>7, <1>11
<1> QED BY <1>11, <1>12, <1>14, <1>15

\* The place pl is a gap of the list ar, of n pages or more.
Gap(ar, pl, n) ==
  /\ pl.at \in 1 .. Len(ar) + 1 /\ pl.begin \in Nat
  /\ Low <= pl.begin /\ pl.begin + n <= High
  /\ \A i \in 1 .. pl.at - 1 : ar[i].begin + ar[i].len <= pl.begin
  /\ \A i \in pl.at .. Len(ar) : pl.begin + n <= ar[i].begin

(* The areas of a sound list, in numbers. *)
LEMMA SoundAreas ==
  ASSUME NEW ar, Sound(ar)
  PROVE  /\ ar \in Seq(Mapped) /\ Len(ar) \in Nat /\ DOMAIN ar = 1 .. Len(ar)
         /\ \A i \in 1 .. Len(ar) :
              /\ ar[i] \in Mapped /\ ar[i].begin \in Nat /\ ar[i].len \in Nat /\ ar[i].len > 0
              /\ Low <= ar[i].begin /\ ar[i].begin + ar[i].len <= High
              /\ End(ar[i]) = ar[i].begin + ar[i].len
         /\ \A i, j \in 1 .. Len(ar) : i < j => ar[i].begin + ar[i].len <= ar[j].begin
<1>1. ar \in Seq(Mapped) /\ Ordered(ar)
  BY DEF Sound
<1>2. Len(ar) \in Nat /\ DOMAIN ar = 1 .. Len(ar) /\ \A i \in 1 .. Len(ar) : ar[i] \in Mapped
  BY <1>1
<1> QED BY <1>1, <1>2, GoodArea DEF Ordered, Before

(* From the first area above a place on, all areas are above it. *)
LEMMA AboveFrom ==
  ASSUME NEW ar, Sound(ar), NEW k \in 1 .. Len(ar), NEW t \in Nat, t <= ar[k].begin
  PROVE  \A i \in k .. Len(ar) : t <= ar[i].begin
<1> SUFFICES ASSUME NEW i \in k .. Len(ar) PROVE t <= ar[i].begin
  OBVIOUS
<1>1. Len(ar) \in Nat /\ i \in 1 .. Len(ar) /\ (i = k \/ k < i)
  BY SoundAreas
<1>2. PICK b \in Nat, l \in Nat : b = ar[k].begin /\ l = ar[k].len
  BY SoundAreas
<1>3. PICK c \in Nat : c = ar[i].begin /\ (k < i => b + l <= c)
  BY <1>1, <1>2, SoundAreas
<1> QED BY <1>1, <1>2, <1>3

(* insert_vma_to_vaddr finds a gap at the address, or refuses. *)
LEMMA ToVaddrGap ==
  ASSUME NEW ar, Sound(ar), NEW v \in Nat, NEW n \in Nat, v + n <= High,
         ToVaddr(ar, v, n).at # 0
  PROVE  Gap(ar, ToVaddr(ar, v, n), n)
<1>1. PICK m \in Nat : m = Len(ar) /\ DOMAIN ar = 1 .. m
  BY SoundAreas
<1>2. Plus(v, n) = v + n
  BY Limits DEF Plus
<1> DEFINE hits == {i \in 1 .. m : ar[i].begin >= v + n}
<1>3. PICK s : s = First(hits, ar)
  OBVIOUS
<1>4. /\ s \in 1 .. m + 1
      /\ s <= m => s \in hits
  BY <1>1, <1>3, FirstIs
<1>5. Refused.at = 0
  BY DEF Refused
<1>6. ToVaddr(ar, v, n) = IF v < Low \/ v > High \/ \E i \in 1 .. s - 1 : End(ar[i]) > v
                          THEN Refused ELSE [at |-> s, begin |-> v]
  BY <1>1, <1>2, <1>3 DEF ToVaddr
<1>7. ~(v < Low) /\ ToVaddr(ar, v, n) = [at |-> s, begin |-> v]
      /\ ~\E i \in 1 .. s - 1 : End(ar[i]) > v
  BY <1>5, <1>6
<1>8. ASSUME NEW i \in 1 .. s - 1 PROVE ar[i].begin + ar[i].len <= v
  <2>1. i \in 1 .. m /\ ~(End(ar[i]) > v)
    BY <1>4, <1>7
  <2>2. PICK b \in Nat, l \in Nat : b = ar[i].begin /\ l = ar[i].len /\ End(ar[i]) = b + l
    BY <1>1, <2>1, SoundAreas
  <2> QED BY <2>1, <2>2
<1>9. ASSUME s <= m PROVE \A i \in s .. m : v + n <= ar[i].begin
  <2>1. s \in 1 .. m /\ ar[s].begin >= v + n
    BY <1>4, <1>9
  <2>2. ar[s].begin \in Nat
    BY <1>1, <2>1, SoundAreas
  <2>3. v + n \in Nat /\ v + n <= ar[s].begin
    BY <2>1, <2>2
  <2> QED BY <1>1, <2>1, <2>3, AboveFrom
<1> HIDE DEF hits
<1>10. \A i \in s .. m : v + n <= ar[i].begin
  BY <1>4, <1>9
<1>11. PICK pl : pl = ToVaddr(ar, v, n) /\ pl.at = s /\ pl.begin = v
  BY <1>7
<1>12. Low <= v
  BY <1>7, Limits
<1> QED BY <1>1, <1>4, <1>8, <1>10, <1>11, <1>12 DEF Gap

(* insert_vma_to_any finds a gap, or refuses. *)
LEMMA ToAnyGap ==
  ASSUME NEW ar, Sound(ar), NEW n \in Nat, High + n < Word, ToAny(ar, n).at # 0
  PROVE  Gap(ar, ToAny(ar, n), n)
<1>1. PICK m \in Nat : m = Len(ar) /\ DOMAIN ar = 1 .. m
  BY SoundAreas
<1> DEFINE addr(i) == IF i = 1 THEN Low ELSE End(ar[i - 1])
<1>2. ASSUME NEW i \in 1 .. m + 1
      PROVE  addr(i) \in Nat /\ Low <= addr(i) /\ addr(i) <= High
  <2>1. CASE i = 1
    BY <2>1, Limits
  <2>2. CASE i # 1
    <3>1. i - 1 \in 1 .. m
      BY <2>2
    <3>2. PICK b \in Nat, l \in Nat : Low <= b /\ b + l <= High /\ End(ar[i - 1]) = b + l
      BY <1>1, <3>1, SoundAreas
    <3> QED BY <2>2, <3>2, Limits
  <2> QED BY <2>1, <2>2
<1>3. ASSUME NEW i \in 1 .. m + 1 PROVE Plus(addr(i), n) = addr(i) + n
  <2>1. PICK x \in Nat : x = addr(i) /\ x <= High
    BY <1>2
  <2>2. x + n \in Nat /\ x + n < Word
    BY <2>1, Limits
  <2>3. (x + n) % Word = x + n
    BY <2>2, NoWrapping
  <2> QED BY <2>1, <2>3 DEF Plus
<1> DEFINE hits == {i \in 1 .. m : ar[i].begin >= Plus(addr(i), n)}
<1>4. PICK s : s = First(hits, ar)
  OBVIOUS
<1>5. /\ s \in 1 .. m + 1
      /\ s <= m => s \in hits
  BY <1>1, <1>4, FirstIs
<1>6. Refused.at = 0
  BY DEF Refused
<1>7. ToAny(ar, n) = IF s > m /\ High < Plus(addr(s), n) THEN Refused
                     ELSE [at |-> s, begin |-> addr(s)]
  BY <1>1, <1>4 DEF ToAny
<1>8. ToAny(ar, n) = [at |-> s, begin |-> addr(s)] /\ ~(s > m /\ High < Plus(addr(s), n))
  BY <1>6, <1>7
<1>9. PICK x \in Nat : x = addr(s) /\ Low <= x /\ x <= High /\ Plus(addr(s), n) = x + n
  BY <1>2, <1>3, <1>5
<1>10. ASSUME s <= m PROVE x + n <= High /\ \A i \in s .. m : x + n <= ar[i].begin
  <2>1. s \in 1 .. m /\ ar[s].begin >= x + n
    BY <1>5, <1>9, <1>10
  <2>2. ar[s].begin \in Nat /\ ar[s].len \in Nat /\ ar[s].begin + ar[s].len <= High
    BY <1>1, <2>1, SoundAreas
  <2>3. x + n \in Nat /\ x + n <= ar[s].begin
    BY <2>1, <2>2
  <2>4. \A i \in s .. m : x + n <= ar[i].begin
    BY <1>1, <2>1, <2>3, AboveFrom
  <2>5. x + n <= High
    BY <2>2, <2>3, Limits
  <2> QED BY <2>4, <2>5
<1>11. ASSUME NEW i \in 1 .. s - 1 PROVE ar[i].begin + ar[i].len <= x
  <2>1. i \in 1 .. m /\ s - 1 \in 1 .. m /\ s # 1 /\ (i = s - 1 \/ i < s - 1)
    BY <1>5
  <2>2. x = End(ar[s - 1])
    BY <1>9, <2>1
  <2>3. PICK b \in Nat, l \in Nat : b = ar[i].begin /\ l = ar[i].len
    BY <1>1, <2>1, SoundAreas
  <2>4. PICK c \in Nat, k \in Nat : c = ar[s - 1].begin /\ k = ar[s - 1].len /\ x = c + k
    BY <1>1, <2>1, <2>2, SoundAreas
  <2>5. i < s - 1 => b + l <= c
    BY <1>1, <2>1, <2>3, <2>4, SoundAreas
  <2>6. i = s - 1 => b = c /\ l = k
    BY <2>3, <2>4
  <2>7. b + l <= x
    BY <2>1, <2>3, <2>4, <2>5, <2>6
  <2> QED BY <2>3, <2>7
<1>12. x + n <= High /\ \A i \in s .. m : x + n <= ar[i].begin
  <2>1. CASE s > m
    <3>1. x + n <= High
      BY <1>8, <1>9, <2>1, Limits
    <3>2. s .. m = {}
      BY <1>5, <2>1
    <3> QED BY <3>1, <3>2
  <2>2. CASE s <= m
    BY <1>10, <2>2
  <2> QED BY <1>5, <2>1, <2>2
<1>13. PICK pl : pl = ToAny(ar, n)
  OBVIOUS
<1>14. pl.at = s /\ pl.begin = x
  BY <1>8, <1>9, <1>13
<1> HIDE DEF hits, addr
<1>15. Gap(ar, pl, n)
  BY <1>1, <1>5, <1>9, <1>11, <1>12, <1>14 DEF Gap
<1> QED BY <1>13, <1>15

\* The list with is a list without, and with a new area at a gap.
Filled(with, without, pl, n) ==
  /\ Sound(with) /\ AllPages(with) = AllPages(without)
  /\ \E i \in 1 .. Len(with) : with[i].begin = pl.begin /\ with[i].len = n

(* An area may go into a gap. *)
LEMMA FillGap ==
  ASSUME NEW ar, Sound(ar), NEW pl, NEW n \in Nat, n > 0, Gap(ar, pl, n), NEW hw \in BOOLEAN
  PROVE  Filled(Insert(ar, pl, n, hw), ar, pl, n)
<1>1. PICK e : e = [begin |-> pl.begin, len |-> n, hw |-> hw, pages |-> {}]
  OBVIOUS
<1>2. e.begin = pl.begin /\ e.len = n /\ e.pages = {}
  BY <1>1
<1>3. PICK b \in Nat, k \in 1 .. Len(ar) + 1 : b = pl.begin /\ k = pl.at /\ Low <= b /\ b + n <= High
  BY DEF Gap
<1>4. e \in Area
  <2>1. b \in 0 .. Word - 1 /\ n \in 0 .. Word - 1
    BY <1>3, Limits
  <2> QED BY <1>1, <1>3, <2>1 DEF Area
<1>5. e \in Mapped
  BY <1>2, <1>3, <1>4 DEF Mapped
<1>6. /\ k \in 1 .. Len(ar) + 1
      /\ \A i \in 1 .. k - 1 : Before(ar[i], e)
      /\ \A i \in k .. Len(ar) : Before(e, ar[i])
  BY <1>2, <1>3 DEF Gap, Before
<1>7. PICK c : c = InsertAt(ar, k, e)
  OBVIOUS
<1>8. Sound(c) /\ AllPages(c) = AllPages(ar) \cup e.pages /\ e \in Mem(c)
  BY <1>5, <1>6, <1>7, InsertSound
<1>9. Filled(c, ar, pl, n)
  BY <1>2, <1>8 DEF Filled, Mem
<1> QED BY <1>1, <1>3, <1>7, <1>9 DEF Insert

-----------------------------------------------------------------------------
(* AllPages                                                                   *)

(* AllPages are put on the list of the area around them. *)
LEMMA AssignSound ==
  ASSUME NEW ar, Sound(ar), NEW vs \in SUBSET Nat
  PROVE  Sound(Assign(ar, vs)) /\ AllPages(Assign(ar, vs)) = AllPages(ar) \cup Assigned(ar, vs)
<1>1. PICK n \in Nat : n = Len(ar) /\ DOMAIN ar = 1 .. n
  BY SoundAreas
<1> DEFINE X(i) == (ar[i].pages \ Assigned(ar, vs)) \cup {v \in vs : Find(ar, v) = i}
<1>2. PICK r : r = Assign(ar, vs)
  OBVIOUS
<1>3. r = [i \in 1 .. n |-> [ar[i] EXCEPT !.pages = X(i)]]
  BY <1>1, <1>2 DEF Assign, Assigned
<1>4. ASSUME NEW i \in 1 .. n
      PROVE  /\ r[i] \in Mapped /\ r[i].begin = ar[i].begin /\ r[i].len = ar[i].len
             /\ r[i].pages = X(i)
  <2>1. PICK a \in Mapped : a = ar[i]
    BY <1>1, SoundAreas
  <2>2. PICK z : z = X(i)
    OBVIOUS
  <2>3. r[i] = [a EXCEPT !.pages = z]
    BY <1>3, <2>1, <2>2
  <2>4. ASSUME NEW v \in z PROVE In(v, a) /\ v \in Nat
    <3>1. CASE v \in a.pages
      BY <3>1, GoodArea
    <3>2. CASE v \in vs /\ Find(ar, v) = i
      BY <1>1, <2>1, <3>2, FindIs
    <3>3. v \in a.pages \/ (v \in vs /\ Find(ar, v) = i)
      BY <2>1, <2>2
    <3> QED BY <3>1, <3>2, <3>3
  <2>5. z \subseteq 0 .. Word - 1
    <3> SUFFICES ASSUME NEW v \in z PROVE v \in 0 .. Word - 1
      OBVIOUS
    <3>1. PICK b \in Nat, l \in Nat : b = a.begin /\ l = a.len /\ b + l <= High
      BY GoodArea
    <3>2. v \in Nat /\ v < b + l
      BY <2>4, <3>1 DEF In
    <3> QED BY <3>1, <3>2, Limits
  <2>6. a \in Area
    BY GoodArea
  <2>7. /\ r[i] \in Area /\ r[i].begin = a.begin /\ r[i].len = a.len /\ r[i].pages = z
    BY <2>3, <2>5, <2>6 DEF Area
  <2>8. a.len > 0 /\ Low <= a.begin /\ a.begin + a.len <= High
    BY GoodArea
  <2>9. \A v \in z : In(v, r[i])
    BY <2>4, <2>7 DEF In
  <2>10. r[i] \in Mapped
    BY <2>7, <2>8, <2>9 DEF Mapped
  <2> QED BY <2>1, <2>2, <2>7, <2>10
<1>5. r \in Seq(Mapped) /\ Len(r) = n
  <2>1. r \in [1 .. n -> Mapped]
    BY <1>3, <1>4
  <2> QED BY <2>1
<1> HIDE DEF X
<1>6. Ordered(r)
  BY <1>1, <1>4, <1>5 DEF Sound, Ordered, Before
<1>7. AllPages(r) \subseteq AllPages(ar) \cup Assigned(ar, vs)
  <2> SUFFICES ASSUME NEW i \in 1 .. n, NEW v \in r[i].pages
               PROVE  v \in AllPages(ar) \cup Assigned(ar, vs)
    BY <1>5 DEF AllPages
  <2>1. v \in ar[i].pages \/ (v \in vs /\ Find(ar, v) = i)
    BY <1>4 DEF X
  <2>2. i # 0
    OBVIOUS
  <2> QED BY <1>1, <2>1, <2>2 DEF AllPages, Assigned
<1>8. Assigned(ar, vs) \subseteq AllPages(r)
  <2> SUFFICES ASSUME NEW v \in vs, Find(ar, v) # 0 PROVE v \in AllPages(r)
    BY DEF Assigned
  <2>1. PICK i : i = Find(ar, v)
    OBVIOUS
  <2>2. i \in 1 .. n
    BY <1>1, <2>1, FindIs
  <2>3. v \in r[i].pages
    BY <1>4, <2>1, <2>2 DEF X
  <2> QED BY <1>5, <2>2, <2>3 DEF AllPages
<1>9. AllPages(ar) \ Assigned(ar, vs) \subseteq AllPages(r)
  <2> SUFFICES ASSUME NEW i \in 1 .. n, NEW v \in ar[i].pages, v \notin Assigned(ar, vs)
               PROVE  v \in AllPages(r)
    BY <1>1 DEF AllPages
  <2>1. v \in r[i].pages
    BY <1>4 DEF X
  <2> QED BY <1>5, <2>1 DEF AllPages
<1>10. AllPages(r) = AllPages(ar) \cup Assigned(ar, vs)
  BY <1>7, <1>8, <1>9
<1> QED BY <1>2, <1>5, <1>6, <1>10 DEF Sound

-----------------------------------------------------------------------------
(* Removing a range                                                        *)

Hits(v, base, top) == base <= v /\ v < top
Holds(p, v) == \E x \in Mem(p) : In(v, x)
Within(x, a) == a.begin <= x.begin /\ x.begin + x.len <= a.begin + a.len

\* p is what is left of a.
Left(p, a, base, top) ==
  /\ Sound(p) /\ \A x \in Mem(p) : Within(x, a)
  /\ AllPages(p) = {v \in a.pages : ~Hits(v, base, top)}
  /\ \A v \in Nat : Holds(p, v) <=> In(v, a) /\ ~Hits(v, base, top)

(* A smaller area. *)
LEMMA SmallerArea ==
  ASSUME NEW a \in Mapped, NEW x \in Area, x.len > 0, Within(x, a), x.pages \subseteq a.pages,
         \A v \in x.pages : In(v, x)
  PROVE  x \in Mapped
<1>1. PICK b \in Nat, l \in Nat : b = a.begin /\ l = a.len /\ Low <= b /\ b + l <= High
  BY GoodArea
<1>2. x.begin \in 0 .. Word - 1 /\ x.len \in 0 .. Word - 1
  BY DEF Area
<1>3. PICK c \in Nat, m \in Nat : c = x.begin /\ m = x.len /\ b <= c /\ c + m <= b + l
  BY <1>1, <1>2, Limits DEF Within
<1>4. Low <= c /\ c + m <= High
  BY <1>1, <1>3, Limits
<1> QED BY <1>3, <1>4 DEF Mapped

(* One area is left. *)
LEMMA OneLeft ==
  ASSUME NEW a \in Mapped, NEW x \in Area, x.len > 0, Within(x, a), NEW base \in Nat, NEW top \in Nat,
         x.pages = {v \in a.pages : ~Hits(v, base, top)},
         \A v \in Nat : In(v, x) <=> In(v, a) /\ ~Hits(v, base, top)
  PROVE  Left(<<x>>, a, base, top)
<1>1. \A v \in a.pages : v \in Nat /\ In(v, a)
  BY GoodArea
<1>2. x \in Mapped
  BY <1>1, SmallerArea
<1>3. Sound(<<x>>) /\ Mem(<<x>>) = {x} /\ AllPages(<<x>>) = x.pages
  BY <1>2, OneSound
<1> QED BY <1>3 DEF Left, Holds

(* Nothing is left. *)
LEMMA NoneLeft ==
  ASSUME NEW a \in Mapped, NEW base \in Nat, NEW top \in Nat, \A v \in Nat : In(v, a) => Hits(v, base, top)
  PROVE  Left(<<>>, a, base, top)
<1>1. <<>> \in Seq(Mapped) /\ 1 .. Len(<<>>) = {}
  OBVIOUS
<1>2. Sound(<<>>) /\ Mem(<<>>) = {} /\ AllPages(<<>>) = {}
  BY <1>1 DEF Sound, Ordered, Mem, AllPages
<1>3. \A v \in a.pages : v \in Nat /\ In(v, a)
  BY GoodArea
<1> QED BY <1>2, <1>3 DEF Left, Holds

(* Two areas are left. *)
LEMMA TwoLeft ==
  ASSUME NEW a \in Mapped, NEW x \in Area, NEW y \in Area, x.len > 0, y.len > 0,
         Within(x, a), Within(y, a), Before(x, y), NEW base \in Nat, NEW top \in Nat,
         x.pages \cup y.pages = {v \in a.pages : ~Hits(v, base, top)},
         \A v \in x.pages : In(v, x), \A v \in y.pages : In(v, y),
         \A v \in Nat : In(v, x) \/ In(v, y) <=> In(v, a) /\ ~Hits(v, base, top)
  PROVE  Left(<<x, y>>, a, base, top)
<1>1. x \in Mapped
  BY SmallerArea
<1>2. y \in Mapped
  BY SmallerArea
<1>3. PICK s, q : s = <<x>> /\ q = <<y>>
  OBVIOUS
<1>4. Sound(s) /\ Mem(s) = {x} /\ AllPages(s) = x.pages
  BY <1>1, <1>3, OneSound
<1>5. Sound(q) /\ Mem(q) = {y} /\ AllPages(q) = y.pages
  BY <1>2, <1>3, OneSound
<1>6. \A b \in Mem(s), c \in Mem(q) : Before(b, c)
  BY <1>4, <1>5
<1>7. PICK r : r = s \o q
  OBVIOUS
<1>8. Sound(r) /\ AllPages(r) = AllPages(s) \cup AllPages(q) /\ Mem(r) = Mem(s) \cup Mem(q)
  BY <1>4, <1>5, <1>6, <1>7, JoinSound
<1>9. r = <<x, y>>
  <2>1. Len(r) = 2 /\ r[1] = x /\ r[2] = y
    BY <1>3, <1>7
  <2>2. r \in Seq(Mapped) /\ <<x, y>> \in Seq(Mapped)
    BY <1>1, <1>2, <1>8 DEF Sound
  <2> QED BY <2>1, <2>2
<1>10. Mem(r) = {x, y} /\ AllPages(r) = x.pages \cup y.pages
  BY <1>4, <1>5, <1>8
<1>11. Left(r, a, base, top)
  BY <1>8, <1>10 DEF Left, Holds
<1> QED BY <1>9, <1>11

(* Differences of addresses. *)
LEMMA MinusIs ==
  ASSUME NEW x \in Nat, NEW y \in Nat, y <= x, x < Word
  PROVE  Minus(x, y) = x - y
  BY Limits DEF Minus

(* remove_vma_range keeps of an area what is outside the range. *)
LEMMA PiecesLeft ==
  ASSUME NEW a \in Mapped, NEW base \in Nat, NEW top \in Nat, base <= top, NEW junk \in BOOLEAN
  PROVE  Left(Pieces(a, base, top, junk), a, base, top)
<1>1. PICK b \in Nat, l \in Nat :
        b = a.begin /\ l = a.len /\ l > 0 /\ Low <= b /\ b + l <= High /\ End(a) = b + l
  BY GoodArea
<1>2. a \in Area /\ \A v \in a.pages : v \in Nat /\ b <= v /\ v < b + l
  BY <1>1, GoodArea DEF In
<1>3. a.pages \subseteq 0 .. Word - 1
  BY GoodArea
<1> DEFINE rest == {v \in a.pages : v < base \/ v >= top}
           upper == {v \in a.pages : v >= top}
<1>4. rest = {v \in a.pages : ~Hits(v, base, top)} /\ upper = UpperPages(a, top)
  BY <1>2 DEF Hits, UpperPages
<1>5. Inside(a, base, top) <=> b >= base /\ b + l <= top
  BY <1>1 DEF Inside
<1>6. Spans(a, base, top) <=> b < base /\ b + l > top
  BY <1>1 DEF Spans
<1>7. \A v \in Nat : In(v, a) <=> b <= v /\ v < b + l
  BY <1>1 DEF In
<1>8. CASE b + l <= base \/ b >= top
  <2>1. Pieces(a, base, top, junk) = <<a>>
    BY <1>1, <1>8 DEF Pieces
  <2>2. a.pages = {v \in a.pages : ~Hits(v, base, top)}
    BY <1>2, <1>8 DEF Hits
  <2>3. \A v \in Nat : In(v, a) <=> In(v, a) /\ ~Hits(v, base, top)
    BY <1>7, <1>8 DEF Hits
  <2>4. Within(a, a)
    BY <1>1 DEF Within
  <2>5. a.len > 0
    BY <1>1
  <2> QED BY <1>2, <2>1, <2>2, <2>3, <2>4, <2>5, OneLeft
<1>9. CASE b + l > base /\ b < top /\ b >= base /\ b + l <= top
  <2>1. Pieces(a, base, top, junk) = <<>>
    <3>1. ~(End(a) <= base \/ a.begin >= top) /\ End(a) > base /\ a.begin < top
          /\ Inside(a, base, top)
      BY <1>1, <1>5, <1>9
    <3>2. ~Spans(a, base, top)
      BY <1>6, <1>9
    <3> QED BY <3>1, <3>2 DEF Pieces
  <2>2. \A v \in Nat : In(v, a) => Hits(v, base, top)
    BY <1>7, <1>9 DEF Hits
  <2> QED BY <2>1, <2>2, NoneLeft
<1>10. CASE b + l > base /\ b < top /\ b < base /\ b + l > top
  <2>1. Minus(base, b) = base - b
    <3>1. b <= base /\ base < Word
      BY <1>1, <1>10, Limits
    <3> QED BY <3>1, MinusIs
  <2>2. Minus(b + l, top) = b + l - top
    <3>1. b + l \in Nat /\ top <= b + l /\ b + l < Word
      BY <1>1, <1>10, Limits
    <3> QED BY <3>1, MinusIs
  <2>3. PICK x : x = [a EXCEPT !.len = base - b, !.pages = rest \ upper]
    OBVIOUS
  <2>4. PICK y : y = [begin |-> top, len |-> b + l - top, hw |-> junk, pages |-> upper]
    OBVIOUS
  <2>5. Pieces(a, base, top, junk) = <<x, y>>
    <3>1. ~(End(a) <= base \/ a.begin >= top) /\ End(a) > base /\ a.begin < top
          /\ Spans(a, base, top) /\ ~Inside(a, base, top)
      BY <1>1, <1>5, <1>6, <1>10
    <3>2. x = [a EXCEPT !.len = Minus(base, a.begin), !.pages = rest \ UpperPages(a, top)]
      BY <1>1, <1>4, <2>1, <2>3
    <3>3. y = [begin |-> top, len |-> Minus(End(a), top), hw |-> junk, pages |-> UpperPages(a, top)]
      BY <1>1, <1>4, <2>2, <2>4
    <3> QED BY <3>1, <3>2, <3>3 DEF Pieces
  <2>6. x \in Area /\ x.begin = b /\ x.len = base - b /\ x.pages = rest \ upper
    <3>1. base - b \in 0 .. Word - 1 /\ rest \ upper \in SUBSET (0 .. Word - 1)
      BY <1>1, <1>3, <1>10, Limits
    <3> HIDE DEF rest, upper
    <3> QED BY <1>1, <1>2, <2>3, <3>1 DEF Area
  <2>7. y \in Area /\ y.begin = top /\ y.len = b + l - top /\ y.pages = upper
    <3>1. b + l - top \in 0 .. Word - 1 /\ upper \in SUBSET (0 .. Word - 1) /\ top \in 0 .. Word - 1
      BY <1>1, <1>3, <1>10, Limits
    <3> HIDE DEF rest, upper
    <3> QED BY <2>4, <3>1 DEF Area
  <2>8. x.len > 0 /\ y.len > 0
    BY <1>1, <1>10, <2>6, <2>7
  <2>9. Within(x, a) /\ Within(y, a) /\ Before(x, y)
    <3>1. b <= b /\ b + (base - b) <= b + l /\ b <= top /\ top + (b + l - top) <= b + l
          /\ b + (base - b) <= top
      BY <1>1, <1>10
    <3> QED BY <1>1, <2>6, <2>7, <3>1 DEF Within, Before
  <2>10. x.pages \cup y.pages = {v \in a.pages : ~Hits(v, base, top)}
    <3>1. (rest \ upper) \cup upper = rest
      OBVIOUS
    <3> QED BY <1>4, <2>6, <2>7, <3>1
  <2>11. \A v \in x.pages : In(v, x)
    <3>1. \A v \in rest \ upper : v \in Nat /\ b <= v /\ v < b + (base - b)
      BY <1>2
    <3> QED BY <2>6, <3>1 DEF In
  <2>12. \A v \in y.pages : In(v, y)
    <3>1. \A v \in upper : v \in Nat /\ top <= v /\ v < top + (b + l - top)
      BY <1>2
    <3> QED BY <2>7, <3>1 DEF In
  <2>13. \A v \in Nat : In(v, x) \/ In(v, y) <=> In(v, a) /\ ~Hits(v, base, top)
    <3> SUFFICES ASSUME NEW v \in Nat
                 PROVE  In(v, x) \/ In(v, y) <=> In(v, a) /\ ~Hits(v, base, top)
      OBVIOUS
    <3>1. In(v, x) <=> b <= v /\ v < base
      BY <2>6 DEF In
    <3>2. In(v, y) <=> top <= v /\ v < b + l
      BY <2>7 DEF In
    <3>3. In(v, a) <=> b <= v /\ v < b + l
      BY <1>7
    <3>4. (b <= v /\ v < base) \/ (top <= v /\ v < b + l)
            <=> b <= v /\ v < b + l /\ ~(base <= v /\ v < top)
      BY <1>10
    <3> QED BY <3>1, <3>2, <3>3, <3>4 DEF Hits
  <2> HIDE DEF rest, upper
  <2>14. Left(<<x, y>>, a, base, top)
    BY <2>6, <2>7, <2>8, <2>9, <2>10, <2>11, <2>12, <2>13, TwoLeft
  <2> QED BY <2>5, <2>14
<1>11. CASE b + l > base /\ b < top /\ b < base /\ b + l <= top
  <2>1. Minus(base, b) = base - b
    <3>1. b <= base /\ base < Word
      BY <1>1, <1>11, Limits
    <3> QED BY <3>1, MinusIs
  <2>2. PICK x : x = [a EXCEPT !.len = base - b, !.pages = rest]
    OBVIOUS
  <2>3. Pieces(a, base, top, junk) = <<x>>
    BY <1>1, <1>5, <1>6, <1>11, <2>1, <2>2 DEF Pieces
  <2>4. x \in Area /\ x.begin = b /\ x.len = base - b /\ x.pages = rest
    <3>1. base - b \in 0 .. Word - 1 /\ rest \in SUBSET (0 .. Word - 1)
      BY <1>1, <1>3, <1>11, Limits
    <3> HIDE DEF rest
    <3> QED BY <1>1, <1>2, <2>2, <3>1 DEF Area
  <2>5. x.len > 0
    BY <1>11, <2>4
  <2>6. Within(x, a)
    <3>1. b <= b /\ b + (base - b) <= b + l
      BY <1>1, <1>11
    <3> QED BY <1>1, <2>4, <3>1 DEF Within
  <2>7. \A v \in Nat : In(v, x) <=> In(v, a) /\ ~Hits(v, base, top)
    <3> SUFFICES ASSUME NEW v \in Nat PROVE In(v, x) <=> In(v, a) /\ ~Hits(v, base, top)
      OBVIOUS
    <3>1. In(v, x) <=> b <= v /\ v < base
      BY <2>4 DEF In
    <3>2. In(v, a) <=> b <= v /\ v < b + l
      BY <1>7
    <3> QED BY <1>11, <3>1, <3>2 DEF Hits
  <2> HIDE DEF rest
  <2> QED BY <1>4, <2>3, <2>4, <2>5, <2>6, <2>7, OneLeft
<1>12. CASE b + l > base /\ b < top /\ b >= base /\ b + l > top
  <2>1. Minus(b + l, top) = b + l - top
    <3>1. b + l \in Nat /\ top <= b + l /\ b + l < Word
      BY <1>1, <1>12, Limits
    <3> QED BY <3>1, MinusIs
  <2>2. PICK x : x = [a EXCEPT !.begin = top, !.len = b + l - top, !.pages = rest]
    OBVIOUS
  <2>3. Pieces(a, base, top, junk) = <<x>>
    <3>1. ~(End(a) <= base \/ a.begin >= top) /\ End(a) > base /\ a.begin < top
          /\ ~Spans(a, base, top) /\ ~Inside(a, base, top) /\ ~(a.begin < base)
      BY <1>1, <1>5, <1>6, <1>12
    <3>2. x = [a EXCEPT !.begin = top, !.len = Minus(End(a), top), !.pages = rest]
      BY <1>1, <2>1, <2>2
    <3> QED BY <3>1, <3>2 DEF Pieces
  <2>4. x \in Area /\ x.begin = top /\ x.len = b + l - top /\ x.pages = rest
    <3>1. b + l - top \in 0 .. Word - 1 /\ rest \in SUBSET (0 .. Word - 1) /\ top \in 0 .. Word - 1
      BY <1>1, <1>3, <1>12, Limits
    <3> HIDE DEF rest
    <3> QED BY <1>1, <1>2, <2>2, <3>1 DEF Area
  <2>5. x.len > 0
    BY <1>1, <1>12, <2>4
  <2>6. Within(x, a)
    <3>1. b <= top /\ top + (b + l - top) <= b + l
      BY <1>1, <1>12
    <3> QED BY <1>1, <2>4, <3>1 DEF Within
  <2>7. \A v \in Nat : In(v, x) <=> In(v, a) /\ ~Hits(v, base, top)
    <3> SUFFICES ASSUME NEW v \in Nat PROVE In(v, x) <=> In(v, a) /\ ~Hits(v, base, top)
      OBVIOUS
    <3>1. In(v, x) <=> top <= v /\ v < b + l
      BY <2>4 DEF In
    <3>2. In(v, a) <=> b <= v /\ v < b + l
      BY <1>7
    <3> QED BY <1>12, <3>1, <3>2 DEF Hits
  <2> HIDE DEF rest
  <2> QED BY <1>4, <2>3, <2>4, <2>5, <2>6, <2>7, OneLeft
<1> QED BY <1>8, <1>9, <1>10, <1>11, <1>12

\* p is what is left of the list ar.
LeftOf(p, ar, base, top) ==
  /\ Sound(p)
  /\ AllPages(p) = {v \in AllPages(ar) : ~Hits(v, base, top)}
  /\ \A v \in Nat : Holds(p, v) <=> Holds(ar, v) /\ ~Hits(v, base, top)

\* The list p has the areas of the first i lists of ss.
Gathered(p, ss, i) == Sound(p) /\ Mem(p) = UNION {Mem(ss[j]) : j \in 1 .. i}

(* What is left of two areas of a list keeps their order. *)
LEMMA LeftOrdered ==
  ASSUME NEW ar, Sound(ar), NEW base, NEW top, NEW i \in 1 .. Len(ar), NEW j \in 1 .. Len(ar), i < j,
         NEW p, NEW q, Left(p, ar[i], base, top), Left(q, ar[j], base, top),
         NEW x \in Mem(p), NEW y \in Mem(q)
  PROVE  Before(x, y)
<1>1. x \in Mapped /\ y \in Mapped
  <2>1. p \in Seq(Mapped) /\ q \in Seq(Mapped)
    BY DEF Left, Sound
  <2> QED BY <2>1 DEF Mem
<1>2. PICK b \in Nat, l \in Nat, c \in Nat : b = ar[i].begin /\ l = ar[i].len /\ c = ar[j].begin /\ b + l <= c
  BY SoundAreas
<1>3. PICK d \in Nat, m \in Nat, e \in Nat : d = x.begin /\ m = x.len /\ e = y.begin
  BY <1>1, GoodArea
<1>4. Within(x, ar[i]) /\ Within(y, ar[j])
  BY DEF Left
<1>5. d + m <= b + l /\ c <= e
  BY <1>2, <1>3, <1>4 DEF Within
<1>6. d + m <= e
  <2>1. b + l <= c
    BY <1>2
  <2> QED BY <1>5, <2>1
<1> QED BY <1>3, <1>6 DEF Before

(* The pages of the members. *)
LEMMA MemPages ==
  ASSUME NEW p
  PROVE  AllPages(p) = UNION {a.pages : a \in Mem(p)}
  BY DEF AllPages, Mem

(* What is left of the areas, behind one another, is left of the list. *)
LEMMA FlattenLeft ==
  ASSUME NEW ar, Sound(ar), NEW base, NEW top, NEW ss, Len(ss) = Len(ar), ss \in Seq(Seq(Mapped)),
         \A i \in 1 .. Len(ar) : Left(ss[i], ar[i], base, top)
  PROVE  LeftOf(FlattenSeq(ss), ar, base, top)
<1>1. PICK n \in Nat : n = Len(ar) /\ n = Len(ss)
  BY SoundAreas
<1>2. PICK f : f = FlattenSeq(ss)
  OBVIOUS
<1>3. Gathered(f, ss, n)
  <2>1. CASE n = 0
    <3>1. f = <<>>
      BY <1>1, <1>2, <2>1 DEF FlattenSeq
    <3>2. f \in Seq(Mapped) /\ 1 .. Len(f) = {} /\ 1 .. n = {}
      BY <2>1, <3>1
    <3>3. Sound(f) /\ Mem(f) = {}
      BY <3>2 DEF Sound, Ordered, Mem
    <3> QED BY <3>2, <3>3 DEF Gathered
  <2>2. CASE n > 0
    <3>1. PICK g \in [1 .. n -> Seq(Mapped)] : Flat(g, ss) /\ f = g[n]
      BY <1>1, <1>2, <2>2, FlattenSteps
    <3> DEFINE T == {0} \cup {i \in 1 .. n : Gathered(g[i], ss, i)}
    <3>2. ASSUME NEW i \in 1 .. n, i - 1 \in T PROVE i \in T
      <4>1. Left(ss[i], ar[i], base, top) /\ Sound(ss[i])
        BY <1>1 DEF Left
      <4>2. CASE i = 1
        <5>1. g[i] = ss[i] /\ 1 .. i = {i}
          BY <3>1, <4>2 DEF Flat
        <5>2. Gathered(g[i], ss, i)
          BY <4>1, <5>1 DEF Gathered
        <5> QED BY <5>2
      <4>3. CASE i # 1
        <5>1. PICK k \in 1 .. n : k = i - 1
          BY <4>3
        <5>2. Gathered(g[k], ss, k)
          BY <3>2, <5>1
        <5>3. g[i] = g[k] \o ss[i]
          <6>1. i \in 2 .. Len(ss)
            BY <1>1, <4>3
          <6> QED BY <3>1, <5>1, <6>1 DEF Flat
        <5>4. ASSUME NEW x \in Mem(g[k]), NEW y \in Mem(ss[i]) PROVE Before(x, y)
          <6>1. PICK j \in 1 .. k : x \in Mem(ss[j])
            BY <5>2 DEF Gathered
          <6>2. j \in 1 .. n /\ j < i
            BY <5>1
          <6>3. Left(ss[j], ar[j], base, top)
            BY <1>1, <6>2
          <6> QED BY <1>1, <4>1, <6>1, <6>2, <6>3, LeftOrdered
        <5>5. PICK p, q, r : p = g[k] /\ q = ss[i] /\ r = g[i]
          OBVIOUS
        <5>6. Sound(p) /\ Sound(q) /\ \A x \in Mem(p), y \in Mem(q) : Before(x, y)
          BY <4>1, <5>2, <5>4, <5>5 DEF Gathered
        <5>7. Sound(p \o q) /\ Mem(p \o q) = Mem(p) \cup Mem(q)
          BY <5>6, JoinSound
        <5>8. r = p \o q
          BY <5>3, <5>5
        <5>9. Sound(r) /\ Mem(r) = Mem(p) \cup Mem(q)
          BY <5>7, <5>8
        <5>10. 1 .. i = (1 .. k) \cup {i}
          BY <5>1
        <5>11. Mem(p) = UNION {Mem(ss[j]) : j \in 1 .. k}
          BY <5>2, <5>5 DEF Gathered
        <5>12. UNION {Mem(ss[j]) : j \in 1 .. i} = (UNION {Mem(ss[j]) : j \in 1 .. k}) \cup Mem(ss[i])
          BY <5>10
        <5>13. Gathered(r, ss, i)
          BY <5>5, <5>9, <5>11, <5>12 DEF Gathered
        <5> QED BY <5>5, <5>13
      <4> QED BY <4>2, <4>3
    <3>3. 0 \in T
      OBVIOUS
    <3> HIDE DEF T
    <3>4. 0 .. n \subseteq T
      BY <3>2, <3>3, UpTo
    <3>5. n \in T /\ n # 0
      BY <2>2, <3>4
    <3> QED BY <3>1, <3>5 DEF T
  <2> QED BY <2>1, <2>2
<1>4. Sound(f) /\ Mem(f) = UNION {Mem(ss[j]) : j \in 1 .. n}
  BY <1>3 DEF Gathered
<1>5. AllPages(f) = {v \in AllPages(ar) : ~Hits(v, base, top)}
  <2>1. AllPages(f) = UNION {AllPages(ss[j]) : j \in 1 .. n}
    <3>1. \A p : AllPages(p) = UNION {a.pages : a \in Mem(p)}
      BY MemPages
    <3> QED BY <1>4, <3>1
  <2>2. \A j \in 1 .. n : AllPages(ss[j]) = {v \in ar[j].pages : ~Hits(v, base, top)}
    BY <1>1 DEF Left
  <2>3. AllPages(ar) = UNION {ar[j].pages : j \in 1 .. n}
    BY <1>1 DEF AllPages
  <2>4. ASSUME NEW v PROVE v \in AllPages(f) <=> v \in AllPages(ar) /\ ~Hits(v, base, top)
    <3>1. v \in AllPages(f) <=> \E j \in 1 .. n : v \in AllPages(ss[j])
      BY <2>1
    <3>2. v \in AllPages(ar) <=> \E j \in 1 .. n : v \in ar[j].pages
      BY <2>3
    <3> QED BY <2>2, <3>1, <3>2
  <2> QED BY <2>4
<1>6. ASSUME NEW v \in Nat PROVE Holds(f, v) <=> Holds(ar, v) /\ ~Hits(v, base, top)
  <2>1. Holds(f, v) <=> \E j \in 1 .. n : Holds(ss[j], v)
    BY <1>4 DEF Holds
  <2>2. \A j \in 1 .. n : Holds(ss[j], v) <=> In(v, ar[j]) /\ ~Hits(v, base, top)
    BY <1>1 DEF Left
  <2>3. Holds(ar, v) <=> \E j \in 1 .. n : In(v, ar[j])
    BY <1>1 DEF Holds, Mem
  <2> QED BY <2>1, <2>2, <2>3
<1> QED BY <1>2, <1>4, <1>5, <1>6 DEF LeftOf

(* Areas that are not visited are above the range. *)
LEMMA NotVisited ==
  ASSUME NEW ar, Sound(ar), NEW base \in Nat, NEW top \in Nat, NEW i \in 1 .. Len(ar),
         i \notin Visited(ar, base, top)
  PROVE  ar[i].begin >= top
<1>1. Len(ar) \in Nat /\ i \in DOMAIN ar
  BY SoundAreas
<1>2. PICK j \in 1 .. i - 1 : Ends(ar[j], base, top)
  BY <1>1 DEF Visited
<1>3. j \in 1 .. Len(ar) /\ j < i
  BY <1>1
<1>4. PICK b \in Nat, l \in Nat, c \in Nat :
        b = ar[j].begin /\ l = ar[j].len /\ End(ar[j]) = b + l /\ c = ar[i].begin /\ b + l <= c
  BY <1>3, SoundAreas
<1>5. b >= top \/ b + l > top
  BY <1>2, <1>4 DEF Ends, Spans
<1>6. c >= top
  <2>1. b + l <= c
    BY <1>4
  <2> QED BY <1>5, <2>1
<1> QED BY <1>4, <1>6

(* remove_vma_range leaves what is outside the range. *)
LEMMA RemoveLeft ==
  ASSUME NEW ar, Sound(ar), NEW base \in Nat, NEW len \in Nat, base + len < Word, NEW junk \in BOOLEAN
  PROVE  LeftOf(RemoveRange(ar, base, len, junk), ar, base, base + len)
<1>1. PICK n \in Nat : n = Len(ar) /\ DOMAIN ar = 1 .. n
  BY SoundAreas
<1>2. PICK top \in Nat : top = base + len /\ base <= top
  OBVIOUS
<1>3. Plus(base, len) = top
  <2>1. base + len \in Nat
    OBVIOUS
  <2> QED BY <1>2, <2>1, NoWrapping DEF Plus
<1>4. PICK ss : ss = [i \in 1 .. n |-> IF i \in Visited(ar, base, top)
                                       THEN Pieces(ar[i], base, top, junk) ELSE <<ar[i]>>]
  OBVIOUS
<1>5. RemoveRange(ar, base, len, junk) = FlattenSeq(ss)
  BY <1>1, <1>3, <1>4 DEF RemoveRange
<1>6. ASSUME NEW i \in 1 .. n PROVE Left(ss[i], ar[i], base, top)
  <2>1. ar[i] \in Mapped
    BY <1>1, SoundAreas
  <2>2. Left(Pieces(ar[i], base, top, junk), ar[i], base, top)
    BY <1>2, <2>1, PiecesLeft
  <2>3. ss[i] = Pieces(ar[i], base, top, junk)
    <3>1. CASE i \in Visited(ar, base, top)
      BY <1>4, <3>1
    <3>2. CASE i \notin Visited(ar, base, top)
      <4>1. ar[i].begin >= top
        BY <1>1, <3>2, NotVisited
      <4>2. Pieces(ar[i], base, top, junk) = <<ar[i]>>
        BY <4>1, <2>1, GoodArea DEF Pieces
      <4> QED BY <1>4, <3>2, <4>2
    <3> QED BY <3>1, <3>2
  <2> QED BY <2>2, <2>3
<1>7. ss \in Seq(Seq(Mapped)) /\ Len(ss) = n
  <2>1. \A i \in 1 .. n : ss[i] \in Seq(Mapped)
    BY <1>6 DEF Left, Sound
  <2>2. ss \in [1 .. n -> Seq(Mapped)]
    BY <1>4, <2>1
  <2> QED BY <2>2
<1>8. LeftOf(FlattenSeq(ss), ar, base, top)
  BY <1>1, <1>6, <1>7, FlattenLeft
<1> QED BY <1>2, <1>5, <1>8

(* remove_vma_range unassigns the pages of the range. *)
LEMMA DroppedIs ==
  ASSUME NEW ar, Sound(ar), NEW base \in Nat, NEW len \in Nat, base + len < Word
  PROVE  Dropped(ar, base, len) = {v \in AllPages(ar) : Hits(v, base, base + len)}
<1>1. PICK n \in Nat : n = Len(ar) /\ DOMAIN ar = 1 .. n
  BY SoundAreas
<1>2. PICK top \in Nat : top = base + len /\ base <= top
  OBVIOUS
<1>3. Plus(base, len) = top
  <2>1. base + len \in Nat
    OBVIOUS
  <2> QED BY <1>2, <2>1, NoWrapping DEF Plus
<1> DEFINE Out(i) == {v \in ar[i].pages : Inside(ar[i], base, top) \/ (base <= v /\ v < top)}
           I == {j \in Visited(ar, base, top) : End(ar[j]) > base /\ ar[j].begin < top}
<1>4. Dropped(ar, base, len) = UNION {Out(i) : i \in I}
  BY <1>3 DEF Dropped
<1>5. I \subseteq 1 .. n
  BY <1>1 DEF Visited
<1>6. ASSUME NEW i \in 1 .. n, NEW v \in ar[i].pages
      PROVE  /\ v \in Out(i) => Hits(v, base, top)
             /\ Hits(v, base, top) => i \in I /\ v \in Out(i)
  <2>1. ar[i] \in Mapped
    BY <1>1, SoundAreas
  <2>2. PICK b \in Nat, l \in Nat : b = ar[i].begin /\ l = ar[i].len /\ End(ar[i]) = b + l
    BY <2>1, GoodArea
  <2>3. v \in Nat /\ b <= v /\ v < b + l
    BY <2>1, <2>2, GoodArea DEF In
  <2>4. Inside(ar[i], base, top) => b >= base /\ b + l <= top
    BY <2>2 DEF Inside
  <2>5. v \in Out(i) => Hits(v, base, top)
    BY <2>2, <2>3, <2>4 DEF Hits
  <2>6. ASSUME Hits(v, base, top) PROVE i \in I /\ v \in Out(i)
    <3>1. base <= v /\ v < top
      BY <2>6 DEF Hits
    <3>2. b + l > base /\ b < top
      BY <2>3, <3>1
    <3>3. i \in Visited(ar, base, top)
      <4> SUFFICES ASSUME i \notin Visited(ar, base, top) PROVE FALSE
        OBVIOUS
      <4>1. ar[i].begin >= top
        BY <1>1, NotVisited
      <4> QED BY <2>2, <3>2, <4>1
    <3> QED BY <2>2, <3>1, <3>2, <3>3
  <2> QED BY <2>5, <2>6
<1> HIDE DEF Out, I
<1>7. \A i, v : v \in Out(i) => v \in ar[i].pages
  BY DEF Out
<1>8. AllPages(ar) = UNION {ar[i].pages : i \in 1 .. n}
  BY <1>1 DEF AllPages
<1>9. ASSUME NEW v PROVE v \in Dropped(ar, base, len) <=> v \in AllPages(ar) /\ Hits(v, base, top)
  <2>1. v \in Dropped(ar, base, len) <=> \E i \in I : v \in Out(i)
    BY <1>4
  <2>2. v \in AllPages(ar) <=> \E i \in 1 .. n : v \in ar[i].pages
    BY <1>8
  <2> QED BY <1>5, <1>6, <1>7, <2>1, <2>2
<1> QED BY <1>2, <1>9

-----------------------------------------------------------------------------
(* Copying                                                                 *)

\* The lists a copy starts with: areas without pages.
Bare == {p \in Seq(Mapped) : Sound(p) /\ AllPages(p) = {}}

(* One more area is copied. *)
LEMMA CopyAreaBare ==
  ASSUME NEW a \in Mapped, NEW p \in Bare
  PROVE  CopyArea(a, p) \in Bare
<1>1. PICK pl : pl = ToVaddr(p, a.begin, a.len)
  OBVIOUS
<1>2. CASE a.hw \/ pl.at = 0
  BY <1>1, <1>2 DEF CopyArea
<1>3. CASE ~(a.hw \/ pl.at = 0)
  <2>1. CopyArea(a, p) = Insert(p, pl, a.len, a.hw)
    BY <1>1, <1>3 DEF CopyArea
  <2>2. /\ a.begin \in Nat /\ a.len \in Nat /\ a.len > 0 /\ a.begin + a.len <= High
        /\ a.hw \in BOOLEAN
    BY GoodArea
  <2>3. Sound(p) /\ AllPages(p) = {}
    BY DEF Bare
  <2>4. Gap(p, pl, a.len)
    BY <1>1, <1>3, <2>2, <2>3, ToVaddrGap
  <2>5. PICK q : q = Insert(p, pl, a.len, a.hw)
    OBVIOUS
  <2>6. Filled(q, p, pl, a.len)
    BY <2>2, <2>3, <2>4, <2>5, FillGap
  <2>7. Sound(q) /\ AllPages(q) = {}
    BY <2>3, <2>6 DEF Filled
  <2>8. q \in Bare
    BY <2>7 DEF Bare, Sound
  <2> QED BY <2>1, <2>5, <2>8
<1> QED BY <1>2, <1>3

\* c copies the areas, one after the other.
Copies(c, n) ==
  c[0] = <<>> /\ \A i \in 1 .. n : c[i] = CopyArea(areas[i], c[i - 1])

(* as_snapshot copies area after area. *)
LEMMA SnapshotSteps ==
  ASSUME Sound(areas), NEW n \in Nat, n = Len(areas)
  PROVE  \E c \in [0 .. n -> Bare] : Copies(c, n) /\ Snapshot = c[n]
<1> DEFINE Body(g) == [i \in 0 .. n |-> IF i = 0 THEN <<>> ELSE CopyArea(areas[i], g[i - 1])]
           f == [z \in (1 .. n) \X Bare |-> CopyArea(areas[z[1]], z[2])]
           c == CHOOSE g : g = Body(g)
<1>1. Snapshot = c[n]
  BY DEF Snapshot
<1>2. \A i \in 1 .. n : areas[i] \in Mapped
  BY SoundAreas
<1>3. \A i \in 1 .. n, p \in Bare : CopyArea(areas[i], p) \in Bare
  BY <1>2, CopyAreaBare
<1>4. f \in [(1 .. n) \X Bare -> Bare]
  BY <1>3
<1>5. \A i \in 1 .. n, p \in Bare : f[<<i, p>>] = CopyArea(areas[i], p)
  OBVIOUS
<1>6. <<>> \in Bare
  <2>1. <<>> \in Seq(Mapped) /\ 1 .. Len(<<>>) = {}
    OBVIOUS
  <2> QED BY <2>1 DEF Bare, Sound, Ordered, AllPages
<1> HIDE DEF f
<1>7. PICK e : e = <<>>
  OBVIOUS
<1>8. PICK g : Iterates(g, f, e, n, Bare)
  BY <1>4, <1>6, <1>7, Iterate
<1>9. g \in [0 .. n -> Bare] /\ g[0] = e /\ \A i \in 1 .. n : g[i] = f[<<i, g[i - 1]>>]
  BY <1>8 DEF Iterates
<1>10. \A i \in 0 .. n : g[i] = IF i = 0 THEN <<>> ELSE CopyArea(areas[i], g[i - 1])
  <2> SUFFICES ASSUME NEW i \in 0 .. n, i # 0 PROVE g[i] = CopyArea(areas[i], g[i - 1])
    BY <1>7, <1>9
  <2>1. i \in 1 .. n /\ i - 1 \in 0 .. n
    OBVIOUS
  <2>2. g[i - 1] \in Bare /\ g[i] = f[<<i, g[i - 1]>>]
    BY <1>9, <2>1
  <2> QED BY <1>5, <2>1, <2>2
<1>11. g = Body(g)
  <2>1. g = [i \in 0 .. n |-> g[i]]
    BY <1>9
  <2> QED BY <1>10, <2>1
<1>12. c = Body(c)
  <2> HIDE DEF Body
  <2> QED BY <1>11
<1> HIDE DEF c
<1>13. /\ c[0] = <<>>
       /\ \A i \in 1 .. n : c[i] = CopyArea(areas[i], c[i - 1])
       /\ c = [i \in 0 .. n |-> c[i]]
  <2> DEFINE e1(i) == IF i = 0 THEN <<>> ELSE CopyArea(areas[i], c[i - 1])
  <2>1. c = [i \in 0 .. n |-> e1(i)]
    BY <1>12
  <2> HIDE DEF e1
  <2>2. \A i \in 0 .. n : c[i] = e1(i)
    BY <2>1
  <2>3. c = [i \in 0 .. n |-> c[i]]
    BY <2>1
  <2>4. 0 \in 0 .. n /\ \A i \in 1 .. n : i \in 0 .. n /\ i # 0
    OBVIOUS
  <2> QED BY <2>2, <2>3, <2>4 DEF e1
<1>14. \A i \in 0 .. n : c[i] \in Bare
  <2> DEFINE T == {i \in 0 .. n : c[i] \in Bare}
  <2>1. 0 \in T
    BY <1>6, <1>13
  <2>2. ASSUME NEW i \in 1 .. n, i - 1 \in T PROVE i \in T
    <3>1. c[i - 1] \in Bare
      BY <2>2
    <3>2. c[i] \in Bare
      BY <1>3, <1>13, <3>1
    <3> QED BY <3>2
  <2> HIDE DEF T
  <2>3. 0 .. n \subseteq T
    BY <2>1, <2>2, UpTo
  <2> QED BY <2>3 DEF T
<1>15. c \in [0 .. n -> Bare]
  BY <1>13, <1>14
<1> QED BY <1>1, <1>13, <1>15 DEF Copies

(* What as_snapshot makes of the areas. *)
LEMMA SnapshotBare ==
  ASSUME Sound(areas)
  PROVE  Sound(Snapshot) /\ AllPages(Snapshot) = {}
<1>1. PICK n \in Nat : n = Len(areas)
  BY SoundAreas
<1>2. PICK c \in [0 .. n -> Bare] : Snapshot = c[n]
  BY <1>1, SnapshotSteps
<1>3. Snapshot \in Bare
  BY <1>2
<1> QED BY <1>3 DEF Bare

-----------------------------------------------------------------------------
(* The invariant                                                           *)

\* No range a program names wraps around the machine word.
NoWrap ==
  \A n \in Lens \cup {1} : High + n < Word /\ \A b \in Bases : b + n < Word

Inv ==
  /\ Sound(areas)
  /\ vaddr_map = AllPages(areas)
  /\ taken \subseteq Device
  /\ fault \in {"none", "ret_panic", "kernel_fault"}

(* Lengths and addresses are numbers. *)
LEMMA Arguments ==
  /\ \A n \in Lens \cup {1} : n \in Nat
  /\ \A b \in Bases : b \in Nat /\ b # 0
  BY AreasAssumption

(* AllPages of a sound list are addresses. *)
LEMMA PagesAre ==
  ASSUME NEW ar, Sound(ar)
  PROVE  AllPages(ar) \subseteq 0 .. Word - 1
<1>1. \A i \in 1 .. Len(ar) : ar[i] \in Mapped
  BY SoundAreas
<1>2. \A i \in 1 .. Len(ar) : ar[i].pages \subseteq 0 .. Word - 1
  BY <1>1, GoodArea
<1> QED BY <1>2 DEF AllPages

(* A program's new area goes into a gap. *)
LEMMA PlaceGap ==
  ASSUME NEW ar, Sound(ar), NoWrap, NEW n \in Lens \cup {1}, NEW dst \in Bases \cup {0},
         dst # 0 => dst + n <= High, Place(ar, dst, n).at # 0
  PROVE  Gap(ar, Place(ar, dst, n), n)
<1>1. n \in Nat /\ High + n < Word
  BY Arguments DEF NoWrap
<1>2. CASE dst = 0
  BY <1>1, <1>2, ToAnyGap DEF Place
<1>3. CASE dst # 0
  <2>1. dst \in Nat /\ dst + n <= High
    BY <1>3, Arguments
  <2> QED BY <1>1, <1>3, <2>1, ToVaddrGap DEF Place
<1> QED BY <1>2, <1>3

(* AllPages inside the new area are assigned. *)
LEMMA AllAssigned ==
  ASSUME NEW ar, NEW p, NEW pl, NEW n \in Nat, Filled(p, ar, pl, n), NEW b \in Nat, b = pl.begin,
         NEW vs \in SUBSET (b .. b + n - 1)
  PROVE  Assigned(p, vs) = vs
<1>1. Sound(p)
  BY DEF Filled
<1>2. PICK i \in 1 .. Len(p) : p[i].begin = b /\ p[i].len = n
  BY DEF Filled
<1>3. i # 0
  BY <1>1, SoundAreas
<1>4. ASSUME NEW v \in vs PROVE Find(p, v) # 0
  <2>1. v \in Nat /\ b <= v /\ v < b + n
    OBVIOUS
  <2>2. In(v, p[i])
    BY <1>2, <2>1 DEF In
  <2>3. Find(p, v) = i
    BY <1>1, <2>1, <2>2, FindIs
  <2> QED BY <1>3, <2>3
<1> QED BY <1>4 DEF Assigned

(* The pages sendpage sends are addresses. *)
LEMMA SentAre ==
  ASSUME NEW src, NEW dst \in Nat, NEW len \in Nat
  PROVE  Sent(src, dst, len) \in SUBSET Nat
<1>1. CASE src = 0
  BY <1>1 DEF Sent
<1>2. CASE src # 0
  <2>1. \A has : {dst + i : i \in {j \in 0 .. len - 1 : has[j]}} \in SUBSET Nat
    OBVIOUS
  <2> QED BY <1>2, <2>1 DEF Sent
<1> QED BY <1>1, <1>2

\* With the pages vs the list p is sound, and vaddr_map grows by them.
Extends(p, vs) ==
  Sound(Assign(p, vs)) /\ AllPages(Assign(p, vs)) = vaddr_map \cup Assigned(p, vs)

(* Inserting an area and assigning pages keeps the list sound. *)
LEMMA InsertedSound ==
  ASSUME Inv, NEW pl, NEW n \in Nat, n > 0, Gap(areas, pl, n), NEW hw \in BOOLEAN,
         NEW vs \in SUBSET Nat, NEW p, p = Insert(areas, pl, n, hw)
  PROVE  Extends(p, vs)
<1>1. Sound(areas) /\ vaddr_map = AllPages(areas)
  BY DEF Inv
<1>2. Filled(p, areas, pl, n)
  BY <1>1, FillGap
<1>3. Sound(p) /\ AllPages(p) = AllPages(areas)
  BY <1>2 DEF Filled
<1> QED BY <1>1, <1>3, AssignSound DEF Extends

(* destroy_as removes every area. *)
LEMMA DestroyEmpties ==
  ASSUME NEW ar, Sound(ar)
  PROVE  RemoveRange(ar, Low, High - Low, FALSE) = <<>>
<1>1. PICK p : p = RemoveRange(ar, Low, High - Low, FALSE)
  OBVIOUS
<1>2. Low \in Nat /\ High - Low \in Nat /\ Low + (High - Low) = High /\ High < Word
  BY Limits
<1>3. PICK d \in Nat : d = High - Low /\ Low + d = High
  BY <1>2
<1>4. LeftOf(RemoveRange(ar, Low, d, FALSE), ar, Low, Low + d)
  BY <1>2, <1>3, RemoveLeft
<1>5. LeftOf(p, ar, Low, High)
  BY <1>1, <1>3, <1>4
<1>6. Sound(p) /\ p \in Seq(Mapped)
  BY <1>5 DEF LeftOf, Sound
<1>7. ASSUME Len(p) > 0 PROVE FALSE
  <2>1. 1 \in 1 .. Len(p)
    BY <1>6, <1>7
  <2>2. p[1] \in Mapped
    BY <1>6, <2>1
  <2>3. PICK b \in Nat, l \in Nat : b = p[1].begin /\ l = p[1].len /\ l > 0
                                    /\ Low <= b /\ b + l <= High
    BY <2>2, GoodArea
  <2>4. In(b, p[1])
    BY <2>3 DEF In
  <2>5. Holds(p, b)
    BY <2>1, <2>4 DEF Holds, Mem
  <2>6. Hits(b, Low, High)
    BY <2>3, Limits DEF Hits
  <2> QED BY <1>5, <2>5, <2>6 DEF LeftOf
<1>8. p = <<>>
  BY <1>6, <1>7
<1> QED BY <1>1, <1>8

(* A step of the kernel. *)
LEMMA AreasStep ==
  ASSUME Fits, Padded, NoWrap, Inv, [Next]_vars
  PROVE  Inv'
<1>1. Sound(areas) /\ vaddr_map = AllPages(areas) /\ taken \subseteq Device
      /\ fault \in {"none", "ret_panic", "kernel_fault"}
  BY DEF Inv
<1>2. ASSUME Sound(areas'), vaddr_map' = AllPages(areas'), taken' \subseteq Device,
             fault' \in {"none", "ret_panic", "kernel_fault"}
      PROVE  Inv'
  BY <1>2 DEF Inv
<1>3. CASE UNCHANGED vars
  BY <1>1, <1>2, <1>3 DEF vars
<1>4. ASSUME NEW why \in {"ret_panic", "kernel_fault"}, Panic(why) PROVE Inv'
  BY <1>1, <1>2, <1>4 DEF Panic
<1>5. ASSUME NEW dst, RefuseOrPanic(dst) PROVE Inv'
  <2>1. CASE dst = 0
    BY <1>4, <1>5, <2>1 DEF RefuseOrPanic
  <2>2. CASE dst # 0
    BY <1>3, <1>5, <2>2 DEF RefuseOrPanic
  <2> QED BY <2>1, <2>2
<1>6. ASSUME NEW dst \in Bases \cup {0}, NEW src \in Bases \cup {0}, NEW len \in Lens,
             SendPage(src, dst, len)
      PROVE  Inv'
  <2>1. PICK pl : pl = Place(areas, dst, len)
    OBVIOUS
  <2>2. PICK p : p = Insert(areas, pl, len, FALSE)
    OBVIOUS
  <2>3. PICK vs : vs = Sent(src, pl.begin, len)
    OBVIOUS
  <2>4. len \in Nat /\ len > 0 /\ dst + len <= High
    BY <1>6, Arguments DEF SendPage, Asks
  <2>5. CASE pl.at = 0 /\ RefuseOrPanic(dst)
    BY <1>5, <2>5
  <2>6. CASE pl.at # 0 /\ areas' = Assign(p, vs) /\ vaddr_map' = vaddr_map \cup Assigned(p, vs)
             /\ UNCHANGED <<taken, fault>>
    <3>1. Gap(areas, pl, len)
      BY <1>1, <2>1, <2>4, <2>6, PlaceGap
    <3>2. vs \in SUBSET Nat
      BY <2>3, <2>4, <3>1, SentAre DEF Gap
    <3>3. Extends(p, vs)
      BY <2>2, <2>4, <3>1, <3>2, InsertedSound
    <3> QED BY <1>1, <1>2, <2>6, <3>3 DEF Extends
  <2>7. \/ pl.at = 0 /\ RefuseOrPanic(dst)
        \/ pl.at # 0 /\ areas' = Assign(p, vs) /\ vaddr_map' = vaddr_map \cup Assigned(p, vs)
           /\ UNCHANGED <<taken, fault>>
    BY <1>6, <2>1, <2>2, <2>3 DEF SendPage
  <2> QED BY <2>5, <2>6, <2>7
<1>7. ASSUME NEW len \in Lens, len > 0, NEW pl, pl = Place(areas, 0, len), pl.at # 0,
             NEW vs, \A b \in Nat : b = pl.begin => vs \subseteq b .. b + len - 1,
             areas' = Assign(Insert(areas, pl, len, FALSE), vs), vaddr_map' = vaddr_map \cup vs,
             UNCHANGED <<taken, fault>>
      PROVE  Inv'
  <2>1. len \in Nat
    BY Arguments
  <2>2. Gap(areas, pl, len)
    BY <1>1, <1>7, PlaceGap
  <2>3. PICK b \in Nat : b = pl.begin
    BY <2>2 DEF Gap
  <2>4. vs \in SUBSET (b .. b + len - 1) /\ vs \in SUBSET Nat
    BY <1>7, <2>1, <2>3
  <2>5. PICK p : p = Insert(areas, pl, len, FALSE)
    OBVIOUS
  <2>6. Extends(p, vs)
    <3>1. len > 0
      BY <1>7
    <3>2. vs \in SUBSET Nat
      BY <2>4
    <3> QED BY <2>1, <2>2, <2>5, <3>1, <3>2, InsertedSound
  <2>7. Filled(p, areas, pl, len)
    BY <1>1, <1>7, <2>1, <2>2, <2>5, FillGap
  <2>8. Assigned(p, vs) = vs
    BY <2>1, <2>3, <2>4, <2>7, AllAssigned
  <2> QED BY <1>1, <1>2, <1>7, <2>5, <2>6, <2>8 DEF Extends
<1>8. ASSUME NEW len \in Lens, NEW present \in SUBSET (0 .. len - 1), MapToUser(len, present)
      PROVE  Inv'
  <2>1. PICK pl, vs : pl = Place(areas, 0, len) /\ vs = {pl.begin + i : i \in present}
    OBVIOUS
  <2>2. CASE Panic("ret_panic")
    BY <1>4, <2>2
  <2>3. len > 0 /\ present \subseteq 0 .. len - 1 /\ len \in Nat
    BY <1>8, Arguments DEF MapToUser
  <2>4. ASSUME NEW b \in Nat, b = pl.begin PROVE vs \subseteq b .. b + len - 1
    BY <2>1, <2>3, <2>4
  <2>5. \/ Panic("ret_panic")
        \/ /\ pl.at # 0 /\ areas' = Assign(Insert(areas, pl, len, FALSE), vs)
           /\ vaddr_map' = vaddr_map \cup vs /\ UNCHANGED <<taken, fault>>
    BY <1>8, <2>1 DEF MapToUser
  <2> QED BY <1>7, <2>1, <2>2, <2>3, <2>4, <2>5
<1>9. ASSUME NEW len \in Lens, ServiceResponse(len) PROVE Inv'
  <2>1. PICK pl, vs : pl = Place(areas, 0, len) /\ vs = pl.begin .. pl.begin + len - 1
    OBVIOUS
  <2>2. CASE Panic("kernel_fault")
    BY <1>4, <2>2
  <2>3. len > 0
    BY <1>9 DEF ServiceResponse
  <2>4. ASSUME NEW b \in Nat, b = pl.begin PROVE vs \subseteq b .. b + len - 1
    BY <2>1, <2>4
  <2>5. \/ Panic("kernel_fault")
        \/ /\ pl.at # 0 /\ areas' = Assign(Insert(areas, pl, len, FALSE), vs)
           /\ vaddr_map' = vaddr_map \cup vs /\ UNCHANGED <<taken, fault>>
    BY <1>9, <2>1 DEF ServiceResponse
  <2> QED BY <1>7, <2>1, <2>2, <2>3, <2>4, <2>5
<1>10. ASSUME NEW dst \in Bases \cup {0}, NEW d \in Device, MapDevice(dst, d) PROVE Inv'
  <2>1. PICK pl, p : pl = Place(areas, dst, 1) /\ p = Insert(areas, pl, 1, TRUE)
    OBVIOUS
  <2>2. dst + 1 <= High /\ 1 \in Lens \cup {1} /\ 1 \in Nat /\ 1 > 0
    BY <1>10 DEF MapDevice, Asks
  <2>3. CASE RefuseOrPanic(dst)
    BY <1>5, <2>3
  <2>4. CASE pl.at # 0 /\ areas' = Assign(p, {pl.begin}) /\ vaddr_map' = vaddr_map \cup {pl.begin}
             /\ taken' = taken \cup {d} /\ fault' = fault
    <3>1. Gap(areas, pl, 1)
      BY <1>1, <2>1, <2>2, <2>4, PlaceGap
    <3>2. PICK b \in Nat : b = pl.begin
      BY <3>1 DEF Gap
    <3>3. {b} \in SUBSET (b .. b + 1 - 1) /\ {b} \in SUBSET Nat
      OBVIOUS
    <3>4. Extends(p, {b})
      <4>1. PICK vs \in SUBSET Nat : vs = {b}
        BY <3>3
      <4>2. Extends(p, vs)
        BY <2>1, <2>2, <3>1, InsertedSound
      <4> QED BY <4>1, <4>2
    <3>5. Filled(p, areas, pl, 1)
      BY <1>1, <2>1, <2>2, <3>1, FillGap
    <3>6. Assigned(p, {b}) = {b}
      BY <2>2, <3>2, <3>3, <3>5, AllAssigned
    <3> QED BY <1>1, <1>2, <2>4, <3>2, <3>4, <3>6 DEF Extends
  <2>5. \/ RefuseOrPanic(dst)
        \/ UNCHANGED vars
        \/ /\ pl.at # 0 /\ areas' = Assign(p, {pl.begin}) /\ vaddr_map' = vaddr_map \cup {pl.begin}
           /\ taken' = taken \cup {d} /\ fault' = fault
    BY <1>10, <2>1 DEF MapDevice
  <2> QED BY <1>3, <2>3, <2>4, <2>5
<1>11. ASSUME NEW v \in Bases, PageFault(v) PROVE Inv'
  <2>1. /\ Find(areas, v) # 0 /\ areas' = Assign(areas, {v}) /\ vaddr_map' = vaddr_map \cup {v}
        /\ UNCHANGED <<taken, fault>>
    BY <1>11 DEF PageFault
  <2>2. {v} \in SUBSET Nat
    BY Arguments
  <2>3. Sound(Assign(areas, {v})) /\ AllPages(Assign(areas, {v})) = AllPages(areas) \cup Assigned(areas, {v})
    BY <1>1, <2>2, AssignSound
  <2>4. Assigned(areas, {v}) = {v}
    BY <2>1 DEF Assigned
  <2> QED BY <1>1, <1>2, <2>1, <2>3, <2>4
<1>12. ASSUME NEW base \in Bases, NEW len \in Lens, NEW junk \in BOOLEAN, Munmap(base, len, junk)
       PROVE  Inv'
  <2>1. base \in Nat /\ len \in Nat /\ base + len < Word
    BY Arguments DEF NoWrap
  <2>2. LeftOf(RemoveRange(areas, base, len, junk), areas, base, base + len)
    BY <1>1, <2>1, RemoveLeft
  <2>3. Dropped(areas, base, len) = {v \in AllPages(areas) : Hits(v, base, base + len)}
    BY <1>1, <2>1, DroppedIs
  <2>4. /\ areas' = RemoveRange(areas, base, len, junk)
        /\ vaddr_map' = vaddr_map \ Dropped(areas, base, len) /\ UNCHANGED <<taken, fault>>
    BY <1>12 DEF Munmap
  <2>5. Sound(areas') /\ AllPages(areas') = {v \in AllPages(areas) : ~Hits(v, base, base + len)}
    BY <2>2, <2>4 DEF LeftOf
  <2>6. vaddr_map' = {v \in AllPages(areas) : ~Hits(v, base, base + len)}
    BY <1>1, <2>3, <2>4
  <2> QED BY <1>1, <1>2, <2>4, <2>5, <2>6
<1>13. CASE Fork
  <2>1. /\ areas' = Assign(Snapshot, vaddr_map) /\ vaddr_map' = Assigned(Snapshot, vaddr_map)
        /\ UNCHANGED <<taken, fault>>
    BY <1>13 DEF Fork
  <2>2. Sound(Snapshot) /\ AllPages(Snapshot) = {}
    BY <1>1, SnapshotBare
  <2>3. vaddr_map \in SUBSET Nat
    <3>1. vaddr_map \subseteq 0 .. Word - 1
      BY <1>1, PagesAre
    <3> QED BY <3>1
  <2>4. Sound(Assign(Snapshot, vaddr_map))
        /\ AllPages(Assign(Snapshot, vaddr_map)) = AllPages(Snapshot) \cup Assigned(Snapshot, vaddr_map)
    BY <2>2, <2>3, AssignSound
  <2> QED BY <1>1, <1>2, <2>1, <2>2, <2>4
<1>14. CASE Destroy
  <2>1. RemoveRange(areas, Low, High - Low, FALSE) = <<>>
    BY <1>1, DestroyEmpties
  <2>2. areas' = <<>> /\ vaddr_map' = {} /\ UNCHANGED <<taken, fault>>
    BY <1>14, <2>1 DEF Destroy
  <2>3. <<>> \in Seq(Mapped) /\ 1 .. Len(<<>>) = {}
    OBVIOUS
  <2>4. Sound(<<>>) /\ AllPages(<<>>) = {}
    BY <2>3 DEF Sound, Ordered, AllPages
  <2> QED BY <1>1, <1>2, <2>2, <2>4
<1>15. CASE Next
  BY <1>6, <1>8, <1>9, <1>10, <1>11, <1>12, <1>13, <1>14, <1>15 DEF Next
<1> QED BY <1>3, <1>15

(* The empty address space. *)
LEMMA InitInv == Init => Inv
<1>1. <<>> \in Seq(Mapped) /\ 1 .. Len(<<>>) = {}
  OBVIOUS
<1>2. Sound(<<>>) /\ AllPages(<<>>) = {}
  BY <1>1 DEF Sound, Ordered, AllPages
<1> QED BY <1>2 DEF Init, Inv

(* Whatever programs map, unmap, touch and fork, each address space's areas *)
(* are sorted and disjoint, and each of its pages is listed with the area   *)
(* around it (aspace.c), for any word, limits, addresses and lengths: the   *)
(* programs map ranges between the limits (Fits), no message is exactly one *)
(* aligned page (Padded) and no range wraps.                                *)
THEOREM AreasAreSound ==
  ASSUME Fits, Padded, NoWrap
  PROVE  Spec => []AreasSound
<1>1. Init => Inv
  BY InitInv
<1>2. Inv /\ [Next]_vars => Inv'
  BY AreasStep
<1>3. Inv => AreasSound
  <2> SUFFICES ASSUME Inv PROVE AreasSound
    OBVIOUS
  <2>1. Sound(areas) /\ vaddr_map = AllPages(areas) /\ taken \subseteq Device
        /\ fault \in {"none", "ret_panic", "kernel_fault"}
    BY DEF Inv
  <2>2. /\ areas \in Seq(Mapped) /\ DOMAIN areas = 1 .. Len(areas)
        /\ \A i \in 1 .. Len(areas) : areas[i] \in Mapped /\ End(areas[i]) = areas[i].begin + areas[i].len
        /\ \A i, j \in 1 .. Len(areas) : i < j => areas[i].begin + areas[i].len <= areas[j].begin
    BY <2>1, SoundAreas
  <2>3. TypeOK
    <3>1. areas \in Seq(Area)
      BY <2>2 DEF Mapped
    <3>2. vaddr_map \subseteq 0 .. Word - 1
      BY <2>1, PagesAre
    <3> QED BY <2>1, <3>1, <3>2 DEF TypeOK
  <2>4. AreasDisjoint
    BY <2>2 DEF AreasDisjoint
  <2>5. ASSUME NEW i \in 1 .. Len(areas), NEW v \in areas[i].pages PROVE Find(areas, v) = i
    <3>1. v \in Nat /\ In(v, areas[i])
      BY <2>2, GoodArea
    <3> QED BY <2>1, <3>1, FindIs
  <2>6. PagesListed
    BY <2>1, <2>2, <2>5 DEF PagesListed, AllPages
  <2> QED BY <2>3, <2>4, <2>6 DEF AreasSound
<1> QED BY <1>1, <1>2, <1>3, PTL DEF Spec

-----------------------------------------------------------------------------
(* What the operations do to the set of pages the areas cover              *)

(* The pages covered are those some area holds. *)
LEMMA CoveredIs ==
  ASSUME NEW ar, Sound(ar)
  PROVE  /\ Covered(ar) \subseteq Nat
         /\ \A v \in Nat : v \in Covered(ar) <=> \E i \in 1 .. Len(ar) : In(v, ar[i])
         /\ \A v \in Nat : v \in Covered(ar) <=> Holds(ar, v)
<1>1. ASSUME NEW i \in 1 .. Len(ar)
      PROVE  Span(ar[i]) \subseteq Nat /\ \A v \in Nat : v \in Span(ar[i]) <=> In(v, ar[i])
  <2>1. PICK b \in Nat, l \in Nat : b = ar[i].begin /\ l = ar[i].len /\ End(ar[i]) = b + l
    BY SoundAreas
  <2>2. Span(ar[i]) = b .. b + l - 1
    BY <2>1 DEF Span
  <2>3. \A v \in Nat : In(v, ar[i]) <=> b <= v /\ v < b + l
    BY <2>1 DEF In
  <2> QED BY <2>2, <2>3
<1>2. Covered(ar) = UNION {Span(ar[i]) : i \in 1 .. Len(ar)}
  BY SoundAreas DEF Covered
<1>3. Covered(ar) \subseteq Nat
  BY <1>1, <1>2
<1>4. ASSUME NEW v \in Nat
      PROVE  v \in Covered(ar) <=> \E i \in 1 .. Len(ar) : In(v, ar[i])
  <2>1. v \in Covered(ar) <=> \E i \in 1 .. Len(ar) : v \in Span(ar[i])
    BY <1>2
  <2> QED BY <1>1, <2>1
<1>5. \A v \in Nat : Holds(ar, v) <=> \E i \in 1 .. Len(ar) : In(v, ar[i])
  BY DEF Holds, Mem
<1> QED BY <1>3, <1>4, <1>5

(* remove_vma_range removes the range. *)
LEMMA RemovesRange ==
  ASSUME NEW ar, Sound(ar), NEW base \in Nat, NEW len \in Nat, base + len < Word
  PROVE  Covered(RemoveRange(ar, base, len, FALSE)) = Covered(ar) \ (base .. base + len - 1)
<1>1. PICK p : p = RemoveRange(ar, base, len, FALSE)
  OBVIOUS
<1>2. LeftOf(p, ar, base, base + len)
  BY <1>1, RemoveLeft
<1>3. Sound(p) /\ \A v \in Nat : Holds(p, v) <=> Holds(ar, v) /\ ~Hits(v, base, base + len)
  BY <1>2 DEF LeftOf
<1>4. Covered(p) \subseteq Nat /\ \A v \in Nat : v \in Covered(p) <=> Holds(p, v)
  BY <1>3, CoveredIs
<1>5. Covered(ar) \subseteq Nat /\ \A v \in Nat : v \in Covered(ar) <=> Holds(ar, v)
  BY CoveredIs
<1>6. \A v \in Nat : Hits(v, base, base + len) <=> v \in base .. base + len - 1
  BY DEF Hits
<1>7. \A v \in Nat : v \in Covered(p) <=> v \in Covered(ar) /\ v \notin base .. base + len - 1
  BY <1>3, <1>4, <1>5, <1>6
<1>8. Covered(p) = Covered(ar) \ (base .. base + len - 1)
  BY <1>4, <1>5, <1>7
<1> QED BY <1>1, <1>8

\* A gap of n pages at g.
FreeAbove(ar, g, n) ==
  g \in Nat /\ Low <= g /\ g + n <= High /\ \A v \in Nat : Hits(v, g, g + n) => v \notin Covered(ar)

(* insert_vma_to_any refuses only if there is no gap, and finds none above  *)
(* another.                                                                 *)
LEMMA LowestGap ==
  ASSUME NEW ar, Sound(ar), NEW n \in Nat, n > 0, High + n < Word, NEW g, FreeAbove(ar, g, n)
  PROVE  ToAny(ar, n).at # 0 /\ ToAny(ar, n).begin <= g
<1>1. PICK m \in Nat : m = Len(ar) /\ DOMAIN ar = 1 .. m
  BY SoundAreas
<1>2. g \in Nat /\ Low <= g /\ g + n <= High
  BY DEF FreeAbove
<1> DEFINE addr(i) == IF i = 1 THEN Low ELSE End(ar[i - 1])
<1>3. ASSUME NEW i \in 1 .. m + 1
      PROVE  addr(i) \in Nat /\ addr(i) <= High /\ Plus(addr(i), n) = addr(i) + n
  <2>1. PICK x \in Nat : x = addr(i) /\ x <= High
    <3>1. CASE i = 1
      BY <3>1, Limits
    <3>2. CASE i # 1
      <4>1. i - 1 \in 1 .. m
        BY <3>2
      <4>2. PICK b \in Nat, l \in Nat : b + l <= High /\ End(ar[i - 1]) = b + l
        BY <1>1, <4>1, SoundAreas
      <4> QED BY <3>2, <4>2, Limits
    <3> QED BY <3>1, <3>2
  <2>2. x + n \in Nat /\ x + n < Word
    BY <2>1, Limits
  <2>3. (x + n) % Word = x + n
    BY <2>2, NoWrapping
  <2> QED BY <2>1, <2>3 DEF Plus
<1> DEFINE hits == {i \in 1 .. m : ar[i].begin >= Plus(addr(i), n)}
<1>4. PICK s : s = First(hits, ar)
  OBVIOUS
<1>5. /\ s \in 1 .. m + 1
      /\ \A i \in 1 .. m : i < s => i \notin hits
  <2>1. hits \in SUBSET (1 .. m) /\ Len(ar) = m
    BY <1>1
  <2> HIDE DEF hits
  <2> QED BY <1>4, <2>1, FirstIs
<1>6. ToAny(ar, n) = IF s > m /\ High < Plus(addr(s), n) THEN Refused
                     ELSE [at |-> s, begin |-> addr(s)]
  BY <1>1, <1>4 DEF ToAny
<1>7. ASSUME NEW i \in 1 .. m, i < s, addr(i) <= g PROVE addr(i + 1) <= g
  <2>1. PICK b \in Nat, l \in Nat : b = ar[i].begin /\ l = ar[i].len /\ l > 0 /\ End(ar[i]) = b + l
    BY <1>1, SoundAreas
  <2>2. PICK x \in Nat : x = addr(i) /\ Plus(addr(i), n) = x + n
    BY <1>3
  <2>3. ~(b >= x + n)
    BY <1>5, <1>7, <2>1, <2>2
  <2>4. b < g + n
    <3>1. x <= g
      BY <1>7, <2>2
    <3> QED BY <1>2, <2>1, <2>2, <2>3, <3>1
  <2>5. ASSUME NEW v \in Nat, b <= v, v < b + l, g <= v, v < g + n PROVE FALSE
    <3>1. In(v, ar[i])
      BY <2>1, <2>5 DEF In
    <3>2. v \in Covered(ar)
      BY <1>1, <3>1, CoveredIs
    <3>3. Hits(v, g, g + n)
      BY <2>5 DEF Hits
    <3> QED BY <3>2, <3>3 DEF FreeAbove
  <2>6. b + l <= g
    <3> SUFFICES ASSUME b + l > g PROVE FALSE
      BY <1>2, <2>1
    <3>1. CASE b <= g
      <4>1. g \in Nat /\ g < b + l /\ g <= g /\ g < g + n
        BY <1>2, <2>1
      <4> QED BY <2>5, <3>1, <4>1
    <3>2. CASE g < b
      <4>1. b <= b /\ b < b + l /\ g <= b
        BY <1>2, <2>1, <3>2
      <4> QED BY <2>4, <2>5, <4>1
    <3> QED BY <1>2, <2>1, <3>1, <3>2
  <2>7. i + 1 # 1 /\ (i + 1) - 1 = i
    OBVIOUS
  <2>8. addr(i + 1) = b + l
    BY <2>1, <2>7
  <2> HIDE DEF addr
  <2> QED BY <2>6, <2>8
<1>8. addr(1) <= g
  BY <1>2
<1>9. addr(s) <= g
  <2> HIDE DEF addr, hits
  <2> DEFINE T == {i \in 0 .. s - 1 : addr(i + 1) <= g}
  <2>1. s - 1 \in Nat
    BY <1>5
  <2>2. 0 \in T
    <3>1. 0 + 1 = 1 /\ 0 \in 0 .. s - 1
      BY <2>1
    <3> QED BY <1>8, <3>1
  <2>3. ASSUME NEW i \in 1 .. s - 1, i - 1 \in T PROVE i \in T
    <3>1. addr((i - 1) + 1) <= g /\ (i - 1) + 1 = i
      BY <2>3
    <3>2. i \in 1 .. m /\ i < s /\ i \in 0 .. s - 1
      BY <1>5
    <3>3. addr(i + 1) <= g
      BY <1>7, <3>1, <3>2
    <3> QED BY <3>2, <3>3
  <2>4. 0 .. s - 1 \subseteq T
    <3> HIDE DEF T
    <3> QED BY <2>1, <2>2, <2>3, UpTo
  <2>5. s - 1 \in 0 .. s - 1 /\ (s - 1) + 1 = s
    BY <2>1, <1>5
  <2> QED BY <2>4, <2>5
<1>10. PICK x \in Nat : x = addr(s) /\ Plus(addr(s), n) = x + n
  BY <1>3, <1>5
<1>11. x <= g
  BY <1>9, <1>10
<1>12. ~(High < x + n)
  BY <1>2, <1>11, Limits
<1> HIDE DEF addr, hits
<1>13. ToAny(ar, n) = [at |-> s, begin |-> x]
  BY <1>6, <1>10, <1>12
<1>14. s # 0
  BY <1>5
<1> QED BY <1>11, <1>13, <1>14

(* insert_vma_to_any takes the lowest gap. *)
LEMMA FirstFits ==
  ASSUME NEW ar, Sound(ar), NEW n \in Nat, n > 0, High + n < Word, NEW gaps,
         gaps = {v \in Low .. High - n : (v .. v + n - 1) \cap Covered(ar) = {}}
  PROVE  IF gaps = {} THEN ToAny(ar, n) = Refused
         ELSE ToAny(ar, n).at # 0 /\ ToAny(ar, n).begin = Min(gaps)
<1>1. ASSUME NEW g \in gaps PROVE FreeAbove(ar, g, n)
  <2>1. g \in Nat /\ Low <= g /\ g + n <= High
    BY Limits
  <2>2. \A v \in Nat : Hits(v, g, g + n) => v \in g .. g + n - 1
    BY <2>1 DEF Hits
  <2>3. (g .. g + n - 1) \cap Covered(ar) = {}
    OBVIOUS
  <2> QED BY <2>1, <2>2, <2>3 DEF FreeAbove
<1>2. PICK pl : pl = ToAny(ar, n)
  OBVIOUS
<1>3. ASSUME pl.at # 0 PROVE pl.begin \in gaps
  <2>1. Gap(ar, pl, n)
    BY <1>2, <1>3, ToAnyGap
  <2>2. PICK b \in Nat, k \in Nat : b = pl.begin /\ k = pl.at /\ Low <= b /\ b + n <= High
                                    /\ 1 <= k /\ k <= Len(ar) + 1
    BY <2>1, SoundAreas DEF Gap
  <2>3. ASSUME NEW v \in b .. b + n - 1, v \in Covered(ar) PROVE FALSE
    <3>1. v \in Nat /\ b <= v /\ v < b + n
      BY <2>2
    <3>2. PICK i \in 1 .. Len(ar) : In(v, ar[i])
      BY <2>3, <3>1, CoveredIs
    <3>3. PICK c \in Nat, l \in Nat : c = ar[i].begin /\ l = ar[i].len
      BY SoundAreas
    <3>4. c <= v /\ v < c + l
      BY <3>2, <3>3 DEF In
    <3>5. i \in 1 .. k - 1 \/ i \in k .. Len(ar)
      BY <2>2, SoundAreas
    <3>6. i \in 1 .. k - 1 => c + l <= b
      BY <2>1, <2>2, <3>3 DEF Gap
    <3>7. i \in k .. Len(ar) => b + n <= c
      BY <2>1, <2>2, <3>3 DEF Gap
    <3>8. CASE c + l <= b
      BY <3>1, <3>4, <3>8
    <3>9. CASE b + n <= c
      BY <3>1, <3>4, <3>9
    <3> QED BY <3>5, <3>6, <3>7, <3>8, <3>9
  <2>4. b \in Low .. High - n
    BY <2>2, Limits
  <2>5. b \in gaps
    BY <2>3, <2>4
  <2> QED BY <2>2, <2>5
<1>4. CASE gaps = {}
  <2>1. pl.at = 0
    BY <1>3, <1>4
  <2>2. pl = Refused
    <3>1. Len(ar) + 1 # 0 /\ \A i \in 1 .. Len(ar) : i # 0
      BY SoundAreas
    <3> DEFINE addr(i) == IF i = 1 THEN Low ELSE End(ar[i - 1])
               hits == {i \in DOMAIN ar : ar[i].begin >= Plus(addr(i), n)}
    <3>2. PICK s : s = First(hits, ar)
      OBVIOUS
    <3>3. pl = IF s > Len(ar) /\ High < Plus(addr(s), n) THEN Refused ELSE [at |-> s, begin |-> addr(s)]
      BY <1>2, <3>2 DEF ToAny
    <3>4. s \in 1 .. Len(ar) + 1
      <4>1. hits \in SUBSET (1 .. Len(ar)) /\ Len(ar) \in Nat
        BY SoundAreas
      <4> HIDE DEF hits
      <4> QED BY <3>2, <4>1, FirstIs
    <3>5. s # 0
      BY <3>4
    <3> HIDE DEF addr, hits
    <3> QED BY <2>1, <3>3, <3>5
  <2> QED BY <1>2, <1>4, <2>2
<1>5. CASE gaps # {}
  <2>1. gaps \in SUBSET Nat
    BY <1>1 DEF FreeAbove
  <2>2. PICK g : g = Min(gaps)
    OBVIOUS
  <2>3. g \in gaps /\ \A v \in gaps : g <= v
    BY <1>5, <2>1, <2>2, MinMember
  <2>4. FreeAbove(ar, g, n)
    BY <1>1, <2>3
  <2>5. pl.at # 0 /\ pl.begin <= g
    BY <1>2, <2>4, LowestGap
  <2>6. pl.begin \in gaps
    BY <1>3, <2>5
  <2>7. g <= pl.begin /\ pl.begin \in Nat /\ g \in Nat
    BY <2>1, <2>3, <2>6
  <2>8. pl.begin = g
    BY <2>5, <2>7
  <2> QED BY <1>2, <1>5, <2>2, <2>5, <2>8
<1> QED BY <1>4, <1>5

(* The walk of validate_range, in numbers. *)
LEMMA WalkIs ==
  ASSUME NEW ar, Sound(ar), NEW base \in Nat, NEW f \in 1 .. Len(ar), f = Find(ar, base),
         NEW i \in f .. Len(ar)
  PROVE  \E w \in Nat, e \in Nat :
           /\ w = WalkBase(ar, base, i) /\ e = End(ar[i]) /\ base <= w /\ w <= e
           /\ Minus(e, w) = e - w /\ Minus(w, base) = w - base
<1>1. Len(ar) \in Nat /\ i \in 1 .. Len(ar)
  BY SoundAreas
<1>2. PICK b \in Nat, l \in Nat : b = ar[i].begin /\ l = ar[i].len /\ End(ar[i]) = b + l /\ b + l <= High
  BY <1>1, SoundAreas
<1>3. In(base, ar[f])
  BY FindIs
<1>4. PICK c \in Nat, k \in Nat : c = ar[f].begin /\ k = ar[f].len /\ End(ar[f]) = c + k
                                  /\ c <= base /\ base < c + k
  <2>1. PICK c \in Nat, k \in Nat : c = ar[f].begin /\ k = ar[f].len /\ End(ar[f]) = c + k
    BY SoundAreas
  <2>2. c <= base /\ base < c + k
    BY <1>3, <2>1 DEF In
  <2> QED BY <2>1, <2>2
<1>5. PICK w \in Nat : w = WalkBase(ar, base, i) /\ base <= w /\ w <= b + l
  <2>1. CASE i = f
    <3>1. b = c /\ l = k
      BY <1>2, <1>4, <2>1
    <3>2. WalkBase(ar, base, i) = base
      BY <2>1 DEF WalkBase
    <3> QED BY <1>4, <3>1, <3>2
  <2>2. CASE i # f
    <3>1. i - 1 \in 1 .. Len(ar) /\ i - 1 < i /\ (i - 1 = f \/ f < i - 1)
      BY <1>1, <2>2
    <3>2. PICK d \in Nat, m \in Nat : d = ar[i - 1].begin /\ m = ar[i - 1].len /\ End(ar[i - 1]) = d + m
      BY <3>1, SoundAreas
    <3>3. WalkBase(ar, base, i) = d + m
      BY <2>2, <3>2 DEF WalkBase
    <3>4. d + m <= b
      BY <1>1, <1>2, <3>1, <3>2, SoundAreas
    <3>5. i - 1 = f => d = c /\ m = k
      BY <1>4, <3>2
    <3>6. f < i - 1 => c + k <= d
      BY <1>4, <3>1, <3>2, SoundAreas
    <3>7. base <= d + m
      <4>1. base < c + k
        BY <1>4
      <4>2. CASE d = c /\ m = k
        BY <4>1, <4>2
      <4>3. CASE c + k <= d
        BY <4>1, <4>3
      <4> QED BY <3>1, <3>5, <3>6, <4>2, <4>3
    <3>8. d + m \in Nat /\ d + m <= b + l
      BY <3>4
    <3> QED BY <3>3, <3>7, <3>8
  <2> QED BY <2>1, <2>2
<1>6. PICK e \in Nat : e = b + l /\ w <= e /\ e < Word /\ w < Word
  <2>1. b + l <= High /\ w <= b + l
    BY <1>2, <1>5
  <2>2. b + l \in Nat /\ b + l < Word /\ w < Word
    BY <2>1, Limits
  <2> QED BY <2>1, <2>2
<1>7. Minus(e, w) = e - w /\ Minus(w, base) = w - base
  BY <1>5, <1>6, MinusIs
<1> QED BY <1>2, <1>5, <1>6, <1>7

\* The walk arrives at area i without meeting a hole.
Reaches(ar, base, i) ==
  \A j \in Find(ar, base) .. i : ar[j].begin <= WalkBase(ar, base, j)

(* validate_range in numbers. *)
LEMMA ValidateIs ==
  ASSUME NEW ar, Sound(ar), NEW base \in Nat, NEW len \in Nat
  PROVE  Validate(ar, base, len) <=>
           /\ Find(ar, base) # 0
           /\ \E i \in Find(ar, base) .. Len(ar) : Reaches(ar, base, i) /\ base + len <= End(ar[i])
<1>1. PICK f : f = Find(ar, base)
  OBVIOUS
<1>2. f \in 0 .. Len(ar) /\ Len(ar) \in Nat
  BY <1>1, FindIs, SoundAreas
<1>3. Validate(ar, base, len) <=>
        /\ f # 0
        /\ \E i \in f .. Len(ar) :
             /\ Reaches(ar, base, i)
             /\ Minus(End(ar[i]), WalkBase(ar, base, i)) >= len - Minus(WalkBase(ar, base, i), base)
  BY <1>1 DEF Validate, Reaches
<1>4. ASSUME f # 0, NEW i \in f .. Len(ar)
      PROVE  Minus(End(ar[i]), WalkBase(ar, base, i)) >= len - Minus(WalkBase(ar, base, i), base)
               <=> base + len <= End(ar[i])
  <2>1. f \in 1 .. Len(ar)
    BY <1>2, <1>4
  <2>2. PICK w \in Nat, e \in Nat :
          /\ w = WalkBase(ar, base, i) /\ e = End(ar[i]) /\ base <= w /\ w <= e
          /\ Minus(e, w) = e - w /\ Minus(w, base) = w - base
    BY <1>1, <2>1, WalkIs
  <2>3. e - w >= len - (w - base) <=> base + len <= e
    OBVIOUS
  <2> QED BY <2>2, <2>3
<1> QED BY <1>1, <1>3, <1>4

(* A range validate_range accepts is covered. *)
LEMMA ValidCovered ==
  ASSUME NEW ar, Sound(ar), NEW base \in Nat, NEW f \in 1 .. Len(ar), f = Find(ar, base),
         NEW i \in f .. Len(ar), Reaches(ar, base, i), NEW v \in Nat, base <= v, v < End(ar[i])
  PROVE  v \in Covered(ar)
<1>1. Len(ar) \in Nat /\ \A j \in f .. i : j \in 1 .. Len(ar) /\ j \in Nat
  BY SoundAreas
<1> DEFINE J == {j \in f .. i : v < End(ar[j])}
<1>2. J \in SUBSET Nat /\ i \in J
  BY <1>1
<1>3. PICK j \in J : \A k \in J : j <= k
  BY <1>2, MinMember
<1>4. j \in f .. i /\ j \in 1 .. Len(ar) /\ j \in Nat
  BY <1>1
<1>5. PICK b \in Nat, l \in Nat : b = ar[j].begin /\ l = ar[j].len /\ End(ar[j]) = b + l /\ v < b + l
  BY <1>4, SoundAreas
<1>6. b <= WalkBase(ar, base, j)
  BY <1>4, <1>5 DEF Reaches
<1>7. WalkBase(ar, base, j) <= v
  <2>1. CASE j = f
    BY <2>1 DEF WalkBase
  <2>2. CASE j # f
    <3>1. j - 1 \in f .. i /\ ~(j <= j - 1)
      BY <1>4, <2>2
    <3>2. j - 1 \notin J
      BY <1>3, <3>1
    <3>3. ~(v < End(ar[j - 1]))
      BY <3>1, <3>2
    <3>4. End(ar[j - 1]) \in Nat
      <4>1. j - 1 \in 1 .. Len(ar)
        BY <1>1, <3>1
      <4>2. PICK d \in Nat, m \in Nat : End(ar[j - 1]) = d + m
        BY <4>1, SoundAreas
      <4> QED BY <4>2
    <3>5. WalkBase(ar, base, j) = End(ar[j - 1])
      BY <2>2 DEF WalkBase
    <3> QED BY <3>3, <3>4, <3>5
  <2> QED BY <2>1, <2>2
<1>8. PICK w \in Nat : w = WalkBase(ar, base, j)
  <2>1. j \in f .. Len(ar)
    BY <1>1, <1>4
  <2> QED BY <2>1, WalkIs
<1>9. b <= v
  BY <1>5, <1>6, <1>7, <1>8
<1>10. In(v, ar[j])
  BY <1>5, <1>9 DEF In
<1> QED BY <1>4, <1>10, CoveredIs

(* validate_range accepts a range that is covered. *)
LEMMA CoveredValid ==
  ASSUME NEW ar, Sound(ar), NEW base \in Nat, NEW len \in Nat, len > 0,
         \A v \in Nat : base <= v /\ v < base + len => v \in Covered(ar)
  PROVE  /\ Find(ar, base) # 0
         /\ \E i \in Find(ar, base) .. Len(ar) : Reaches(ar, base, i) /\ base + len <= End(ar[i])
<1>1. Len(ar) \in Nat
  BY SoundAreas
<1>2. PICK f \in 1 .. Len(ar) : In(base, ar[f])
  <2>1. base \in Covered(ar)
    OBVIOUS
  <2> QED BY <2>1, CoveredIs
<1>3. Find(ar, base) = f /\ f # 0
  BY <1>2, FindIs
<1>4. PICK v \in Nat : v = base + len - 1 /\ base <= v
  OBVIOUS
<1>5. PICK i \in 1 .. Len(ar) : In(v, ar[i])
  <2>1. v \in Covered(ar)
    BY <1>4
  <2> QED BY <2>1, CoveredIs
<1>6. PICK c \in Nat, k \in Nat : c = ar[f].begin /\ k = ar[f].len /\ End(ar[f]) = c + k
                                  /\ c <= base /\ base < c + k
  <2>1. PICK c \in Nat, k \in Nat : c = ar[f].begin /\ k = ar[f].len /\ End(ar[f]) = c + k
    BY SoundAreas
  <2>2. c <= base /\ base < c + k
    BY <1>2, <2>1 DEF In
  <2> QED BY <2>1, <2>2
<1>7. PICK b \in Nat, l \in Nat : b = ar[i].begin /\ l = ar[i].len /\ End(ar[i]) = b + l
                                  /\ b <= v /\ v < b + l
  <2>1. PICK b \in Nat, l \in Nat : b = ar[i].begin /\ l = ar[i].len /\ End(ar[i]) = b + l
    BY SoundAreas
  <2>2. b <= v /\ v < b + l
    BY <1>5, <2>1 DEF In
  <2> QED BY <2>1, <2>2
<1>8. i \in f .. Len(ar)
  <2>1. ~(i < f)
    <3> SUFFICES ASSUME i < f PROVE FALSE
      OBVIOUS
    <3>1. b + l <= c
      BY <1>6, <1>7, SoundAreas
    <3>2. base <= v /\ v < b + l /\ c <= base
      BY <1>4, <1>6, <1>7
    <3> QED BY <3>1, <3>2
  <2> QED BY <2>1
<1>9. base + len <= End(ar[i])
  <2>1. v = base + len - 1 /\ v < b + l
    BY <1>4, <1>7
  <2>2. base + len <= b + l
    BY <2>1
  <2> QED BY <1>7, <2>2
<1>10. ASSUME NEW j \in f .. i PROVE ar[j].begin <= WalkBase(ar, base, j)
  <2>1. j \in 1 .. Len(ar)
    BY <1>1
  <2>2. CASE j = f
    <3>1. WalkBase(ar, base, j) = base
      BY <1>3, <2>2 DEF WalkBase
    <3> QED BY <1>6, <2>2, <3>1
  <2>3. CASE j # f
    <3>1. j - 1 \in 1 .. Len(ar) /\ j - 1 < i /\ (j - 1 = f \/ f < j - 1) /\ j - 1 < j
      BY <1>1, <2>3
    <3>2. PICK d \in Nat, m \in Nat : d = ar[j - 1].begin /\ m = ar[j - 1].len /\ End(ar[j - 1]) = d + m
      BY <3>1, SoundAreas
    <3>3. d + m <= b
      BY <1>7, <3>1, <3>2, SoundAreas
    <3>4. j - 1 = f => d = c /\ m = k
      BY <1>6, <3>2
    <3>5. f < j - 1 => c + k <= d
      BY <1>6, <3>1, <3>2, SoundAreas
    <3>6. PICK x \in Nat : x = d + m /\ base <= x /\ x <= v
      <4>1. base < c + k /\ b <= v
        BY <1>6, <1>7
      <4>2. CASE d = c /\ m = k
        BY <3>3, <4>1, <4>2
      <4>3. CASE c + k <= d
        BY <3>3, <4>1, <4>3
      <4> QED BY <3>1, <3>4, <3>5, <4>2, <4>3
    <3>7. PICK h \in 1 .. Len(ar) : In(x, ar[h])
      <4>1. x \in Covered(ar)
        BY <1>4, <3>6
      <4> QED BY <4>1, CoveredIs
    <3>8. PICK p \in Nat, q \in Nat : p = ar[h].begin /\ q = ar[h].len /\ p <= x /\ x < p + q
      <4>1. PICK p \in Nat, q \in Nat : p = ar[h].begin /\ q = ar[h].len
        BY SoundAreas
      <4> QED BY <3>7, <4>1 DEF In
    <3>9. ~(h < j - 1) /\ h # j - 1
      <4>1. h < j - 1 => p + q <= d
        BY <3>1, <3>2, <3>8, SoundAreas
      <4>2. h = j - 1 => p = d /\ q = m
        BY <3>2, <3>8
      <4>3. ~(p + q <= d)
        BY <3>6, <3>8
      <4>4. ~(p = d /\ q = m)
        BY <3>6, <3>8
      <4> QED BY <4>1, <4>2, <4>3, <4>4
    <3>10. h = j \/ j < h
      BY <3>1, <3>9
    <3>11. PICK y \in Nat, z \in Nat : y = ar[j].begin /\ z = ar[j].len
      BY <2>1, SoundAreas
    <3>12. j < h => y + z <= p
      BY <2>1, <3>8, <3>11, SoundAreas
    <3>13. h = j => y = p
      BY <3>8, <3>11
    <3>14. y <= x
      BY <3>8, <3>10, <3>11, <3>12, <3>13
    <3>15. WalkBase(ar, base, j) = x
      BY <1>3, <2>3, <3>2, <3>6 DEF WalkBase
    <3> QED BY <3>11, <3>14, <3>15
  <2> QED BY <2>2, <2>3
<1>11. Reaches(ar, base, i)
  BY <1>3, <1>10 DEF Reaches
<1> QED BY <1>3, <1>8, <1>9, <1>11

(* validate_range accepts exactly the ranges that are covered. *)
LEMMA Validates ==
  ASSUME NEW ar, Sound(ar), NEW base \in Nat, NEW len \in Nat, len > 0
  PROVE  Validate(ar, base, len) <=> base .. base + len - 1 \subseteq Covered(ar)
<1>1. ASSUME Validate(ar, base, len), NEW v \in base .. base + len - 1 PROVE v \in Covered(ar)
  <2>1. PICK f : f = Find(ar, base)
    OBVIOUS
  <2>2. f \in 0 .. Len(ar) /\ f # 0 /\ Len(ar) \in Nat
    BY <1>1, <2>1, FindIs, ValidateIs, SoundAreas
  <2>3. f \in 1 .. Len(ar)
    BY <2>2
  <2>4. PICK i \in f .. Len(ar) : Reaches(ar, base, i) /\ base + len <= End(ar[i])
    BY <1>1, <2>1, ValidateIs
  <2>5. PICK e \in Nat : e = End(ar[i])
    BY <2>1, <2>3, WalkIs
  <2>6. v \in Nat /\ base <= v /\ v < End(ar[i])
    BY <2>4, <2>5
  <2> QED BY <2>1, <2>3, <2>4, <2>6, ValidCovered
<1>2. ASSUME base .. base + len - 1 \subseteq Covered(ar) PROVE Validate(ar, base, len)
  <2>1. \A v \in Nat : base <= v /\ v < base + len => v \in base .. base + len - 1
    OBVIOUS
  <2>2. \A v \in Nat : base <= v /\ v < base + len => v \in Covered(ar)
    BY <1>2, <2>1
  <2> QED BY <2>2, CoveredValid, ValidateIs
<1> QED BY <1>1, <1>2

\* An area without its pages, and a list of such areas.
Strip(a) == [begin |-> a.begin, len |-> a.len, hw |-> a.hw, pages |-> {}]
Stripped(p, q) == Len(p) = Len(q) /\ \A k \in 1 .. Len(q) : p[k] = Strip(q[k])

(* An area above all others is copied behind them. *)
LEMMA CopyNext ==
  ASSUME NEW a \in Mapped, ~a.hw, NEW p \in Bare,
         \A i \in 1 .. Len(p) : p[i].begin + p[i].len <= a.begin
  PROVE  CopyArea(a, p) = Append(p, Strip(a))
<1>1. Sound(p) /\ p \in Seq(Mapped)
  BY DEF Bare
<1>2. PICK m \in Nat : m = Len(p) /\ DOMAIN p = 1 .. m
  BY <1>1, SoundAreas
<1>3. PICK b \in Nat, l \in Nat : b = a.begin /\ l = a.len /\ l > 0 /\ Low <= b /\ b + l <= High
  BY GoodArea
<1>4. Plus(b, l) = b + l
  <2>1. b + l \in Nat /\ b + l < Word
    BY <1>3, Limits
  <2> QED BY <2>1, NoWrapping DEF Plus
<1>5. ASSUME NEW i \in 1 .. m PROVE ~(p[i].begin >= b + l) /\ ~(End(p[i]) > b)
  <2>1. PICK c \in Nat, k \in Nat : c = p[i].begin /\ k = p[i].len /\ End(p[i]) = c + k
    BY <1>1, <1>2, SoundAreas
  <2>2. c + k <= b
    BY <1>2, <1>3, <2>1
  <2>3. ~(c >= b + l) /\ ~(c + k > b)
    BY <1>3, <2>2
  <2> QED BY <2>1, <2>3
<1> DEFINE hits == {i \in 1 .. m : p[i].begin >= b + l}
<1>6. PICK s : s = First(hits, p)
  OBVIOUS
<1>7. s \in 1 .. m + 1 /\ (s <= m => s \in hits)
  BY <1>2, <1>6, FirstIs
<1>8. hits = {}
  BY <1>5
<1>9. s = m + 1
  BY <1>7, <1>8
<1>10. ToVaddr(p, b, l) = IF b < Low \/ b > High \/ \E i \in 1 .. s - 1 : End(p[i]) > b
                          THEN Refused ELSE [at |-> s, begin |-> b]
  BY <1>2, <1>4, <1>6 DEF ToVaddr
<1> HIDE DEF hits
<1>11. ~(b < Low) /\ ~(b > High) /\ s - 1 = m
  BY <1>3, <1>9, Limits
<1>12. ~\E i \in 1 .. s - 1 : End(p[i]) > b
  BY <1>5, <1>11
<1>13. PICK pl : pl = ToVaddr(p, b, l)
  OBVIOUS
<1>14. pl = [at |-> s, begin |-> b]
  BY <1>10, <1>11, <1>12, <1>13
<1>15. pl.at = m + 1 /\ pl.begin = b /\ pl.at # 0
  BY <1>9, <1>14
<1>16. PICK e : e = Strip(a)
  OBVIOUS
<1>17. CopyArea(a, p) = InsertAt(p, m + 1, e)
  BY <1>3, <1>13, <1>15, <1>16 DEF CopyArea, Insert, Strip
<1>18. e \in Mapped
  <2>1. e \in Area
    BY <1>16, GoodArea DEF Strip, Area, Mapped
  <2>2. e.begin = a.begin /\ e.len = a.len /\ e.pages = {}
    BY <1>16 DEF Strip
  <2> QED BY <2>1, <2>2, GoodArea DEF Mapped
<1>19. InsertAt(p, m + 1, e) = Append(p, e)
  <2>1. PICK x, y : x = SubSeq(p, 1, (m + 1) - 1) /\ y = SubSeq(p, m + 1, Len(p))
    OBVIOUS
  <2>2. x = p /\ y = <<>>
    BY <1>1, <1>2, <2>1
  <2>3. InsertAt(p, m + 1, e) = (x \o <<e>>) \o y
    BY <2>1 DEF InsertAt
  <2>4. PICK z \in Seq(Mapped) : z = p \o <<e>>
    <3>1. PICK o : o = <<e>>
      OBVIOUS
    <3>2. o \in Seq(Mapped)
      BY <1>18, <3>1, OneSound DEF Sound
    <3>3. p \o o \in Seq(Mapped)
      BY <1>1, <3>2, Join
    <3> QED BY <3>1, <3>3
  <2>5. z \o <<>> = z
    OBVIOUS
  <2>6. z = Append(p, e)
    BY <1>1, <1>18, <2>4
  <2> QED BY <2>2, <2>3, <2>4, <2>5, <2>6
<1> QED BY <1>16, <1>17, <1>19

\* p is a copy of q, which has areas of the first i of the list only.
Copied(p, q, i) ==
  /\ q \in Seq(Mapped) /\ Stripped(p, q)
  /\ \A k \in 1 .. Len(q) : \E j \in 1 .. i : q[k] = areas[j]

(* One more area is copied. *)
LEMMA CopiedNext ==
  ASSUME Sound(areas), NEW i \in 1 .. Len(areas), NEW p \in Bare, NEW q, Copied(p, q, i - 1)
  PROVE  Copied(CopyArea(areas[i], p), q \o (IF areas[i].hw THEN <<>> ELSE <<areas[i]>>), i)
<1>1. PICK a \in Mapped : a = areas[i]
  BY SoundAreas
<1>2. /\ q \in Seq(Mapped) /\ Len(q) \in Nat /\ Len(p) = Len(q) /\ p \in Seq(Mapped)
      /\ \A k \in 1 .. Len(q) : p[k] = Strip(q[k])
      /\ \A k \in 1 .. Len(q) : \E j \in 1 .. i - 1 : q[k] = areas[j]
  BY DEF Copied, Stripped, Bare
<1>3. Len(areas) \in Nat /\ \A j \in 1 .. i - 1 : j \in 1 .. Len(areas) /\ j \in 1 .. i /\ j < i
  BY SoundAreas
<1>4. CASE a.hw
  <2>1. CopyArea(areas[i], p) = p
    BY <1>1, <1>4 DEF CopyArea
  <2>2. q \o (IF areas[i].hw THEN <<>> ELSE <<areas[i]>>) = q
    <3>1. q \o <<>> = q
      BY <1>2
    <3> QED BY <1>1, <1>4, <3>1
  <2>3. Copied(p, q, i)
    BY <1>2, <1>3 DEF Copied, Stripped
  <2> QED BY <2>1, <2>2, <2>3
<1>5. CASE ~a.hw
  <2>1. ASSUME NEW k \in 1 .. Len(p) PROVE p[k].begin + p[k].len <= a.begin
    <3>1. PICK j \in 1 .. i - 1 : q[k] = areas[j]
      BY <1>2
    <3>2. areas[j].begin + areas[j].len <= areas[i].begin
      BY <1>3, SoundAreas
    <3>3. p[k].begin = areas[j].begin /\ p[k].len = areas[j].len
      <4>1. p[k] = Strip(areas[j])
        BY <1>2, <3>1
      <4> QED BY <4>1 DEF Strip
    <3> QED BY <1>1, <3>2, <3>3
  <2>2. PICK r : r = CopyArea(areas[i], p)
    OBVIOUS
  <2>3. r = Append(p, Strip(a))
    BY <1>1, <1>5, <2>1, <2>2, CopyNext
  <2>4. PICK e : e = Strip(a)
    OBVIOUS
  <2>5. PICK t : t = q \o <<a>>
    OBVIOUS
  <2>6. t \in Seq(Mapped) /\ Len(t) = Len(q) + 1 /\ t[Len(q) + 1] = a /\ \A k \in 1 .. Len(q) : t[k] = q[k]
    BY <1>2, <2>5
  <2>7. r = Append(p, e)
    BY <2>3, <2>4
  <2>8. Len(r) = Len(q) + 1 /\ r[Len(q) + 1] = e /\ \A k \in 1 .. Len(q) : r[k] = p[k]
    BY <1>2, <2>7
  <2>9. \A k \in 1 .. Len(q) + 1 : k \in 1 .. Len(q) \/ k = Len(q) + 1
    BY <1>2
  <2>10. Stripped(r, t)
    BY <1>2, <2>4, <2>6, <2>8, <2>9 DEF Stripped
  <2>11. ASSUME NEW k \in 1 .. Len(t) PROVE \E j \in 1 .. i : t[k] = areas[j]
    <3>1. CASE k \in 1 .. Len(q)
      BY <1>2, <1>3, <2>6, <3>1
    <3>2. CASE k = Len(q) + 1
      <4>1. i \in 1 .. i
        OBVIOUS
      <4> QED BY <1>1, <2>6, <3>2, <4>1
    <3> QED BY <2>6, <2>9, <3>1, <3>2
  <2>12. Copied(r, t, i)
    BY <2>6, <2>10, <2>11 DEF Copied
  <2>13. q \o (IF areas[i].hw THEN <<>> ELSE <<areas[i]>>) = t
    BY <1>1, <1>5, <2>5
  <2> QED BY <2>2, <2>12, <2>13
<1> QED BY <1>4, <1>5

\* The areas that are not of devices.
Kept == [i \in DOMAIN areas |-> IF areas[i].hw THEN <<>> ELSE <<areas[i]>>]

(* as_snapshot copies exactly the areas that are not of devices. *)
LEMMA SnapshotCopies ==
  ASSUME Sound(areas)
  PROVE  Copied(Snapshot, FlattenSeq(Kept), Len(areas))
<1>1. PICK n \in Nat : n = Len(areas) /\ DOMAIN areas = 1 .. n
  BY SoundAreas
<1>2. PICK c \in [0 .. n -> Bare] : Copies(c, n) /\ Snapshot = c[n]
  BY <1>1, SnapshotSteps
<1>3. Kept \in Seq(Seq(Mapped)) /\ Len(Kept) = n
      /\ \A i \in 1 .. n : Kept[i] = IF areas[i].hw THEN <<>> ELSE <<areas[i]>>
  <2>1. \A i \in 1 .. n : areas[i] \in Mapped
    BY <1>1, SoundAreas
  <2>2. Kept \in [1 .. n -> Seq(Mapped)]
    BY <1>1, <2>1 DEF Kept
  <2> QED BY <1>1, <2>2 DEF Kept
<1>4. Copied(c[0], <<>>, 0)
  <2>1. c[0] = <<>> /\ <<>> \in Seq(Mapped) /\ Len(<<>>) = 0 /\ 1 .. 0 = {}
    BY <1>2 DEF Copies
  <2> QED BY <2>1 DEF Copied, Stripped
<1>5. ASSUME NEW i \in 1 .. n, NEW q, Copied(c[i - 1], q, i - 1)
      PROVE  Copied(c[i], q \o Kept[i], i)
  <2>1. c[i - 1] \in Bare /\ c[i] = CopyArea(areas[i], c[i - 1])
    BY <1>2 DEF Copies
  <2>2. Copied(CopyArea(areas[i], c[i - 1]), q \o (IF areas[i].hw THEN <<>> ELSE <<areas[i]>>), i)
    BY <1>1, <1>5, <2>1, CopiedNext
  <2> QED BY <1>3, <2>1, <2>2
<1>6. CASE n = 0
  <2>1. FlattenSeq(Kept) = <<>>
    BY <1>3, <1>6 DEF FlattenSeq
  <2> QED BY <1>1, <1>2, <1>4, <1>6, <2>1
<1>7. CASE n > 0
  <2>1. PICK g \in [1 .. n -> Seq(Mapped)] : Flat(g, Kept) /\ FlattenSeq(Kept) = g[n]
    BY <1>3, <1>7, FlattenSteps
  <2> DEFINE T == {0} \cup {i \in 1 .. n : Copied(c[i], g[i], i)}
  <2>2. ASSUME NEW i \in 1 .. n, i - 1 \in T PROVE i \in T
    <3>1. CASE i = 1
      <4>1. Copied(c[i - 1], <<>>, i - 1)
        BY <1>4, <3>1
      <4>2. Copied(c[i], <<>> \o Kept[i], i)
        BY <1>5, <4>1
      <4>3. <<>> \o Kept[i] = Kept[i]
        <5>1. Kept[i] \in Seq(Mapped)
          BY <1>3
        <5> QED BY <5>1
      <4>4. g[i] = Kept[i]
        BY <2>1, <3>1 DEF Flat
      <4>5. Copied(c[i], g[i], i)
        BY <4>2, <4>3, <4>4
      <4> QED BY <4>5
    <3>2. CASE i # 1
      <4>1. i - 1 \in 1 .. n /\ i \in 2 .. Len(Kept) /\ i - 1 # 0
        BY <1>3, <3>2
      <4>2. Copied(c[i - 1], g[i - 1], i - 1)
        BY <2>2, <4>1
      <4>3. Copied(c[i], g[i - 1] \o Kept[i], i)
        BY <1>5, <4>2
      <4>4. g[i] = g[i - 1] \o Kept[i]
        BY <2>1, <4>1 DEF Flat
      <4>5. Copied(c[i], g[i], i)
        BY <4>3, <4>4
      <4> QED BY <4>5
    <3> QED BY <3>1, <3>2
  <2>3. 0 \in T
    OBVIOUS
  <2> HIDE DEF T
  <2>4. 0 .. n \subseteq T
    BY <2>2, <2>3, UpTo
  <2>5. n \in T /\ n # 0
    BY <1>7, <2>4
  <2>6. Copied(c[n], g[n], n)
    BY <2>5 DEF T
  <2> QED BY <1>1, <1>2, <2>1, <2>6
<1> QED BY <1>6, <1>7

(* The pages of the whole list that are in an area are that area's pages. *)
LEMMA OwnPages ==
  ASSUME NEW ar, Sound(ar), NEW j \in 1 .. Len(ar)
  PROVE  {v \in AllPages(ar) : In(v, ar[j])} = ar[j].pages
<1>1. ASSUME NEW h \in 1 .. Len(ar), NEW v \in ar[h].pages PROVE v \in Nat /\ In(v, ar[h])
  BY SoundAreas, GoodArea
<1>2. ASSUME NEW h \in 1 .. Len(ar), NEW v \in ar[h].pages, In(v, ar[j]) PROVE v \in ar[j].pages
  <2>1. Find(ar, v) = h /\ Find(ar, v) = j
    BY <1>1, <1>2, FindIs
  <2> QED BY <2>1
<1> QED BY <1>1, <1>2 DEF AllPages

(* A snapshot has every area but those of devices, each with its pages. *)
LEMMA SnapshotIsExact ==
  ASSUME Inv
  PROVE  SnapshotExact
<1>1. Sound(areas) /\ vaddr_map = AllPages(areas)
  BY DEF Inv
<1>2. PICK s, f, r : s = Snapshot /\ f = FlattenSeq(Kept) /\ r = Assign(s, vaddr_map)
  OBVIOUS
<1>3. Copied(s, f, Len(areas)) /\ Sound(s)
  BY <1>1, <1>2, SnapshotCopies, SnapshotBare
<1>4. /\ f \in Seq(Mapped) /\ Len(s) = Len(f) /\ DOMAIN s = 1 .. Len(f)
      /\ \A k \in 1 .. Len(f) : s[k] = Strip(f[k])
      /\ \A k \in 1 .. Len(f) : \E j \in 1 .. Len(areas) : f[k] = areas[j]
  BY <1>3, SoundAreas DEF Copied, Stripped
<1>5. vaddr_map \in SUBSET Nat
  <2>1. vaddr_map \subseteq 0 .. Word - 1
    BY <1>1, PagesAre
  <2> QED BY <2>1
<1>6. Sound(r)
  BY <1>2, <1>3, <1>5, AssignSound
<1>7. ASSUME NEW k \in 1 .. Len(f) PROVE r[k] = f[k]
  <2>1. PICK j \in 1 .. Len(areas) : f[k] = areas[j]
    BY <1>4
  <2>2. PICK a \in Mapped : a = areas[j]
    BY <1>1, SoundAreas
  <2>3. s[k] = Strip(a) /\ s[k].begin = a.begin /\ s[k].len = a.len /\ s[k].pages = {}
    BY <1>4, <2>1, <2>2 DEF Strip
  <2>4. \A v \in vaddr_map : Find(s, v) = k <=> In(v, a)
    <3>1. \A v \in vaddr_map : Find(s, v) = k <=> In(v, s[k])
      BY <1>3, <1>4, <1>5, FindIs
    <3> QED BY <2>3, <3>1 DEF In
  <2>5. {v \in vaddr_map : In(v, a)} = a.pages
    BY <1>1, <2>2, OwnPages
  <2>6. PICK X, Y : X = {v \in vaddr_map : Find(s, v) # 0} /\ Y = {v \in vaddr_map : Find(s, v) = k}
    OBVIOUS
  <2>7. Y = a.pages
    BY <2>4, <2>5, <2>6
  <2>8. r[k] = [s[k] EXCEPT !.pages = (@ \ X) \cup Y]
    BY <1>2, <1>4, <2>6 DEF Assign
  <2>9. ({} \ X) \cup Y = a.pages
    BY <2>7
  <2>10. r[k] = [Strip(a) EXCEPT !.pages = a.pages]
    BY <2>3, <2>8, <2>9
  <2>11. a \in Area
    BY GoodArea
  <2>12. r[k] = a
    BY <2>10, <2>11 DEF Strip, Area
  <2> QED BY <2>1, <2>2, <2>12
<1>8. Len(r) = Len(f)
  BY <1>2, <1>4 DEF Assign
<1>9. r = f
  <2>1. r \in Seq(Mapped)
    BY <1>6 DEF Sound
  <2> QED BY <1>4, <1>7, <1>8, <2>1, SameList
<1> QED BY <1>2, <1>9 DEF SnapshotExact, Kept

(* In every state, for any word, limits, addresses and lengths,              *)
(* validate_range accepts exactly the covered ranges, remove_vma_range       *)
(* unmaps exactly its range, insert_vma_to_any takes the lowest gap that is  *)
(* large enough, as_snapshot copies every area but those of devices with its *)
(* pages, and destroy_as never finds an area it did not remove (aspace.c):   *)
(* the programs map ranges between the limits (Fits), no range wraps and no  *)
(* message is exactly one aligned page (Padded), which would leave an empty  *)
(* area that destroy_as cannot remove (copy.c:57-63, 107; aspace.c:436).     *)
THEOREM OperationsAreExact ==
  ASSUME Fits, Padded, NoWrap
  PROVE  Spec => []OperationsExact
<1>1. Init => Inv
  BY InitInv
<1>2. Inv /\ [Next]_vars => Inv'
  BY AreasStep
<1>3. Inv => OperationsExact
  <2> SUFFICES ASSUME Inv PROVE OperationsExact
    OBVIOUS
  <2>1. Sound(areas) /\ fault \in {"none", "ret_panic", "kernel_fault"}
    BY DEF Inv
  <2>2. ASSUME NEW n \in Lens
        PROVE  n \in Nat /\ High + n < Word /\ \A b \in Bases : b \in Nat /\ b + n < Word
    BY Arguments DEF NoWrap
  <2>3. ASSUME NEW n \in Lens \ {0} PROVE n \in Lens /\ n > 0
    BY <2>2
  <2>4. ValidateExact
    BY <2>1, <2>2, <2>3, Validates DEF ValidateExact
  <2>5. RemoveExact
    BY <2>1, <2>2, RemovesRange DEF RemoveExact
  <2>6. FirstFit
    <3> SUFFICES ASSUME NEW n \in Lens \ {0},
                        NEW gaps,
                        gaps = {v \in Low .. High - n : (v .. v + n - 1) \cap Covered(areas) = {}}
                 PROVE  IF gaps = {} THEN ToAny(areas, n) = Refused
                        ELSE ToAny(areas, n).at # 0 /\ ToAny(areas, n).begin = Min(gaps)
      BY DEF FirstFit
    <3> QED BY <2>1, <2>2, <2>3, FirstFits
  <2>7. SnapshotExact
    BY SnapshotIsExact
  <2>8. DestroyedClean
    BY <2>1 DEF DestroyedClean
  <2> QED BY <2>4, <2>5, <2>6, <2>7, <2>8 DEF OperationsExact
<1> QED BY <1>1, <1>2, <1>3, PTL DEF Spec

-----------------------------------------------------------------------------
(* The heap: powers of two and their multiples                             *)

(* The constants are numbers. *)
LEMMA POrder == P \in Nat /\ Pages \in Nat
  BY MallocAssumption

(* 1 << k is what its definition says. *)
LEMMA PowerIs ==
  /\ Power[0] = 1
  /\ \A k \in 0 .. P + 1 : Power[k] \in Nat /\ Power[k] > 0
  /\ \A k \in 1 .. P + 1 : Power[k] = Power[k - 1] + Power[k - 1]
<1> DEFINE X == {x \in Nat : x > 0}
           f == [t \in (1 .. P + 1) \X X |-> 2 * t[2]]
<1>1. P + 1 \in Nat /\ 1 \in X
  BY POrder
<1>2. f \in [(1 .. P + 1) \X X -> X]
  OBVIOUS
<1>3. PICK g : Iterates(g, f, 1, P + 1, X)
  <2> HIDE DEF f, X
  <2> QED BY <1>1, <1>2, Iterate
<1>4. /\ g \in [0 .. P + 1 -> X] /\ g[0] = 1
      /\ \A i \in 1 .. P + 1 : g[i] = f[<<i, g[i - 1]>>]
  <2> HIDE DEF f, X
  <2> QED BY <1>3 DEF Iterates
<1>5. \A i \in 1 .. P + 1 : g[i - 1] \in X /\ g[i] = 2 * g[i - 1]
  <2> SUFFICES ASSUME NEW i \in 1 .. P + 1 PROVE g[i - 1] \in X /\ g[i] = 2 * g[i - 1]
    OBVIOUS
  <2>1. i - 1 \in 0 .. P + 1
    BY POrder
  <2>2. g[i - 1] \in X
    BY <1>4, <2>1
  <2>3. f[<<i, g[i - 1]>>] = 2 * g[i - 1]
    BY <2>2
  <2> QED BY <1>4, <2>2, <2>3
<1>6. g = [k \in 0 .. P + 1 |-> IF k = 0 THEN 1 ELSE 2 * g[k - 1]]
  <2>1. \A k \in 0 .. P + 1 : g[k] = IF k = 0 THEN 1 ELSE 2 * g[k - 1]
    BY <1>4, <1>5, POrder
  <2> HIDE DEF f, X
  <2> QED BY <1>4, <2>1
<1>7. Power = [k \in 0 .. P + 1 |-> IF k = 0 THEN 1 ELSE 2 * Power[k - 1]]
  <2> DEFINE Def(h) == h = [k \in 0 .. P + 1 |-> IF k = 0 THEN 1 ELSE 2 * h[k - 1]]
  <2>1. Def(g)
    BY <1>6
  <2>2. Def(CHOOSE h : Def(h))
    <3> HIDE DEF Def
    <3> QED BY <2>1
  <2> QED BY <2>2 DEF Power
<1>8. \A k \in 0 .. P + 1 : Power[k] = IF k = 0 THEN 1 ELSE 2 * Power[k - 1]
  BY <1>7
<1> DEFINE T == {k \in 0 .. P + 1 : Power[k] = g[k]}
<1>9. 0 .. P + 1 \subseteq T
  <2>1. 0 \in T
    BY <1>1, <1>4, <1>8
  <2>2. ASSUME NEW i \in 1 .. P + 1, i - 1 \in T PROVE i \in T
    <3>1. i \in 0 .. P + 1 /\ i # 0
      BY POrder
    <3>2. Power[i] = 2 * Power[i - 1]
      BY <1>8, <3>1
    <3> QED BY <1>5, <2>2, <3>1, <3>2
  <2> HIDE DEF T
  <2> QED BY <1>1, <2>1, <2>2, UpTo
<1>10. \A k \in 0 .. P + 1 : Power[k] = g[k] /\ Power[k] \in X
  BY <1>4, <1>9
<1>11. ASSUME NEW k \in 1 .. P + 1 PROVE Power[k] = Power[k - 1] + Power[k - 1]
  <2>1. k \in 0 .. P + 1 /\ k - 1 \in 0 .. P + 1 /\ k # 0
    BY POrder
  <2>2. Power[k] = 2 * Power[k - 1] /\ Power[k - 1] \in Nat
    BY <1>8, <1>10, <2>1
  <2> QED BY <2>2
<1> QED BY <1>1, <1>4, <1>10, <1>11

(* Products. *)
LEMMA Times ==
  ASSUME NEW q \in Nat, NEW m \in Nat
  PROVE  /\ q * m \in Nat /\ (q + 1) * m = q * m + m
         /\ (q + q) * m = q * m + q * m /\ q * (m + m) = q * m + q * m
  OBVIOUS

(* Multiples keep the order. *)
LEMMA TimesOrder ==
  ASSUME NEW q \in Nat, NEW r \in Nat, NEW m \in Nat, q < r
  PROVE  q * m + m <= r * m
<1>1. q + 1 <= r
  OBVIOUS
<1> QED BY <1>1

(* A multiple of a multiple. *)
LEMMA TimesTimes ==
  ASSUME NEW q \in Nat, NEW r \in Nat, NEW m \in Nat
  PROVE  q * (r * m) = (q * r) * m /\ q * r \in Nat
  OBVIOUS

(* Half of a power of two. *)
LEMMA Halve ==
  ASSUME NEW q \in Nat
  PROVE  \/ q % 2 = 0 /\ \E r \in Nat : q = r + r
         \/ q % 2 = 1 /\ \E r \in Nat : q = r + r + 1
<1>1. q = 2 * (q \div 2) + (q % 2) /\ q \div 2 \in Nat /\ q % 2 \in 0 .. 1
  OBVIOUS
<1>2. q = (q \div 2) + (q \div 2) + (q % 2)
  BY <1>1
<1> QED BY <1>1, <1>2

(* Division with remainder. *)
LEMMA Divide ==
  ASSUME NEW x \in Nat, NEW m \in Nat, m > 0
  PROVE  /\ x \div m \in Nat
         /\ (x \div m) * m <= x /\ x < (x \div m) * m + m
         /\ \A q \in Nat : q * m <= x /\ x < q * m + m => q = x \div m
<1>1. /\ x \div m \in Nat /\ x % m \in Nat /\ x % m < m
      /\ x = (x \div m) * m + (x % m)
  OBVIOUS
<1>2. PICK d \in Nat, dm \in Nat : d = x \div m /\ dm = (x \div m) * m
  BY <1>1, Times
<1>3. dm <= x /\ x < dm + m
  BY <1>1, <1>2
<1>4. ASSUME NEW q \in Nat, q * m <= x, x < q * m + m PROVE q = d
  <2>1. PICK qm \in Nat : qm = q * m
    BY Times
  <2>2. q < d => qm + m <= dm
    BY <1>2, <2>1, TimesOrder
  <2>3. d < q => dm + m <= qm
    BY <1>2, <2>1, TimesOrder
  <2> QED BY <1>3, <1>4, <2>1, <2>2, <2>3
<1> QED BY <1>1, <1>2, <1>3, <1>4

\* a is a multiple of 1 << k: an address a block of order k may have.
Multiple(a, k) == \E q \in Nat : a = q * Power[k]

(* A power of two is a multiple of the smaller ones. *)
LEMMA PowerDivides ==
  ASSUME NEW k \in 0 .. P + 1, NEW j \in 0 .. P + 1, k <= j
  PROVE  \E m \in Nat : Power[j] = m * Power[k]
<1> DEFINE T == {d \in 0 .. j - k : \E m \in Nat : Power[k + d] = m * Power[k]}
<1>1. j - k \in Nat /\ P \in Nat
  BY POrder
<1>2. 0 \in T
  <2>1. Power[k + 0] = 1 * Power[k]
    BY PowerIs
  <2> QED BY <1>1, <2>1
<1>3. ASSUME NEW d \in 1 .. j - k, d - 1 \in T PROVE d \in T
  <2>1. PICK m \in Nat : Power[k + (d - 1)] = m * Power[k]
    BY <1>3
  <2>2. k + d \in 1 .. P + 1 /\ (k + d) - 1 = k + (d - 1)
    BY <1>1
  <2>3. Power[k + d] = Power[k + (d - 1)] + Power[k + (d - 1)]
    BY <2>2, PowerIs
  <2>4. Power[k + d] = (m + m) * Power[k]
    <3>1. Power[k] \in Nat
      BY PowerIs
    <3> QED BY <2>1, <2>3, <3>1, Times
  <2>5. m + m \in Nat /\ d \in 0 .. j - k
    OBVIOUS
  <2> QED BY <2>4, <2>5
<1>4. j - k \in T
  <2> HIDE DEF T
  <2> QED BY <1>1, <1>2, <1>3, UpTo
<1>5. k + (j - k) = j
  OBVIOUS
<1> QED BY <1>4, <1>5

(* A multiple of 1 << k is one of every smaller power. *)
LEMMA MultipleDown ==
  ASSUME NEW a, NEW k \in 0 .. P + 1, NEW j \in 0 .. P + 1, k <= j, Multiple(a, j)
  PROVE  Multiple(a, k)
<1>1. PICK q \in Nat : a = q * Power[j]
  BY DEF Multiple
<1>2. PICK m \in Nat : Power[j] = m * Power[k]
  BY PowerDivides
<1>3. Power[k] \in Nat
  BY PowerIs
<1>4. a = (q * m) * Power[k] /\ q * m \in Nat
  BY <1>1, <1>2, <1>3, TimesTimes
<1> QED BY <1>4 DEF Multiple

(* Two multiples are apart by at least one. *)
LEMMA MultipleGap ==
  ASSUME NEW k \in 0 .. P + 1, NEW a, NEW b, Multiple(a, k), Multiple(b, k)
  PROVE  a \in Nat /\ b \in Nat /\ (a < b => a + Power[k] <= b)
<1>1. PICK q \in Nat, r \in Nat : a = q * Power[k] /\ b = r * Power[k]
  BY DEF Multiple
<1>2. Power[k] \in Nat
  BY PowerIs
<1>3. a \in Nat /\ b \in Nat
  BY <1>1, <1>2, Times
<1>4. r <= q => b <= a
  <2>1. CASE r = q
    BY <1>1, <1>3, <2>1
  <2>2. CASE r < q
    BY <1>1, <1>2, <1>3, <2>2, TimesOrder
  <2> QED BY <2>1, <2>2
<1>5. q < r => a + Power[k] <= b
  BY <1>1, <1>2, TimesOrder
<1> QED BY <1>2, <1>3, <1>4, <1>5

(* The next multiple. *)
LEMMA NextMultiple ==
  ASSUME NEW k \in 0 .. P + 1, NEW a, Multiple(a, k)
  PROVE  Multiple(a + Power[k], k)
<1>1. PICK q \in Nat : a = q * Power[k]
  BY DEF Multiple
<1>2. PICK m \in Nat : m = Power[k]
  BY PowerIs
<1>3. PICK t \in Nat : t = q + 1 /\ t * m = q * m + m
  BY Times
<1>4. a + m = t * m
  BY <1>1, <1>2, <1>3
<1> QED BY <1>2, <1>4 DEF Multiple

(* The two halves of a block. *)
LEMMA Halves ==
  ASSUME NEW k \in 1 .. P + 1, NEW a, Multiple(a, k)
  PROVE  Multiple(a, k - 1) /\ Multiple(a + Power[k - 1], k - 1)
<1>1. PICK q \in Nat : a = q * Power[k]
  BY DEF Multiple
<1>2. k - 1 \in 0 .. P + 1
  BY POrder
<1>3. PICK m \in Nat : m = Power[k - 1] /\ Power[k] = m + m
  BY <1>2, PowerIs
<1>4. a = (q + q) * m
  BY <1>1, <1>3, Times
<1>5. a + m = (q + q + 1) * m
  BY <1>3, <1>4, Times
<1>6. q + q \in Nat /\ q + q + 1 \in Nat
  OBVIOUS
<1> QED BY <1>3, <1>4, <1>5, <1>6 DEF Multiple

(* The buddy is the other half of a block twice the size (malloc.c:127). *)
LEMMA BuddyIs ==
  ASSUME NEW k \in 0 .. P, NEW a, Multiple(a, k)
  PROVE  LET b == Buddy(a, k)
         IN  /\ Multiple(b, k) /\ b \in Nat /\ a \in Nat
             /\ \/ Multiple(a, k + 1) /\ b = a + Power[k]
                \/ Multiple(b, k + 1) /\ a = b + Power[k]
<1>1. PICK q \in Nat : a = q * Power[k]
  BY DEF Multiple
<1>2. k \in 0 .. P + 1 /\ k + 1 \in 1 .. P + 1 /\ k + 1 \in 0 .. P + 1
  BY POrder
<1>3. PICK m \in Nat : m = Power[k] /\ m > 0 /\ Power[k + 1] = m + m
  BY <1>2, PowerIs
<1>4. a \in Nat
  BY <1>1, <1>3, Times
<1>5. a \div Power[k] = q
  BY <1>1, <1>3, <1>4, Divide
<1>6. CASE q % 2 = 0
  <2>1. Buddy(a, k) = a + m
    BY <1>3, <1>5, <1>6 DEF Buddy
  <2>2. PICK r \in Nat : q = r + r
    BY <1>6, Halve
  <2>3. a = r * (m + m) /\ a + m = (q + 1) * m /\ q + 1 \in Nat
    BY <1>1, <1>3, <2>2, Times
  <2> QED BY <1>3, <1>4, <2>1, <2>3 DEF Multiple
<1>7. CASE q % 2 = 1
  <2>1. Buddy(a, k) = a - m
    BY <1>3, <1>5, <1>7 DEF Buddy
  <2>2. PICK r \in Nat : q = r + r + 1
    BY <1>7, Halve
  <2>3. PICK rr \in Nat, c \in Nat : rr = r + r /\ c = rr * m
    BY <1>3, Times
  <2>4. a = c + m /\ c = r * (m + m)
    BY <1>1, <1>3, <2>2, <2>3, Times
  <2>5. a - m = c /\ a = c + m
    BY <1>3, <1>4, <2>3, <2>4
  <2> QED BY <1>3, <1>4, <2>1, <2>3, <2>4, <2>5 DEF Multiple
<1> QED BY <1>6, <1>7, Halve

(* A block lies in one page. *)
LEMMA OnePage ==
  ASSUME NEW k \in 0 .. P, NEW a, Multiple(a, k), NEW x \in Nat, a <= x, x < a + Power[k]
  PROVE  PageOf(x) = PageOf(a) /\ PageOf(a) \in Nat /\ a \in Nat
<1>1. P \in 0 .. P + 1 /\ k \in 0 .. P + 1 /\ k <= P
  BY POrder
<1>2. PICK u \in Nat : u = Power[P] /\ u > 0
  BY <1>1, PowerIs
<1>3. a \in Nat
  BY <1>1, MultipleGap
<1>4. PICK p \in Nat, s \in Nat : p = PageOf(a) /\ s = p * u
  BY <1>2, <1>3, Divide, Times DEF PageOf, PageUnits
<1>5. s <= a /\ a < s + u
  BY <1>2, <1>3, <1>4, Divide DEF PageOf, PageUnits
<1>6. Multiple(s + u, k)
  <2>1. s + u = (p + 1) * u /\ p + 1 \in Nat
    BY <1>2, <1>4, Times
  <2>2. Multiple(s + u, P)
    BY <1>2, <2>1 DEF Multiple
  <2> QED BY <1>1, <2>2, MultipleDown
<1>7. a + Power[k] <= s + u
  BY <1>1, <1>5, <1>6, MultipleGap
<1>8. Power[k] \in Nat
  BY <1>1, PowerIs
<1>9. s <= x /\ x < s + u
  BY <1>3, <1>5, <1>7, <1>8
<1>10. p = x \div u
  BY <1>2, <1>4, <1>9, Divide
<1> QED BY <1>2, <1>3, <1>4, <1>10 DEF PageOf, PageUnits

-----------------------------------------------------------------------------
(* Blocks that tile pages                                                  *)

\* A block holds what was asked for; the header of a free one asks for nothing.
Block ==
  {b \in [order : Order, free : BOOLEAN, asked : Nat] :
     b.asked <= Power[b.order] /\ (b.free => b = FreeBlock(b.order))}

Blocks == UNION {[D -> Block] : D \in SUBSET Nat}

EndOf(B, a) == a + Power[B[a].order]
PagesCovered(B, x) == \E c \in DOMAIN B : c <= x /\ x < EndOf(B, c)

\* Every block is at a multiple of its size, none reaches into the next, and a
\* page with a block is covered by blocks.
Tiling(B) ==
  /\ \A a \in DOMAIN B : Multiple(a, B[a].order)
  /\ \A a, c \in DOMAIN B : a < c => EndOf(B, a) <= c
  /\ \A a \in DOMAIN B, x \in Nat : PageOf(x) = PageOf(a) => PagesCovered(B, x)

(* What a block is, in numbers. *)
LEMMA BlockAt ==
  ASSUME NEW B \in Blocks, NEW a \in DOMAIN B
  PROVE  /\ a \in Nat /\ B[a] \in Block /\ B[a].order \in 0 .. P /\ B[a].order \in 0 .. P + 1
         /\ B[a].order \in Order
         /\ Power[B[a].order] \in Nat /\ Power[B[a].order] > 0
         /\ EndOf(B, a) \in Nat /\ a < EndOf(B, a)
<1>1. a \in Nat /\ B[a] \in Block
  BY DEF Blocks
<1>2. B[a].order \in Order
  BY <1>1 DEF Block
<1>3. B[a].order \in 0 .. P /\ B[a].order \in 0 .. P + 1
  BY <1>2, POrder DEF Order
<1>4. Power[B[a].order] \in Nat /\ Power[B[a].order] > 0
  BY <1>3, PowerIs
<1> QED BY <1>1, <1>2, <1>3, <1>4 DEF EndOf

(* What a header says besides the order does not matter. *)
LEMMA SameTiling ==
  ASSUME NEW B \in Blocks, Tiling(B), NEW C \in Blocks,
         DOMAIN C = DOMAIN B, \A c \in DOMAIN B : C[c].order = B[c].order
  PROVE  Tiling(C)
<1>1. \A c \in DOMAIN B : EndOf(C, c) = EndOf(B, c)
  BY DEF EndOf
<1> QED BY <1>1 DEF Tiling, PagesCovered

(* Blocks that are apart. *)
LEMMA Between ==
  ASSUME NEW B \in Blocks, Tiling(B), NEW a \in DOMAIN B, NEW c \in DOMAIN B,
         a <= c, c < EndOf(B, a)
  PROVE  c = a
<1>1. a \in Nat /\ c \in Nat /\ EndOf(B, a) \in Nat
  BY BlockAt
<1>2. ~(a < c)
  BY <1>1 DEF Tiling
<1> QED BY <1>1, <1>2

(* split (malloc.c:43-63). *)
Halved(C, B, a, b, k) ==
  /\ B[a].order = k /\ b = a + Power[k - 1]
  /\ DOMAIN C = DOMAIN B \cup {b} /\ C[a].order = k - 1 /\ C[b].order = k - 1
  /\ \A c \in DOMAIN B \ {a} : C[c].order = B[c].order

(* A block split into its halves. *)
LEMMA SplitTiling ==
  ASSUME NEW B \in Blocks, Tiling(B), NEW C \in Blocks, NEW k \in 1 .. P,
         NEW a \in DOMAIN B, NEW b, Halved(C, B, a, b, k)
  PROVE  Tiling(C) /\ b \notin DOMAIN B
<1> USE DEF Halved
<1>1. k - 1 \in 0 .. P + 1 /\ k \in 1 .. P + 1 /\ k \in 0 .. P /\ k - 1 \in 0 .. P
  BY POrder
<1>2. PICK m \in Nat : m = Power[k - 1] /\ m > 0 /\ Power[k] = m + m
  BY <1>1, PowerIs
<1>3. a \in Nat /\ b \in Nat /\ b = a + m
  BY <1>2, BlockAt
<1>4. EndOf(B, a) = b + m
  BY <1>2, <1>3 DEF EndOf
<1>5. b \notin DOMAIN B
  <2> SUFFICES ASSUME b \in DOMAIN B PROVE FALSE
    OBVIOUS
  <2>1. a <= b /\ b < EndOf(B, a) /\ b # a
    BY <1>2, <1>3, <1>4
  <2> QED BY <2>1, Between
<1>6. EndOf(C, a) = b /\ EndOf(C, b) = b + m
  BY <1>2, <1>3 DEF EndOf
<1>7. \A c \in DOMAIN B \ {a} : EndOf(C, c) = EndOf(B, c)
  BY DEF EndOf
<1>8. Multiple(a, k - 1) /\ Multiple(b, k - 1)
  BY <1>1, Halves DEF Tiling
<1>9. \A c \in DOMAIN C : Multiple(c, C[c].order)
  <2> SUFFICES ASSUME NEW c \in DOMAIN C PROVE Multiple(c, C[c].order)
    OBVIOUS
  <2>1. CASE c \in {a, b}
    BY <1>8, <2>1
  <2>2. CASE c \in DOMAIN B \ {a}
    BY <2>2 DEF Tiling
  <2> QED BY <2>1, <2>2
<1>10. ASSUME NEW c \in DOMAIN C, NEW d \in DOMAIN C, c < d PROVE EndOf(C, c) <= d
  <2>1. c \in Nat /\ d \in Nat
    BY BlockAt
  <2>2. CASE c = a
    <3>1. d = b \/ (d \in DOMAIN B /\ b + m <= d)
      BY <1>4, <1>10, <2>2 DEF Tiling
    <3> QED BY <1>2, <1>3, <1>6, <2>1, <2>2, <3>1
  <2>3. CASE c = b
    <3>1. d \in DOMAIN B /\ a < d
      BY <1>2, <1>3, <1>10, <2>1, <2>3
    <3>2. b + m <= d
      BY <1>4, <3>1 DEF Tiling
    <3> QED BY <1>6, <2>3, <3>2
  <2>4. CASE c \in DOMAIN B \ {a}
    <3>1. CASE d \in DOMAIN B
      BY <1>7, <1>10, <2>4, <3>1 DEF Tiling
    <3>2. CASE d = b
      <4>1. EndOf(B, c) \in Nat
        BY <2>4, BlockAt
      <4>2. c < a
        <5> SUFFICES ASSUME a < c PROVE FALSE
          BY <1>3, <2>1, <2>4
        <5>1. b + m <= c
          BY <1>4, <2>4 DEF Tiling
        <5> QED BY <1>2, <1>3, <1>10, <2>1, <3>2, <5>1
      <4>3. EndOf(B, c) <= a
        BY <2>4, <4>2 DEF Tiling
      <4> QED BY <1>2, <1>3, <1>7, <2>4, <3>2, <4>1, <4>3
    <3> QED BY <3>1, <3>2
  <2> QED BY <2>2, <2>3, <2>4
<1>11. PageOf(b) = PageOf(a)
  <2>1. a <= b /\ b < a + Power[k]
    BY <1>2, <1>3
  <2>2. Multiple(a, k)
    BY DEF Tiling
  <2> QED BY <1>1, <1>3, <2>1, <2>2, OnePage
<1>12. ASSUME NEW c \in DOMAIN C, NEW x \in Nat, PageOf(x) = PageOf(c) PROVE PagesCovered(C, x)
  <2>1. PICK d \in DOMAIN B : PageOf(x) = PageOf(d)
    BY <1>11, <1>12
  <2>2. PICK e \in DOMAIN B : e <= x /\ x < EndOf(B, e)
    BY <2>1 DEF Tiling, PagesCovered
  <2>3. CASE e # a
    BY <1>7, <2>2, <2>3 DEF PagesCovered
  <2>4. CASE e = a
    <3>1. CASE x < b
      BY <1>6, <2>2, <2>4, <3>1 DEF PagesCovered
    <3>2. CASE ~(x < b)
      <4>1. b <= x /\ x < EndOf(C, b)
        BY <1>3, <1>4, <1>6, <2>2, <2>4, <3>2
      <4> QED BY <4>1 DEF PagesCovered
    <3> QED BY <3>1, <3>2
  <2> QED BY <2>3, <2>4
<1> QED BY <1>5, <1>9, <1>10, <1>12 DEF Tiling

(* Two buddies become one block (malloc.c:128-140). *)
Joint(C, B, a, b, k) ==
  /\ b = a + Power[k] /\ Multiple(a, k + 1) /\ B[a].order = k /\ B[b].order = k
  /\ DOMAIN C = DOMAIN B \ {b} /\ C[a].order = k + 1
  /\ \A c \in DOMAIN B \ {a, b} : C[c].order = B[c].order

(* Two halves merged. *)
LEMMA MergeTiling ==
  ASSUME NEW B \in Blocks, Tiling(B), NEW C \in Blocks, NEW k \in 0 .. P - 1,
         NEW a \in DOMAIN B, NEW b \in DOMAIN B, Joint(C, B, a, b, k)
  PROVE  Tiling(C)
<1> USE DEF Joint
<1>1. k \in 0 .. P + 1 /\ k + 1 \in 1 .. P + 1 /\ k + 1 \in 0 .. P /\ (k + 1) - 1 = k
  BY POrder
<1>2. PICK m \in Nat : m = Power[k] /\ m > 0 /\ Power[k + 1] = m + m
  BY <1>1, PowerIs
<1>3. a \in Nat /\ b \in Nat /\ b = a + m
  BY <1>2, BlockAt
<1>4. EndOf(B, a) = b /\ EndOf(B, b) = b + m /\ EndOf(C, a) = b + m
  BY <1>2, <1>3 DEF EndOf
<1>5. \A c \in DOMAIN B \ {a, b} : EndOf(C, c) = EndOf(B, c)
  BY DEF EndOf
<1>6. a \in DOMAIN C
  BY <1>2, <1>3
<1>7. \A c \in DOMAIN C : Multiple(c, C[c].order)
  <2> SUFFICES ASSUME NEW c \in DOMAIN C PROVE Multiple(c, C[c].order)
    OBVIOUS
  <2>1. CASE c = a
    BY <2>1
  <2>2. CASE c \in DOMAIN B \ {a, b}
    BY <2>2 DEF Tiling
  <2> QED BY <2>1, <2>2
<1>8. ASSUME NEW c \in DOMAIN C, NEW d \in DOMAIN C, c < d PROVE EndOf(C, c) <= d
  <2>1. c \in Nat /\ d \in Nat
    BY BlockAt
  <2>2. CASE c = a
    <3>1. b <= d
      BY <1>4, <1>8, <2>2 DEF Tiling
    <3>2. b < d
      BY <1>3, <2>1, <3>1
    <3>3. b + m <= d
      BY <1>4, <3>2 DEF Tiling
    <3> QED BY <1>4, <2>2, <3>3
  <2>3. CASE c \in DOMAIN B \ {a, b}
    BY <1>5, <1>8, <2>3 DEF Tiling
  <2> QED BY <2>2, <2>3
<1>9. ASSUME NEW c \in DOMAIN C, NEW x \in Nat, PageOf(x) = PageOf(c) PROVE PagesCovered(C, x)
  <2>1. PICK e \in DOMAIN B : e <= x /\ x < EndOf(B, e)
    BY <1>9 DEF Tiling, PagesCovered
  <2>2. CASE e \in DOMAIN B \ {a, b}
    BY <1>5, <2>1, <2>2 DEF PagesCovered
  <2>3. CASE e \in {a, b}
    <3>1. a <= x /\ x < EndOf(C, a)
      BY <1>2, <1>3, <1>4, <2>1, <2>3
    <3> QED BY <1>6, <3>1 DEF PagesCovered
  <2> QED BY <2>2, <2>3
<1> QED BY <1>7, <1>8, <1>9 DEF Tiling

(* A page from the kernel (malloc.c:90-97). *)
LEMMA PageTiling ==
  ASSUME NEW B \in Blocks, Tiling(B), NEW p \in Nat, \A a \in DOMAIN B : PageOf(a) # p,
         NEW s, s = p * PageUnits, NEW C \in Blocks,
         DOMAIN C = DOMAIN B \cup {s}, C[s].order = P,
         \A c \in DOMAIN B : C[c].order = B[c].order
  PROVE  Tiling(C) /\ PageOf(s) = p /\ s \notin DOMAIN B
<1>1. P \in 0 .. P /\ P \in 0 .. P + 1
  BY POrder
<1>2. PICK u \in Nat : u = PageUnits /\ u > 0 /\ u = Power[P]
  BY <1>1, PowerIs DEF PageUnits
<1>3. s \in Nat /\ Multiple(s, P) /\ s = p * u
  BY <1>2, Times DEF Multiple
<1>4. \A x \in Nat : (s <= x /\ x < s + u) <=> PageOf(x) = p
  <2> SUFFICES ASSUME NEW x \in Nat PROVE (s <= x /\ x < s + u) <=> PageOf(x) = p
    OBVIOUS
  <2> QED BY <1>2, <1>3, Divide DEF PageOf
<1>5. PageOf(s) = p
  BY <1>2, <1>3, <1>4
<1>6. s \notin DOMAIN B
  BY <1>5
<1>7. EndOf(C, s) = s + u /\ \A c \in DOMAIN B : EndOf(C, c) = EndOf(B, c)
  BY <1>2 DEF EndOf
<1>8. \A c \in DOMAIN C : Multiple(c, C[c].order)
  <2> SUFFICES ASSUME NEW c \in DOMAIN C PROVE Multiple(c, C[c].order)
    OBVIOUS
  <2>1. CASE c = s
    BY <1>3, <2>1
  <2>2. CASE c \in DOMAIN B
    BY <2>2 DEF Tiling
  <2> QED BY <2>1, <2>2
<1>9. ASSUME NEW c \in DOMAIN C, NEW d \in DOMAIN C, c < d PROVE EndOf(C, c) <= d
  <2>1. c \in Nat /\ d \in Nat
    BY BlockAt
  <2>2. CASE c = s
    <3>1. d \in DOMAIN B
      BY <2>1, <2>2, <1>9
    <3>2. PageOf(d) # p
      BY <3>1
    <3> QED BY <1>2, <1>3, <1>4, <1>7, <1>9, <2>1, <2>2, <3>2
  <2>3. CASE d = s /\ c # s
    <3>1. c \in DOMAIN B
      BY <2>3
    <3>2. EndOf(B, c) \in Nat /\ B[c].order \in 0 .. P /\ Multiple(c, B[c].order)
      BY <3>1, BlockAt DEF Tiling
    <3>3. ~(s < EndOf(B, c))
      <4> SUFFICES ASSUME s < EndOf(B, c) PROVE FALSE
        OBVIOUS
      <4>1. c <= s /\ s < c + Power[B[c].order]
        BY <1>9, <2>1, <2>3, <1>3 DEF EndOf
      <4>2. PageOf(s) = PageOf(c)
        BY <1>3, <3>2, <4>1, OnePage
      <4> QED BY <1>5, <3>1, <4>2
    <3> QED BY <1>3, <1>7, <2>3, <3>1, <3>2, <3>3
  <2>4. CASE c \in DOMAIN B /\ d \in DOMAIN B
    BY <1>7, <1>9, <2>4 DEF Tiling
  <2> QED BY <2>2, <2>3, <2>4
<1>10. ASSUME NEW c \in DOMAIN C, NEW x \in Nat, PageOf(x) = PageOf(c) PROVE PagesCovered(C, x)
  <2>1. CASE c = s
    <3>1. s <= x /\ x < s + u
      BY <1>4, <1>5, <1>10, <2>1
    <3> QED BY <1>7, <2>1, <3>1 DEF PagesCovered
  <2>2. CASE c \in DOMAIN B
    <3>1. PICK e \in DOMAIN B : e <= x /\ x < EndOf(B, e)
      BY <1>10, <2>2 DEF Tiling, PagesCovered
    <3> QED BY <1>7, <3>1 DEF PagesCovered
  <2> QED BY <2>1, <2>2
<1> QED BY <1>5, <1>6, <1>8, <1>9, <1>10 DEF Tiling

(* Inside a page, a block starts where the buddy of a block is: what free   *)
(* reads there is a header (malloc.c:127).                                 *)
LEMMA BuddyStarts ==
  ASSUME NEW B \in Blocks, Tiling(B), NEW a \in DOMAIN B, B[a].order # P
  PROVE  Buddy(a, B[a].order) \in DOMAIN B
<1> DEFINE k == B[a].order
           b == Buddy(a, k)
<1>1. k \in 0 .. P /\ k \in 0 .. P + 1 /\ k + 1 \in 0 .. P /\ k + 1 \in 1 .. P + 1
      /\ k + 1 \in 0 .. P + 1 /\ (k + 1) - 1 = k /\ a \in Nat
  BY BlockAt, POrder
<1>2. PICK m \in Nat : m = Power[k] /\ m > 0 /\ Power[k + 1] = m + m
  BY <1>1, PowerIs
<1>3. Multiple(a, k)
  BY DEF Tiling
<1>4. Multiple(b, k) /\ b \in Nat
  BY <1>1, <1>3, BuddyIs
<1>5. PICK low \in Nat : Multiple(low, k + 1) /\ ((low = a /\ b = a + m) \/ (low = b /\ a = b + m))
  BY <1>1, <1>2, <1>3, BuddyIs
<1> HIDE DEF b, k
<1>6. low <= a /\ a < low + (m + m) /\ low <= b /\ b < low + (m + m)
  BY <1>1, <1>2, <1>4, <1>5
<1>7. PageOf(b) = PageOf(a)
  <2>1. PageOf(a) = PageOf(low) /\ PageOf(b) = PageOf(low)
    BY <1>1, <1>2, <1>4, <1>5, <1>6, OnePage
  <2> QED BY <2>1
<1>8. PICK c \in DOMAIN B : c <= b /\ b < EndOf(B, c)
  BY <1>4, <1>7 DEF Tiling, PagesCovered
<1> DEFINE j == B[c].order
<1>9. c \in Nat /\ j \in 0 .. P + 1 /\ Power[j] \in Nat /\ EndOf(B, c) = c + Power[j]
      /\ Multiple(c, j)
  BY BlockAt DEF Tiling, EndOf
<1> HIDE DEF j
<1>10. CASE j <= k
  <2>1. Multiple(b, j)
    BY <1>1, <1>4, <1>9, <1>10, MultipleDown
  <2>2. c < b => EndOf(B, c) <= b
    BY <1>9, <2>1, MultipleGap
  <2>3. c = b
    BY <1>4, <1>8, <1>9, <2>2
  <2> QED BY <2>3 DEF b, k
<1>11. CASE ~(j <= k)
  <2>1. k + 1 <= j
    BY <1>1, <1>9, <1>11
  <2>2. Multiple(c, k + 1)
    BY <1>1, <1>9, <2>1, MultipleDown
  <2>3. Multiple(c + Power[j], j)
    BY <1>9, NextMultiple
  <2>4. Multiple(c + Power[j], k + 1)
    BY <1>1, <1>9, <2>1, <2>3, MultipleDown
  <2>5. ~(low < c)
    <3>1. low < c => low + (m + m) <= c
      BY <1>1, <1>2, <1>5, <2>2, MultipleGap
    <3> QED BY <1>4, <1>5, <1>6, <1>8, <1>9, <3>1
  <2>6. low + (m + m) <= EndOf(B, c)
    <3>1. low < EndOf(B, c) => low + (m + m) <= EndOf(B, c)
      BY <1>1, <1>2, <1>5, <1>9, <2>4, MultipleGap
    <3> QED BY <1>4, <1>5, <1>6, <1>8, <1>9, <3>1
  <2>7. c <= a /\ a < EndOf(B, c)
    BY <1>1, <1>2, <1>5, <1>6, <1>9, <2>5, <2>6
  <2>8. a = c
    BY <2>7, Between
  <2>9. j = k
    BY <2>8 DEF j, k
  <2> QED BY <1>1, <1>11, <2>9
<1> QED BY <1>10, <1>11

-----------------------------------------------------------------------------
(* Headers and lists                                                       *)

\* The lists have the free blocks, each once.
Lists(fr, B) ==
  \A k \in Order :
    /\ IsInjective(fr[k])
    /\ Range(fr[k]) = {a \in DOMAIN B : B[a] = FreeBlock(k)}

Heaps == [blocks : Blocks, free : [Order -> Seq(Nat)]]
Good(h) == h \in Heaps /\ Tiling(h.blocks) /\ Lists(h.free, h.blocks)

\* C is B with the block b at a.
Puts(C, B, a, b) ==
  /\ C \in Blocks /\ DOMAIN C = DOMAIN B \cup {a} /\ C[a] = b
  /\ \A c \in DOMAIN B \ {a} : C[c] = B[c]

(* The header of a free block. *)
LEMMA FreeBlockIs ==
  ASSUME NEW k \in Order
  PROVE  /\ FreeBlock(k) \in Block /\ FreeBlock(k).order = k /\ FreeBlock(k).free
         /\ \A j \in Order : FreeBlock(j) = FreeBlock(k) => j = k
<1>1. Power[k] \in Nat
  BY PowerIs, POrder DEF Order
<1> QED BY <1>1 DEF Block, FreeBlock

(* Writing a header. *)
LEMMA PutBlockIs ==
  ASSUME NEW h \in Heaps, NEW a \in Nat, NEW b \in Block
  PROVE  LET g == PutBlock(h, a, b)
         IN  g \in Heaps /\ Puts(g.blocks, h.blocks, a, b) /\ g.free = h.free
<1> DEFINE C == [x \in DOMAIN h.blocks \cup {a} |-> IF x = a THEN b ELSE h.blocks[x]]
           g == PutBlock(h, a, b)
<1>1. h.blocks \in Blocks /\ h.free \in [Order -> Seq(Nat)]
  BY DEF Heaps
<1>2. \A x \in DOMAIN h.blocks : x \in Nat /\ h.blocks[x] \in Block
  BY <1>1, BlockAt
<1>3. C \in [DOMAIN h.blocks \cup {a} -> Block]
  BY <1>2
<1>4. DOMAIN h.blocks \cup {a} \in SUBSET Nat
  BY <1>2
<1>5. C \in Blocks
  <2> HIDE DEF C
  <2> QED BY <1>3, <1>4 DEF Blocks
<1>6. Puts(C, h.blocks, a, b)
  BY <1>5 DEF Puts
<1>7. g = [h EXCEPT !.blocks = C]
  BY DEF PutBlock
<1>8. g.blocks = C /\ g.free = h.free /\ g \in Heaps
  <2> HIDE DEF C
  <2> QED BY <1>1, <1>5, <1>7 DEF Heaps
<1> QED BY <1>6, <1>8

(* A block joins a list (malloc.c:65-73). *)
LEMMA Link ==
  ASSUME NEW fr \in [Order -> Seq(Nat)], NEW B \in Blocks, Lists(fr, B),
         NEW a \in Nat, a \in DOMAIN B => ~B[a].free, NEW k \in Order,
         NEW C, Puts(C, B, a, FreeBlock(k))
  PROVE  /\ [fr EXCEPT ![k] = <<a>> \o @] \in [Order -> Seq(Nat)]
         /\ Lists([fr EXCEPT ![k] = <<a>> \o @], C)
<1> DEFINE fn == [fr EXCEPT ![k] = <<a>> \o @]
<1>1. fr[k] \in Seq(Nat) /\ IsInjective(fr[k])
  BY DEF Lists
<1>2. a \notin Range(fr[k]) /\ \A j \in Order : a \notin {c \in DOMAIN B : B[c] = FreeBlock(j)}
  BY FreeBlockIs DEF Lists
<1>3. /\ <<a>> \o fr[k] \in Seq(Nat) /\ IsInjective(<<a>> \o fr[k])
      /\ Range(<<a>> \o fr[k]) = {a} \cup Range(fr[k])
  BY <1>1, <1>2, PrependDistinct
<1>4. /\ fn \in [Order -> Seq(Nat)] /\ fn[k] = <<a>> \o fr[k]
      /\ \A j \in Order \ {k} : fn[j] = fr[j]
  BY <1>3
<1>5. \A j \in Order : IsInjective(fn[j])
  BY <1>3, <1>4 DEF Lists
<1>6. ASSUME NEW j \in Order PROVE Range(fn[j]) = {c \in DOMAIN C : C[c] = FreeBlock(j)}
  <2>1. CASE j = k
    <3>1. Range(fn[j]) = {a} \cup {c \in DOMAIN B : B[c] = FreeBlock(k)}
      BY <1>3, <1>4, <2>1 DEF Lists
    <3> QED BY <1>2, <2>1, <3>1 DEF Puts
  <2>2. CASE j # k
    <3>1. Range(fn[j]) = {c \in DOMAIN B : B[c] = FreeBlock(j)}
      BY <1>4, <2>2 DEF Lists
    <3>2. C[a] # FreeBlock(j)
      BY <2>2, FreeBlockIs DEF Puts
    <3> QED BY <1>2, <3>1, <3>2 DEF Puts
  <2> QED BY <2>1, <2>2
<1> HIDE DEF fn
<1>7. Lists(fn, C)
  BY <1>5, <1>6 DEF Lists
<1> QED BY <1>4, <1>7 DEF fn

(* A block leaves its list. *)
Drops(C, B, a, k) ==
  /\ a \in DOMAIN B /\ B[a] = FreeBlock(k)
  /\ DOMAIN C \cup {a} = DOMAIN B /\ (a \in DOMAIN C => ~C[a].free)
  /\ \A c \in DOMAIN B \ {a} : C[c] = B[c]

Shrinks(s, t, a) == s \in Seq(Nat) /\ IsInjective(s) /\ Range(s) = Range(t) \ {a}

(* A block taken from its list. *)
LEMMA Unlink ==
  ASSUME NEW fr \in [Order -> Seq(Nat)], NEW B, Lists(fr, B), NEW k \in Order,
         NEW C, NEW a, Drops(C, B, a, k), NEW s, Shrinks(s, fr[k], a)
  PROVE  /\ [fr EXCEPT ![k] = s] \in [Order -> Seq(Nat)]
         /\ Lists([fr EXCEPT ![k] = s], C)
<1> USE DEF Drops, Shrinks
<1> DEFINE fn == [fr EXCEPT ![k] = s]
<1>1. /\ fn \in [Order -> Seq(Nat)] /\ fn[k] = s
      /\ \A j \in Order \ {k} : fn[j] = fr[j]
  OBVIOUS
<1>2. \A j \in Order : ~(a \in DOMAIN C /\ C[a] = FreeBlock(j))
  BY FreeBlockIs
<1>3. \A j \in Order : IsInjective(fn[j])
  BY <1>1 DEF Lists
<1>4. ASSUME NEW j \in Order PROVE Range(fn[j]) = {c \in DOMAIN C : C[c] = FreeBlock(j)}
  <2>1. CASE j = k
    <3>1. Range(fn[j]) = {c \in DOMAIN B : B[c] = FreeBlock(k)} \ {a}
      BY <1>1, <2>1 DEF Lists
    <3> QED BY <1>2, <2>1, <3>1
  <2>2. CASE j # k
    <3>1. Range(fn[j]) = {c \in DOMAIN B : B[c] = FreeBlock(j)}
      BY <1>1, <2>2 DEF Lists
    <3>2. B[a] # FreeBlock(j)
      BY <2>2, FreeBlockIs
    <3> QED BY <1>2, <3>1, <3>2
  <2> QED BY <2>1, <2>2
<1> HIDE DEF fn
<1>5. Lists(fn, C)
  BY <1>3, <1>4 DEF Lists
<1> QED BY <1>1, <1>5 DEF fn

(* The first block of a list. *)
LEMMA FirstFree ==
  ASSUME NEW h, Good(h), NEW k \in Order, h.free[k] # <<>>
  PROVE  LET a == Head(h.free[k])
         IN  /\ a \in Nat /\ a \in DOMAIN h.blocks /\ h.blocks[a] = FreeBlock(k)
             /\ Tail(h.free[k]) \in Seq(Nat) /\ IsInjective(Tail(h.free[k]))
             /\ Range(Tail(h.free[k])) = Range(h.free[k]) \ {a}
<1>1. h.free[k] \in Seq(Nat) /\ IsInjective(h.free[k])
  BY DEF Good, Lists, Heaps
<1>2. /\ Tail(h.free[k]) \in Seq(Nat) /\ IsInjective(Tail(h.free[k]))
      /\ Range(Tail(h.free[k])) = Range(h.free[k]) \ {Head(h.free[k])}
  BY <1>1, TailDistinct
<1>3. Head(h.free[k]) \in Nat /\ Head(h.free[k]) \in Range(h.free[k])
  BY <1>1 DEF Range
<1>4. Range(h.free[k]) = {a \in DOMAIN h.blocks : h.blocks[a] = FreeBlock(k)}
  BY DEF Good, Lists
<1> QED BY <1>2, <1>3, <1>4

-----------------------------------------------------------------------------
(* The operations                                                          *)

(* insert, of a block in use or of a new page. *)
LEMMA InsertFreeIs ==
  ASSUME NEW h \in Heaps, Lists(h.free, h.blocks), NEW k \in Order, NEW a \in Nat,
         a \in DOMAIN h.blocks => ~h.blocks[a].free
  PROVE  LET g == InsertFree(h, k, a)
         IN  /\ g \in Heaps /\ Puts(g.blocks, h.blocks, a, FreeBlock(k))
             /\ Lists(g.free, g.blocks) /\ g.free[k] # <<>>
             /\ \A j \in Order \ {k} : g.free[j] = h.free[j]
<1> DEFINE q == PutBlock(h, a, FreeBlock(k))
           g == InsertFree(h, k, a)
<1>1. h.blocks \in Blocks /\ h.free \in [Order -> Seq(Nat)]
  BY DEF Heaps
<1>2. q \in Heaps /\ Puts(q.blocks, h.blocks, a, FreeBlock(k)) /\ q.free = h.free
  BY FreeBlockIs, PutBlockIs
<1>3. g = [q EXCEPT !.free[k] = <<a>> \o @]
  BY DEF InsertFree
<1> HIDE DEF q
<1>4. /\ g.blocks = q.blocks /\ g.free = [h.free EXCEPT ![k] = <<a>> \o @]
      /\ g = [blocks |-> g.blocks, free |-> g.free]
  BY <1>2, <1>3 DEF Heaps
<1> DEFINE fn == [h.free EXCEPT ![k] = <<a>> \o @]
<1>5. g.free \in [Order -> Seq(Nat)] /\ Lists(g.free, q.blocks)
  <2>1. fn \in [Order -> Seq(Nat)] /\ Lists(fn, q.blocks)
    BY <1>1, <1>2, Link
  <2>2. g.free = fn
    BY <1>4
  <2> HIDE DEF fn
  <2> QED BY <2>1, <2>2
<1>6. q.blocks \in Blocks
  BY <1>2 DEF Heaps
<1>7. g \in Heaps
  <2> HIDE DEF g
  <2> QED BY <1>4, <1>5, <1>6 DEF Heaps
<1>8. g.free[k] = <<a>> \o h.free[k] /\ \A j \in Order \ {k} : g.free[j] = h.free[j]
  BY <1>1, <1>4
<1>9. g.free[k] # <<>>
  <2>1. h.free[k] \in Seq(Nat)
    BY <1>1
  <2> QED BY <1>8, <2>1
<1> QED BY <1>2, <1>4, <1>5, <1>7, <1>8, <1>9

(* Two blocks put in front of a list. *)
LEMMA TwoInFront ==
  ASSUME NEW a \in Nat, NEW b \in Nat, NEW s \in Seq(Nat)
  PROVE  <<a>> \o (<<b>> \o s) = <<a, b>> \o s /\ <<a, b>> \o s # <<>>
<1>1. <<a>> \in Seq(Nat) /\ <<b>> \in Seq(Nat) /\ <<a>> \o <<b>> = <<a, b>>
  <2>1. PICK x, y : x = <<a>> \o <<b>> /\ y = <<a, b>>
    OBVIOUS
  <2>2. <<a>> \in Seq(Nat) /\ <<b>> \in Seq(Nat)
    OBVIOUS
  <2>3. x \in Seq(Nat) /\ Len(x) = 2 /\ x[1] = a /\ x[2] = b
    BY <2>1
  <2>4. y \in Seq(Nat) /\ Len(y) = 2 /\ y[1] = a /\ y[2] = b
    BY <2>1
  <2>5. \A i \in 1 .. Len(x) : x[i] = y[i]
    BY <2>3, <2>4
  <2>6. x = y
    BY <2>3, <2>4, <2>5, SameList
  <2> QED BY <2>1, <2>2, <2>6
<1>2. (<<a>> \o <<b>>) \o s = <<a>> \o (<<b>> \o s)
  BY <1>1, ConcatThree DEF Assoc
<1>3. Len(<<a, b>> \o s) = 2 + Len(s) /\ Len(s) \in Nat
  OBVIOUS
<1>4. <<a, b>> \o s # <<>>
  BY <1>3
<1> QED BY <1>1, <1>2, <1>4

(* split. *)
LEMMA SplitIs ==
  ASSUME NEW h, Good(h), NEW k \in 1 .. P, h.free[k] # <<>>
  PROVE  LET g == Split(h, k)
         IN  /\ Good(g) /\ g.free[k - 1] # <<>>
             /\ {PageOf(c) : c \in DOMAIN g.blocks} = {PageOf(c) : c \in DOMAIN h.blocks}
<1> DEFINE a == Head(h.free[k])
           b == a + Power[k - 1]
           g == Split(h, k)
           h1 == PutBlock(h, a, FreeBlock(k - 1))
           h2 == PutBlock(h1, b, FreeBlock(k - 1))
<1>1. k \in Order /\ k - 1 \in Order /\ k - 1 \in 0 .. P + 1 /\ k # k - 1
  BY POrder DEF Order
<1>2. h \in Heaps /\ h.blocks \in Blocks /\ h.free \in [Order -> Seq(Nat)]
      /\ Tiling(h.blocks) /\ Lists(h.free, h.blocks)
  BY DEF Good, Heaps
<1>3. /\ a \in Nat /\ a \in DOMAIN h.blocks /\ h.blocks[a] = FreeBlock(k)
      /\ Tail(h.free[k]) \in Seq(Nat) /\ IsInjective(Tail(h.free[k]))
      /\ Range(Tail(h.free[k])) = Range(h.free[k]) \ {a}
  BY <1>1, FirstFree
<1>4. b \in Nat /\ Power[k - 1] \in Nat /\ Power[k - 1] > 0
  BY <1>1, <1>3, PowerIs
<1> HIDE DEF a
<1>5. h1 \in Heaps /\ Puts(h1.blocks, h.blocks, a, FreeBlock(k - 1)) /\ h1.free = h.free
  BY <1>1, <1>2, <1>3, FreeBlockIs, PutBlockIs
<1> HIDE DEF h1, b
<1>6. h2 \in Heaps /\ Puts(h2.blocks, h1.blocks, b, FreeBlock(k - 1)) /\ h2.free = h.free
  BY <1>1, <1>4, <1>5, FreeBlockIs, PutBlockIs
<1>7. g = [h2 EXCEPT !.free[k] = Tail(@), !.free[k - 1] = <<a, b>> \o @]
  BY DEF Split, a, b, h1
<1> HIDE DEF h2
<1> DEFINE f1 == [h.free EXCEPT ![k] = Tail(h.free[k])]
           f2 == [f1 EXCEPT ![k - 1] = <<b>> \o @]
           f3 == [f2 EXCEPT ![k - 1] = <<a>> \o @]
           B1 == [c \in DOMAIN h.blocks \ {a} |-> h.blocks[c]]
           B2 == [c \in (DOMAIN h.blocks \ {a}) \cup {b} |->
                    IF c = b THEN FreeBlock(k - 1) ELSE h.blocks[c]]
<1>8. a # b
  BY <1>3, <1>4 DEF b
<1>9. /\ h2.blocks \in Blocks /\ DOMAIN h2.blocks = DOMAIN h.blocks \cup {b}
      /\ h2.blocks[a] = FreeBlock(k - 1) /\ h2.blocks[b] = FreeBlock(k - 1)
      /\ \A c \in DOMAIN h.blocks \ {a, b} : h2.blocks[c] = h.blocks[c]
  BY <1>3, <1>5, <1>6, <1>8 DEF Puts
<1>10. Tiling(h2.blocks) /\ b \notin DOMAIN h.blocks
  <2>0. FreeBlock(k).order = k /\ FreeBlock(k - 1).order = k - 1
    BY <1>1, FreeBlockIs
  <2>1. h.blocks[a].order = k /\ h2.blocks[a].order = k - 1 /\ h2.blocks[b].order = k - 1
    BY <1>3, <1>9, <2>0
  <2>2. b \in DOMAIN h.blocks \/ b \notin DOMAIN h.blocks
    OBVIOUS
  <2>3. b \notin DOMAIN h.blocks
    <3> SUFFICES ASSUME b \in DOMAIN h.blocks PROVE FALSE
      OBVIOUS
    <3>1. Power[k] = Power[k - 1] + Power[k - 1]
      BY PowerIs, POrder
    <3>2. EndOf(h.blocks, a) = a + (Power[k - 1] + Power[k - 1])
      BY <2>1, <3>1 DEF EndOf
    <3>3. a <= b /\ b < EndOf(h.blocks, a)
      BY <1>3, <1>4, <3>2 DEF b
    <3> QED BY <1>2, <1>3, <1>8, <3>3, Between
  <2>4. \A c \in DOMAIN h.blocks \ {a} : h2.blocks[c].order = h.blocks[c].order
    BY <1>9, <2>3
  <2>5. b = a + Power[k - 1] /\ DOMAIN h2.blocks = DOMAIN h.blocks \cup {b}
    BY <1>9 DEF b
  <2>6. Halved(h2.blocks, h.blocks, a, b, k)
    BY <1>9, <2>1, <2>4, <2>5 DEF Halved
  <2> QED BY <1>2, <1>3, <1>9, <2>3, <2>6, SplitTiling
<1>11. B1 \in Blocks /\ B2 \in Blocks
  <2>1. \A x \in DOMAIN h.blocks : x \in Nat /\ h.blocks[x] \in Block
    BY <1>2, BlockAt
  <2>2. B1 \in [DOMAIN h.blocks \ {a} -> Block] /\ DOMAIN h.blocks \ {a} \in SUBSET Nat
    BY <2>1
  <2>3. /\ B2 \in [(DOMAIN h.blocks \ {a}) \cup {b} -> Block]
        /\ (DOMAIN h.blocks \ {a}) \cup {b} \in SUBSET Nat
    BY <1>1, <1>4, <2>1, FreeBlockIs
  <2> HIDE DEF B1, B2
  <2> QED BY <2>2, <2>3 DEF Blocks
<1>12. f1 \in [Order -> Seq(Nat)] /\ Lists(f1, B1)
  <2>1. DOMAIN B1 \cup {a} = DOMAIN h.blocks /\ a \notin DOMAIN B1
        /\ \A c \in DOMAIN h.blocks \ {a} : B1[c] = h.blocks[c]
    BY <1>3
  <2>2. PICK s \in Seq(Nat) : s = Tail(h.free[k])
    BY <1>3
  <2> HIDE DEF B1
  <2>3. Drops(B1, h.blocks, a, k) /\ Shrinks(s, h.free[k], a)
    BY <1>3, <2>1, <2>2 DEF Drops, Shrinks
  <2>4. [h.free EXCEPT ![k] = s] \in [Order -> Seq(Nat)] /\ Lists([h.free EXCEPT ![k] = s], B1)
    BY <1>1, <1>2, <2>3, Unlink
  <2> QED BY <2>2, <2>4
<1>13. f2 \in [Order -> Seq(Nat)] /\ Lists(f2, B2)
  <2>1. b \notin DOMAIN B1 /\ Puts(B2, B1, b, FreeBlock(k - 1))
    <3>1. /\ b \notin DOMAIN B1 /\ DOMAIN B2 = DOMAIN B1 \cup {b} /\ B2[b] = FreeBlock(k - 1)
          /\ \A c \in DOMAIN B1 \ {b} : B2[c] = B1[c]
      BY <1>10
    <3> HIDE DEF B1, B2
    <3> QED BY <1>11, <3>1 DEF Puts
  <2> HIDE DEF f1, B1, B2
  <2> QED BY <1>1, <1>4, <1>11, <1>12, <2>1, Link
<1>14. f3 \in [Order -> Seq(Nat)] /\ Lists(f3, h2.blocks)
  <2>1. a \notin DOMAIN B2 /\ Puts(h2.blocks, B2, a, FreeBlock(k - 1))
    <3>1. /\ a \notin DOMAIN B2 /\ DOMAIN h2.blocks = DOMAIN B2 \cup {a}
          /\ \A c \in DOMAIN B2 \ {a} : h2.blocks[c] = B2[c]
      BY <1>3, <1>8, <1>9, <1>10
    <3> HIDE DEF B2
    <3> QED BY <1>9, <3>1 DEF Puts
  <2> HIDE DEF f1, f2, B1, B2
  <2> QED BY <1>1, <1>3, <1>11, <1>13, <2>1, Link
<1>15. f3[k - 1] = <<a, b>> \o h.free[k - 1] /\ f3[k - 1] # <<>>
  <2>1. f3[k - 1] = <<a>> \o (<<b>> \o h.free[k - 1])
    BY <1>1, <1>2
  <2>2. PICK s \in Seq(Nat) : s = h.free[k - 1]
    BY <1>1, <1>2
  <2>3. <<a>> \o (<<b>> \o s) = <<a, b>> \o s /\ <<a, b>> \o s # <<>>
    BY <1>3, <1>4, TwoInFront
  <2> QED BY <2>1, <2>2, <2>3
<1>16. [h.free EXCEPT ![k] = Tail(@), ![k - 1] = <<a, b>> \o @] = f3
  BY <1>1, <1>2, <1>15
<1>17. /\ g.blocks = h2.blocks /\ g.free = f3
       /\ g = [blocks |-> g.blocks, free |-> g.free]
  <2>1. /\ g.blocks = h2.blocks
        /\ g.free = [h.free EXCEPT ![k] = Tail(@), ![k - 1] = <<a, b>> \o @]
        /\ g = [blocks |-> g.blocks, free |-> g.free]
    BY <1>6, <1>7 DEF Heaps
  <2> HIDE DEF f3, g
  <2> QED BY <1>16, <2>1
<1>18. Good(g)
  <2> HIDE DEF f3, g
  <2>1. g \in Heaps
    BY <1>9, <1>14, <1>17 DEF Heaps
  <2> QED BY <1>10, <1>14, <1>17, <2>1 DEF Good
<1>19. PageOf(b) = PageOf(a)
  <2>1. Multiple(a, k)
    BY <1>1, <1>2, <1>3, FreeBlockIs DEF Tiling
  <2>2. Power[k] = Power[k - 1] + Power[k - 1] /\ k \in 0 .. P
    BY PowerIs, POrder
  <2>3. a <= b /\ b < a + Power[k]
    BY <1>3, <1>4, <2>2 DEF b
  <2> QED BY <1>4, <2>1, <2>2, <2>3, OnePage
<1>20. {PageOf(c) : c \in DOMAIN g.blocks} = {PageOf(c) : c \in DOMAIN h.blocks}
  <2> HIDE DEF f3, g
  <2> QED BY <1>3, <1>9, <1>17, <1>19
<1> QED BY <1>15, <1>17, <1>18, <1>20

(* The smaller of two numbers. *)
LEMMA Pair ==
  ASSUME NEW a \in Nat, NEW b \in Nat
  PROVE  Min({a, b}) = IF a <= b THEN a ELSE b
<1>1. {a, b} \in SUBSET Nat /\ {a, b} # {}
  OBVIOUS
<1>2. Min({a, b}) \in {a, b} /\ \A i \in {a, b} : Min({a, b}) <= i
  BY <1>1, MinMember
<1> QED BY <1>2

\* The pages with blocks.
PagesOf(B) == {PageOf(c) : c \in DOMAIN B}

(* A free block and its buddy, which is given back, become one.  The buddy is *)
(* on the list its header names.                                            *)
LEMMA MergeIs ==
  ASSUME NEW h, Good(h), NEW a \in DOMAIN h.blocks, ~h.blocks[a].free,
         NEW k \in 0 .. P - 1, h.blocks[a].order = k,
         NEW b \in DOMAIN h.blocks, b = Buddy(a, k), h.blocks[b] = FreeBlock(k)
  PROVE  Good(Merge(h, a, b, k)) /\ PagesOf(Merge(h, a, b, k).blocks) = PagesOf(h.blocks)
<1> DEFINE B == h.blocks
           B0 == [c \in DOMAIN B \ {b} |-> B[c]]
           B1 == [c \in DOMAIN B \ {a, b} |-> B[c]]
           s == RemoveFirst(h.free[k], b)
           f1 == [h.free EXCEPT ![k] = s]
           rest == [h EXCEPT !.blocks = B1, !.free[k] = s]
           low == Min({a, b})
           g == Merge(h, a, b, k)
<1>1. k \in Order /\ k + 1 \in Order /\ k \in 0 .. P /\ k \in 0 .. P + 1 /\ k + 1 \in 0 .. P
  BY POrder DEF Order
<1>2. h \in Heaps /\ B \in Blocks /\ h.free \in [Order -> Seq(Nat)] /\ Tiling(B)
      /\ Lists(h.free, B)
  BY DEF Good, Heaps
<1>3. a \in Nat /\ b \in Nat /\ a # b
  BY <1>1, <1>2, BlockAt, FreeBlockIs
<1>4. PICK m \in Nat : m = Power[k] /\ m > 0
  BY <1>1, PowerIs
<1>5. Multiple(a, k)
  BY <1>2 DEF Tiling
<1>6. \/ Multiple(a, k + 1) /\ b = a + m
      \/ Multiple(b, k + 1) /\ a = b + m
  BY <1>1, <1>4, <1>5, BuddyIs
<1>7. PICK high \in {a, b} : /\ low \in {a, b} /\ high # low /\ low \in Nat
                              /\ Multiple(low, k + 1) /\ high = low + m
  <2>1. low = IF a <= b THEN a ELSE b
    BY <1>3, Pair
  <2> HIDE DEF low
  <2>2. CASE b = a + m /\ Multiple(a, k + 1)
    <3>1. low = a
      BY <1>3, <1>4, <2>1, <2>2
    <3> QED BY <1>3, <2>2, <3>1
  <2>3. CASE a = b + m /\ Multiple(b, k + 1)
    <3>1. low = b
      BY <1>3, <1>4, <2>1, <2>3
    <3> QED BY <1>3, <2>3, <3>1
  <2> QED BY <1>6, <2>2, <2>3
<1>8. g = InsertFree(rest, k + 1, low)
  BY DEF Merge
<1> HIDE DEF low
<1>9. \A x \in DOMAIN B : x \in Nat /\ B[x] \in Block
  BY <1>2, BlockAt
<1>10. B0 \in Blocks /\ B1 \in Blocks
  <2>1. B0 \in [DOMAIN B \ {b} -> Block] /\ DOMAIN B \ {b} \in SUBSET Nat
    BY <1>9
  <2>2. B1 \in [DOMAIN B \ {a, b} -> Block] /\ DOMAIN B \ {a, b} \in SUBSET Nat
    BY <1>9
  <2> HIDE DEF B0, B1
  <2> QED BY <2>1, <2>2 DEF Blocks
<1>11. h.free[k] \in Seq(Nat) /\ IsInjective(h.free[k])
  BY <1>1, <1>2 DEF Lists
<1>12. s \in Seq(Nat) /\ IsInjective(s) /\ Range(s) = Range(h.free[k]) \ {b}
  BY <1>11, RemoveDistinct
<1> HIDE DEF s
<1>13. f1 \in [Order -> Seq(Nat)] /\ Lists(f1, B0)
  <2>1. DOMAIN B0 \cup {b} = DOMAIN B /\ b \notin DOMAIN B0
        /\ \A c \in DOMAIN B \ {b} : B0[c] = B[c]
    BY <1>3
  <2>2. b \in DOMAIN B /\ B[b] = FreeBlock(k)
    OBVIOUS
  <2> HIDE DEF B, B0
  <2>3. Drops(B0, B, b, k) /\ Shrinks(s, h.free[k], b)
    BY <1>12, <2>1, <2>2 DEF Drops, Shrinks
  <2> QED BY <1>1, <1>2, <2>3, Unlink
<1>14. Lists(f1, B1)
  <2>1. \A j \in Order : {c \in DOMAIN B1 : B1[c] = FreeBlock(j)} = {c \in DOMAIN B0 : B0[c] = FreeBlock(j)}
    BY FreeBlockIs
  <2> HIDE DEF f1, B0, B1
  <2> QED BY <1>13, <2>1 DEF Lists
<1>15. rest.blocks = B1 /\ rest.free = f1 /\ rest = [blocks |-> rest.blocks, free |-> rest.free]
  <2> HIDE DEF B, B1
  <2>1. PICK r : r = rest
    OBVIOUS
  <2>2. /\ r.blocks = B1 /\ r.free = [h.free EXCEPT ![k] = s]
        /\ r = [blocks |-> r.blocks, free |-> r.free]
    <3>1. r = [blocks |-> r.blocks, free |-> r.free]
      BY <1>2, <2>1 DEF Heaps
    <3>2. r.blocks = B1
      BY <1>2, <2>1 DEF Heaps
    <3>3. r.free = [h.free EXCEPT ![k] = s]
      BY <1>2, <2>1 DEF Heaps
    <3> QED BY <3>1, <3>2, <3>3
  <2> HIDE DEF rest
  <2> QED BY <2>1, <2>2
<1>16. rest \in Heaps /\ rest.blocks = B1 /\ rest.free = f1
  <2> HIDE DEF rest, B1, f1
  <2> QED BY <1>10, <1>13, <1>15 DEF Heaps
<1> HIDE DEF rest, f1
<1>17. low \notin DOMAIN rest.blocks
  BY <1>7, <1>16
<1>18. /\ g \in Heaps /\ Puts(g.blocks, rest.blocks, low, FreeBlock(k + 1))
       /\ Lists(g.free, g.blocks)
  BY <1>1, <1>7, <1>8, <1>14, <1>16, <1>17, InsertFreeIs
<1> HIDE DEF g
<1>19. /\ g.blocks \in Blocks /\ DOMAIN g.blocks = DOMAIN B \ {high} /\ g.blocks[low] = FreeBlock(k + 1)
       /\ \A c \in DOMAIN B \ {low, high} : g.blocks[c] = B[c]
  <2>1. DOMAIN B1 = DOMAIN B \ {low, high} /\ \A c \in DOMAIN B1 : B1[c] = B[c]
    BY <1>7
  <2>2. low \in DOMAIN B
    BY <1>7
  <2> HIDE DEF B1
  <2>3. /\ g.blocks \in Blocks /\ DOMAIN g.blocks = DOMAIN B1 \cup {low}
        /\ g.blocks[low] = FreeBlock(k + 1)
        /\ \A c \in DOMAIN B1 \ {low} : g.blocks[c] = B1[c]
    BY <1>16, <1>18 DEF Puts
  <2> HIDE DEF B
  <2> QED BY <1>7, <2>1, <2>2, <2>3
<1>20. Joint(g.blocks, B, low, high, k)
  <2>1. FreeBlock(k + 1).order = k + 1 /\ B[low].order = k /\ B[high].order = k
    BY <1>1, <1>7, FreeBlockIs
  <2> HIDE DEF B
  <2> QED BY <1>4, <1>7, <1>19, <2>1 DEF Joint
<1>21. Tiling(g.blocks)
  <2>1. low \in DOMAIN B /\ high \in DOMAIN B
    BY <1>7
  <2> HIDE DEF B
  <2> QED BY <1>2, <1>19, <1>20, <2>1, MergeTiling
<1>22. PageOf(high) = PageOf(low)
  <2>0. k + 1 \in 1 .. P + 1 /\ (k + 1) - 1 = k
    BY <1>1, POrder
  <2>1. Power[k + 1] = m + m
    BY <1>4, <2>0, PowerIs
  <2>2. low <= high /\ high < low + Power[k + 1] /\ high \in Nat
    BY <1>4, <1>7, <2>1
  <2> QED BY <1>1, <1>7, <2>2, OnePage
<1>23. PagesOf(g.blocks) = PagesOf(B)
  <2>1. low \in DOMAIN B /\ high \in DOMAIN B /\ low # high
    BY <1>7
  <2> HIDE DEF B
  <2> QED BY <1>19, <1>22, <2>1 DEF PagesOf
<1> QED BY <1>18, <1>21, <1>23 DEF Good, g

(* The block that is split until it has the right size. *)
LEMMA TakeIs ==
  ASSUME NEW h, Good(h), NEW k \in Order, \E j \in k .. P : h.free[j] # <<>>,
         NEW n \in Nat, n <= Power[k]
  PROVE  Good(Take(h, k, n)) /\ PagesOf(Take(h, k, n).blocks) = PagesOf(h.blocks)
<1> DEFINE S == {j \in k .. P : h.free[j] # <<>>}
           from == Min(S)
           len == from - k
           Body(w) == [d \in 0 .. len |-> IF d = 0 THEN h ELSE Split(w[d - 1], from + 1 - d)]
           c == CHOOSE w : w = Body(w)
           h1 == c[len]
           a == Head(h1.free[k])
           new == [order |-> k, free |-> FALSE, asked |-> n]
           h2 == PutBlock(h1, a, new)
           g == Take(h, k, n)
<1>1. g = [h2 EXCEPT !.free[k] = Tail(@)]
  BY DEF Take
<1>2. k \in 0 .. P /\ P \in Nat /\ k \in 0 .. P + 1
  BY POrder DEF Order
<1>3. from \in k .. P /\ h.free[from] # <<>>
  <2>1. S \in SUBSET Nat /\ S # {}
    BY <1>2
  <2>2. from \in S
    BY <2>1, MinMember
  <2> QED BY <2>2
<1> HIDE DEF from, g
<1>4. len \in Nat /\ \A d \in 0 .. len : from - d \in k .. P /\ from - d \in Order
  BY <1>2, <1>3 DEF Order
<1>5. \A d \in 1 .. len : /\ from + 1 - d \in 1 .. P /\ from + 1 - d = from - (d - 1)
                          /\ (from + 1 - d) - 1 = from - d /\ d - 1 \in 0 .. len /\ d \in 0 .. len /\ d # 0
  BY <1>2, <1>3
<1> HIDE DEF len
<1> DEFINE X == {x \in Heaps : Good(x)}
           Step(d, x) == IF x.free[from + 1 - d] # <<>> THEN Split(x, from + 1 - d) ELSE x
           f == [t \in (1 .. len) \X X |-> Step(t[1], t[2])]
           Ready(d, x) == Good(x) /\ x.free[from - d] # <<>> /\ PagesOf(x.blocks) = PagesOf(h.blocks)
<1>6. ASSUME NEW d \in 1 .. len, NEW x, Ready(d - 1, x)
      PROVE  Step(d, x) = Split(x, from + 1 - d) /\ Ready(d, Split(x, from + 1 - d))
  <2>1. from + 1 - d \in 1 .. P /\ x.free[from + 1 - d] # <<>> /\ Good(x)
        /\ PagesOf(x.blocks) = PagesOf(h.blocks)
    BY <1>5, <1>6
  <2>2. /\ Good(Split(x, from + 1 - d)) /\ Split(x, from + 1 - d).free[(from + 1 - d) - 1] # <<>>
        /\ PagesOf(Split(x, from + 1 - d).blocks) = PagesOf(x.blocks)
    BY <2>1, SplitIs DEF PagesOf
  <2> QED BY <1>5, <2>1, <2>2
<1>7. \A d \in 1 .. len, x \in X : Step(d, x) \in X
  <2> SUFFICES ASSUME NEW d \in 1 .. len, NEW x \in X PROVE Step(d, x) \in X
    OBVIOUS
  <2>1. CASE x.free[from + 1 - d] # <<>>
    <3>1. Good(Split(x, from + 1 - d))
      BY <1>5, <2>1, SplitIs
    <3>2. Split(x, from + 1 - d) \in Heaps
      BY <3>1 DEF Good
    <3> QED BY <2>1, <3>1, <3>2
  <2>2. CASE x.free[from + 1 - d] = <<>>
    BY <2>2
  <2> QED BY <2>1, <2>2
<1> HIDE DEF Step
<1>8. f \in [(1 .. len) \X X -> X] /\ \A d \in 1 .. len, x \in X : f[<<d, x>>] = Step(d, x)
  <2> HIDE DEF X
  <2> QED BY <1>7
<1> HIDE DEF f
<1>9. h \in X /\ Ready(0, h)
  BY <1>2, <1>3 DEF Good
<1>10. PICK w : Iterates(w, f, h, len, X)
  <2> HIDE DEF X
  <2> QED BY <1>4, <1>8, <1>9, Iterate
<1>11. w \in [0 .. len -> X] /\ w[0] = h /\ \A i \in 1 .. len : w[i] = f[<<i, w[i - 1]>>]
  <2> HIDE DEF X
  <2> QED BY <1>10 DEF Iterates
<1>12. \A i \in 1 .. len : w[i] = Step(i, w[i - 1])
  <2> HIDE DEF X
  <2> SUFFICES ASSUME NEW i \in 1 .. len PROVE w[i] = Step(i, w[i - 1])
    OBVIOUS
  <2>1. w[i - 1] \in X
    BY <1>5, <1>11
  <2> QED BY <1>8, <1>11, <2>1
<1> DEFINE T == {i \in 0 .. len : Ready(i, w[i])}
<1> HIDE DEF Ready
<1>13. 0 .. len \subseteq T
  <2>1. 0 \in T
    BY <1>4, <1>9, <1>11
  <2>2. ASSUME NEW i \in 1 .. len, i - 1 \in T PROVE i \in T
    <3>1. Ready(i - 1, w[i - 1])
      BY <2>2
    <3>2. w[i] = Split(w[i - 1], from + 1 - i) /\ Ready(i, w[i])
      BY <1>6, <1>12, <3>1
    <3> QED BY <1>5, <3>2
  <2> HIDE DEF T
  <2> QED BY <1>4, <2>1, <2>2, UpTo
<1>14. \A i \in 0 .. len : w[i] = IF i = 0 THEN h ELSE Split(w[i - 1], from + 1 - i)
  <2> SUFFICES ASSUME NEW i \in 0 .. len, i # 0 PROVE w[i] = Split(w[i - 1], from + 1 - i)
    BY <1>11
  <2>1. i \in 1 .. len /\ i - 1 \in 0 .. len
    BY <1>4
  <2>2. Ready(i - 1, w[i - 1])
    BY <1>13, <2>1
  <2> QED BY <1>6, <1>12, <2>1, <2>2
<1>15. w = Body(w)
  <2>1. w = [i \in 0 .. len |-> w[i]]
    BY <1>11
  <2> QED BY <1>14, <2>1
<1>16. c = Body(c)
  <2> HIDE DEF Body
  <2> QED BY <1>15
<1> HIDE DEF c
<1>17. \A i \in 0 .. len : c[i] = IF i = 0 THEN h ELSE Split(c[i - 1], from + 1 - i)
  <2> DEFINE e(i) == IF i = 0 THEN h ELSE Split(c[i - 1], from + 1 - i)
  <2>1. c = [i \in 0 .. len |-> e(i)]
    BY <1>16
  <2> HIDE DEF e
  <2>2. \A i \in 0 .. len : c[i] = e(i)
    BY <2>1
  <2> QED BY <2>2 DEF e
<1> DEFINE V == {i \in 0 .. len : Ready(i, c[i])}
<1>18. 0 .. len \subseteq V
  <2>1. 0 \in V
    BY <1>4, <1>9, <1>17
  <2>2. ASSUME NEW i \in 1 .. len, i - 1 \in V PROVE i \in V
    <3>1. Ready(i - 1, c[i - 1])
      BY <2>2
    <3>2. c[i] = Split(c[i - 1], from + 1 - i)
      BY <1>5, <1>17
    <3>3. Ready(i, c[i])
      BY <1>6, <3>1, <3>2
    <3> QED BY <1>5, <3>3
  <2> HIDE DEF V
  <2> QED BY <1>4, <2>1, <2>2, UpTo
<1>19. Good(h1) /\ h1.free[k] # <<>> /\ PagesOf(h1.blocks) = PagesOf(h.blocks)
  <2>1. Ready(len, c[len])
    BY <1>4, <1>18
  <2>2. from - len = k
    BY <1>2, <1>3 DEF len
  <2> QED BY <2>1, <2>2 DEF Ready
<1> HIDE DEF h1
<1>20. /\ a \in Nat /\ a \in DOMAIN h1.blocks /\ h1.blocks[a] = FreeBlock(k)
       /\ Tail(h1.free[k]) \in Seq(Nat) /\ IsInjective(Tail(h1.free[k]))
       /\ Range(Tail(h1.free[k])) = Range(h1.free[k]) \ {a}
  BY <1>19, FirstFree
<1>21. h1 \in Heaps /\ h1.blocks \in Blocks /\ h1.free \in [Order -> Seq(Nat)]
       /\ Tiling(h1.blocks) /\ Lists(h1.free, h1.blocks)
  BY <1>19 DEF Good, Heaps
<1>22. new \in Block /\ new.order = k /\ ~new.free
  BY DEF Block
<1> HIDE DEF a, new
<1>23. h2 \in Heaps /\ Puts(h2.blocks, h1.blocks, a, new) /\ h2.free = h1.free
  BY <1>20, <1>21, <1>22, PutBlockIs
<1> HIDE DEF h2
<1>24. /\ h2.blocks \in Blocks /\ DOMAIN h2.blocks = DOMAIN h1.blocks /\ h2.blocks[a] = new
       /\ \A x \in DOMAIN h1.blocks \ {a} : h2.blocks[x] = h1.blocks[x]
  BY <1>20, <1>23 DEF Puts
<1>25. Tiling(h2.blocks)
  <2>1. \A x \in DOMAIN h1.blocks : h2.blocks[x].order = h1.blocks[x].order
    BY <1>20, <1>22, <1>24, FreeBlockIs
  <2> QED BY <1>21, <1>24, <2>1, SameTiling
<1>26. PICK s \in Seq(Nat) : s = Tail(h1.free[k])
  BY <1>20
<1>27. /\ [h1.free EXCEPT ![k] = s] \in [Order -> Seq(Nat)]
       /\ Lists([h1.free EXCEPT ![k] = s], h2.blocks)
  <2>1. DOMAIN h2.blocks \cup {a} = DOMAIN h1.blocks /\ ~h2.blocks[a].free
    BY <1>20, <1>22, <1>24
  <2>2. Drops(h2.blocks, h1.blocks, a, k) /\ Shrinks(s, h1.free[k], a)
    BY <1>20, <1>24, <1>26, <2>1 DEF Drops, Shrinks
  <2> QED BY <1>21, <2>2, Unlink
<1>28. g.blocks = h2.blocks /\ g.free = [h1.free EXCEPT ![k] = s] /\ g = [blocks |-> g.blocks, free |-> g.free]
  BY <1>1, <1>23, <1>26 DEF Heaps
<1>29. g \in Heaps
  BY <1>24, <1>27, <1>28 DEF Heaps
<1>30. Good(g) /\ PagesOf(g.blocks) = PagesOf(h.blocks)
  BY <1>19, <1>24, <1>25, <1>27, <1>28, <1>29 DEF Good, PagesOf
<1> QED BY <1>30 DEF g

-----------------------------------------------------------------------------
(* The invariant                                                           *)

HeapInv ==
  /\ Good(heap)
  /\ \A a \in DOMAIN huge : huge[a] \in Nat /\ PageOf(a) \in Nat
  /\ HeapPages \cap HugePages = {}
  /\ crashed # "corrupt"

(* The order of a request: its blocks hold it (malloc.c:85). *)
LEMMA OrderOfIs ==
  ASSUME NEW n \in Nat, n <= PageUnits
  PROVE  OrderOf(n) \in 0 .. P + 1 /\ n < Power[OrderOf(n)]
<1> DEFINE S == {k \in 0 .. P + 1 : Power[k] > n}
           m == Min(S)
           Q(k) == Power[k] > n /\ (k = 0 \/ Power[k - 1] <= n)
<1>1. P + 1 \in 1 .. P + 1 /\ P + 1 \in 0 .. P + 1 /\ (P + 1) - 1 = P /\ P \in 0 .. P + 1
  BY POrder
<1>2. Power[P] \in Nat /\ Power[P] > 0 /\ Power[P + 1] = Power[P] + Power[P]
  BY <1>1, PowerIs
<1>3. P + 1 \in S
  BY <1>1, <1>2 DEF PageUnits
<1>4. S \in SUBSET Nat /\ S # {}
  BY <1>3, POrder
<1>5. m \in S /\ \A i \in S : m <= i
  BY <1>4, MinMember
<1>6. m \in 0 .. P + 1 /\ Power[m] > n /\ \A i \in 0 .. P + 1 : Power[i] > n => m <= i
  BY <1>5
<1> HIDE DEF m
<1>7. m = 0 \/ Power[m - 1] <= n
  <2> SUFFICES ASSUME m # 0 PROVE Power[m - 1] <= n
    OBVIOUS
  <2>1. m - 1 \in 0 .. P + 1 /\ ~(m <= m - 1)
    BY <1>6, POrder
  <2>2. Power[m - 1] \in Nat
    BY <2>1, PowerIs
  <2> QED BY <1>6, <2>1, <2>2
<1>8. Q(m)
  BY <1>6, <1>7
<1>9. OrderOf(n) = CHOOSE k \in 0 .. P + 1 : Q(k)
  BY DEF OrderOf
<1> HIDE DEF Q
<1>10. OrderOf(n) \in 0 .. P + 1 /\ Q(OrderOf(n))
  BY <1>6, <1>8, <1>9
<1>11. Power[OrderOf(n)] \in Nat
  BY <1>10, PowerIs
<1> QED BY <1>10, <1>11 DEF Q

(* What the kernel hands out is used by nobody. *)
LEMMA NewPagesAre ==
  ASSUME NEW n \in Nat, NewPages(n) # -1
  PROVE  /\ NewPages(n) \in Nat
         /\ \A p \in NewPages(n) .. NewPages(n) + n - 1 : p \notin HeapPages /\ p \notin HugePages
<1> DEFINE fits == {p \in 0 .. Pages - n : p .. p + n - 1 \cap (HeapPages \cup HugePages) = {}}
<1>1. fits # {} /\ NewPages(n) = Min(fits)
  BY DEF NewPages
<1>2. fits \in SUBSET Nat
  BY POrder
<1>3. NewPages(n) \in fits
  BY <1>1, <1>2, MinMember
<1> QED BY <1>3

(* The pages of the heap. *)
LEMMA HeapPagesAre == HeapPages = PagesOf(heap.blocks)
  BY DEF HeapPages, PagesOf

(* The pages of a huge block. *)
LEMMA HugePagesHave ==
  ASSUME NEW p
  PROVE  p \in HugePages <=> \E a \in DOMAIN huge : p \in PageOf(a) .. PageOf(a) + huge[a] - 1
  BY DEF HugePages

(* A page is added to the heap. *)
LEMMA InsertPage ==
  ASSUME NEW h, Good(h), NEW p \in Nat, p \notin PagesOf(h.blocks)
  PROVE  LET g == InsertFree(h, P, p * PageUnits)
         IN  Good(g) /\ g.free[P] # <<>> /\ PagesOf(g.blocks) = PagesOf(h.blocks) \cup {p}
<1> DEFINE s == p * PageUnits
           g == InsertFree(h, P, s)
<1>1. P \in Order /\ P \in 0 .. P + 1
  BY POrder DEF Order
<1>2. PageUnits \in Nat /\ PageUnits > 0 /\ s \in Nat
  BY <1>1, PowerIs, Times DEF PageUnits
<1>3. PageOf(s) = p
  <2>1. s <= s /\ s < s + PageUnits
    BY <1>2
  <2> QED BY <1>2, <2>1, Divide DEF PageOf
<1>4. s \notin DOMAIN h.blocks
  BY <1>3 DEF PagesOf
<1>5. h \in Heaps /\ h.blocks \in Blocks /\ Tiling(h.blocks) /\ Lists(h.free, h.blocks)
  BY DEF Good, Heaps
<1>6. g \in Heaps /\ Puts(g.blocks, h.blocks, s, FreeBlock(P)) /\ Lists(g.free, g.blocks)
      /\ g.free[P] # <<>>
  <2> HIDE DEF s
  <2> QED BY <1>1, <1>2, <1>4, <1>5, InsertFreeIs
<1> HIDE DEF g
<1>7. /\ g.blocks \in Blocks /\ DOMAIN g.blocks = DOMAIN h.blocks \cup {s}
      /\ g.blocks[s].order = P /\ \A c \in DOMAIN h.blocks : g.blocks[c] = h.blocks[c]
  <2> HIDE DEF s
  <2> QED BY <1>1, <1>4, <1>6, FreeBlockIs DEF Puts
<1>8. Tiling(g.blocks)
  <2>1. \A a \in DOMAIN h.blocks : PageOf(a) # p
    BY DEF PagesOf
  <2>2. \A c \in DOMAIN h.blocks : g.blocks[c].order = h.blocks[c].order
    BY <1>7
  <2> QED BY <1>5, <1>7, <2>1, <2>2, PageTiling
<1>9. PagesOf(g.blocks) = PagesOf(h.blocks) \cup {p}
  <2> HIDE DEF s
  <2> QED BY <1>3, <1>7 DEF PagesOf
<1>10. Good(g)
  BY <1>6, <1>8 DEF Good
<1> QED BY <1>6, <1>9, <1>10 DEF g

(* malloc keeps the invariant. *)
LEMMA AllocStep ==
  ASSUME HeapInv, NEW n \in Sizes, Alloc(n)
  PROVE  HeapInv'
<1> DEFINE k == OrderOf(n)
           none == \A j \in k .. P : heap.free[j] = <<>>
           start == NewPages(1)
           h == IF none THEN InsertFree(heap, P, start * PageUnits) ELSE heap
<1>1. n \in Nat /\ n <= PageUnits
  BY MallocAssumption DEF Alloc
<1>2. k \in 0 .. P + 1 /\ n < Power[k] /\ Power[k] \in Nat
  BY <1>1, OrderOfIs, PowerIs
<1>3. /\ IF k > P THEN heap' = h /\ crashed' = "order13"
         ELSE heap' = Take(h, k, n) /\ UNCHANGED crashed
      /\ huge' = huge /\ (none => start # -1)
  BY DEF Alloc
<1>4. Good(h) /\ PagesOf(h.blocks) \cap HugePages = {} /\ (none => h.free[P] # <<>>)
  <2>1. CASE none
    <3>1. start \in Nat /\ start \notin HeapPages /\ start \notin HugePages
      <4>1. start \in Nat /\ \A p \in start .. start + 1 - 1 : p \notin HeapPages /\ p \notin HugePages
        BY <1>3, <2>1, NewPagesAre
      <4>2. start \in start .. start + 1 - 1
        BY <4>1
      <4> QED BY <4>1, <4>2
    <3> HIDE DEF start
    <3>2. h = InsertFree(heap, P, start * PageUnits)
      BY <2>1
    <3>3. Good(h) /\ h.free[P] # <<>> /\ PagesOf(h.blocks) = PagesOf(heap.blocks) \cup {start}
      BY <3>1, <3>2, InsertPage, HeapPagesAre DEF HeapInv
    <3> QED BY <3>1, <3>3, HeapPagesAre DEF HeapInv
  <2>2. CASE ~none
    BY <2>2, HeapPagesAre DEF HeapInv
  <2> QED BY <2>1, <2>2
<1>5. Good(heap') /\ PagesOf(heap'.blocks) = PagesOf(h.blocks) /\ crashed' # "corrupt"
  <2>1. CASE k > P
    BY <1>3, <1>4, <2>1
  <2>2. CASE ~(k > P)
    <3>1. k \in Order /\ k \in 0 .. P
      BY <1>2, <2>2, POrder DEF Order
    <3>2. \E j \in k .. P : h.free[j] # <<>>
      <4>1. CASE none
        <5>1. h.free[P] # <<>> /\ P \in k .. P
          BY <1>4, <3>1, <4>1, POrder
        <5> HIDE DEF h, k
        <5> QED BY <5>1
      <4>2. CASE ~none
        BY <4>2
      <4> QED BY <4>1, <4>2
    <3>3. n <= Power[k]
      BY <1>1, <1>2
    <3> HIDE DEF k, h
    <3> QED BY <1>1, <1>3, <1>4, <2>2, <3>1, <3>2, <3>3, TakeIs DEF HeapInv
  <2> QED BY <2>1, <2>2
<1>6. HeapPages' = PagesOf(heap'.blocks) /\ HugePages' = HugePages
  BY <1>3 DEF HeapPages, PagesOf, PageOf, HugePages
<1>7. \A a \in DOMAIN huge' : huge'[a] \in Nat /\ PageOf(a)' \in Nat
  BY <1>3 DEF HeapInv, PageOf
<1> HIDE DEF h
<1> QED BY <1>4, <1>5, <1>6, <1>7 DEF HeapInv

(* malloc of more than a page keeps it. *)
LEMMA AllocHugeStep ==
  ASSUME HeapInv, NEW n \in Sizes, AllocHuge(n)
  PROVE  HeapInv'
<1> DEFINE count == (n + PageUnits - 1) \div PageUnits
           start == NewPages(count)
           s == start * PageUnits
<1>1. /\ crashed = "none" /\ start # -1 /\ heap' = heap /\ crashed' = crashed
      /\ huge' = [a \in DOMAIN huge \cup {s} |-> IF a = s THEN count ELSE huge[a]]
  BY DEF AllocHuge
<1>2. PageUnits \in Nat /\ PageUnits > 0
  BY PowerIs, POrder DEF PageUnits
<1>3. count \in Nat
  <2>1. n + PageUnits - 1 \in Nat
    BY <1>2, MallocAssumption
  <2> QED BY <1>2, <2>1, Divide
<1> HIDE DEF count
<1>4. start \in Nat /\ \A p \in start .. start + count - 1 : p \notin HeapPages
  BY <1>1, <1>3, NewPagesAre
<1> HIDE DEF start
<1>5. s \in Nat /\ PageOf(s) = start
  <2>1. s \in Nat /\ s <= s /\ s < s + PageUnits
    BY <1>2, <1>4, Times
  <2> QED BY <1>2, <1>4, <2>1, Divide DEF PageOf
<1> HIDE DEF s
<1>6. DOMAIN huge' = DOMAIN huge \cup {s} /\ huge'[s] = count
      /\ \A a \in DOMAIN huge \ {s} : huge'[a] = huge[a]
  BY <1>1
<1>7. \A a \in DOMAIN huge' : huge'[a] \in Nat /\ PageOf(a) \in Nat
  BY <1>3, <1>4, <1>5, <1>6 DEF HeapInv
<1>8. HeapPages' = HeapPages
  BY <1>1 DEF HeapPages, PageOf
<1>9. ASSUME NEW p \in HeapPages, p \in HugePages' PROVE FALSE
  <2>1. PICK a \in DOMAIN huge' : p \in PageOf(a) .. PageOf(a) + huge'[a] - 1
    BY <1>9 DEF HugePages, PageOf
  <2>2. CASE a = s
    BY <1>4, <1>5, <1>6, <2>1, <2>2
  <2>3. CASE a \in DOMAIN huge \ {s}
    <3>1. p \in HugePages
      BY <1>6, <2>1, <2>3, HugePagesHave
    <3> QED BY <3>1 DEF HeapInv
  <2> QED BY <1>6, <2>2, <2>3
<1>10. Good(heap') /\ crashed' # "corrupt"
  BY <1>1 DEF HeapInv
<1>11. HeapPages' \cap HugePages' = {}
  BY <1>8, <1>9
<1>12. (\A a \in DOMAIN huge : huge[a] \in Nat /\ PageOf(a) \in Nat)'
  BY <1>7 DEF PageOf
<1> QED BY <1>10, <1>11, <1>12 DEF HeapInv

(* free of such a block keeps it. *)
LEMMA FreeHugeStep ==
  ASSUME HeapInv, NEW a \in DOMAIN huge, FreeHuge(a)
  PROVE  HeapInv'
<1>1. heap' = heap /\ crashed' = crashed /\ huge' = [x \in DOMAIN huge \ {a} |-> huge[x]]
  BY DEF FreeHuge
<1>2. DOMAIN huge' \subseteq DOMAIN huge /\ \A x \in DOMAIN huge' : huge'[x] = huge[x]
  BY <1>1
<1>3. HeapPages' = HeapPages
  BY <1>1 DEF HeapPages, PageOf
<1>4. ASSUME NEW p \in HugePages' PROVE p \in HugePages
  <2>1. PICK x \in DOMAIN huge' : p \in PageOf(x) .. PageOf(x) + huge'[x] - 1
    BY <1>4 DEF HugePages, PageOf
  <2> QED BY <1>2, <2>1, HugePagesHave
<1>5. HeapPages' \cap HugePages' = {}
  BY <1>3, <1>4 DEF HeapInv
<1>6. (\A x \in DOMAIN huge : huge[x] \in Nat /\ PageOf(x) \in Nat)'
  BY <1>2 DEF HeapInv, PageOf
<1>7. Good(heap') /\ crashed' # "corrupt"
  BY <1>1 DEF HeapInv
<1> QED BY <1>5, <1>6, <1>7 DEF HeapInv

(* A heap with the same pages. *)
LEMMA SamePages ==
  ASSUME HeapInv, huge' = huge, Good(heap'), PagesOf(heap'.blocks) = PagesOf(heap.blocks),
         crashed' # "corrupt"
  PROVE  HeapInv'
<1>1. HeapPages' = HeapPages /\ HugePages' = HugePages
  BY DEF HeapPages, PagesOf, PageOf, HugePages
<1>2. (\A a \in DOMAIN huge : huge[a] \in Nat /\ PageOf(a) \in Nat)'
  BY DEF HeapInv, PageOf
<1> QED BY <1>1, <1>2 DEF HeapInv

(* free keeps it. *)
LEMMA FreeStep ==
  ASSUME HeapInv, NEW a \in DOMAIN heap.blocks, Free(a)
  PROVE  HeapInv'
<1> DEFINE k == heap.blocks[a].order
           b == Buddy(a, k)
<1>1. huge' = huge /\ ~heap.blocks[a].free /\ crashed = "none"
  BY DEF Free
<1>2. /\ Good(heap) /\ heap \in Heaps /\ heap.blocks \in Blocks /\ Tiling(heap.blocks)
      /\ Lists(heap.free, heap.blocks)
  BY DEF HeapInv, Good, Heaps
<1>3. a \in Nat /\ k \in Order /\ k \in 0 .. P
  BY <1>2, BlockAt
<1>4. k # P => b \in DOMAIN heap.blocks
  BY <1>2, BuddyStarts
<1>5. CASE heap' = heap /\ crashed' \in {"order13", "neighbour"}
  <2>1. Good(heap') /\ PagesOf(heap'.blocks) = PagesOf(heap.blocks) /\ crashed' # "corrupt"
    BY <1>2, <1>5
  <2> QED BY <1>1, <2>1, SamePages
<1>6. CASE /\ b \in DOMAIN heap.blocks /\ heap.blocks[b].free /\ heap.blocks[b].order = k
           /\ k # P /\ heap' = Merge(heap, a, b, k) /\ crashed' = crashed
  <2>1. heap.blocks[b] = FreeBlock(k)
    BY <1>2, <1>6, BlockAt DEF Block
  <2>2. k \in 0 .. P - 1
    BY <1>3, <1>6, POrder
  <2>3. Good(Merge(heap, a, b, k)) /\ PagesOf(Merge(heap, a, b, k).blocks) = PagesOf(heap.blocks)
    BY <1>1, <1>2, <1>6, <2>1, <2>2, MergeIs
  <2> QED BY <1>1, <1>6, <2>3, SamePages
<1>7. CASE heap' = InsertFree(heap, k, a) /\ crashed' = crashed
  <2> HIDE DEF k
  <2>1. /\ heap' \in Heaps /\ Puts(heap'.blocks, heap.blocks, a, FreeBlock(k))
        /\ Lists(heap'.free, heap'.blocks)
    BY <1>1, <1>2, <1>3, <1>7, InsertFreeIs
  <2>2. /\ heap'.blocks \in Blocks /\ DOMAIN heap'.blocks = DOMAIN heap.blocks
        /\ \A c \in DOMAIN heap.blocks : heap'.blocks[c].order = heap.blocks[c].order
    BY <1>3, <2>1, FreeBlockIs DEF Puts, k
  <2>3. Tiling(heap'.blocks)
    BY <1>2, <2>2, SameTiling
  <2>4. Good(heap') /\ PagesOf(heap'.blocks) = PagesOf(heap.blocks)
    BY <2>1, <2>2, <2>3 DEF Good, PagesOf
  <2> QED BY <1>1, <1>7, <2>4, SamePages
<1> QED BY <1>1, <1>3, <1>4, <1>5, <1>6, <1>7 DEF Free

(* So does every step. *)
LEMMA HeapStep == HeapInv /\ [HeapNext]_heapVars => HeapInv'
<1> SUFFICES ASSUME HeapInv, [HeapNext]_heapVars PROVE HeapInv'
  OBVIOUS
<1>1. CASE \E n \in Sizes : Alloc(n)
  BY <1>1, AllocStep
<1>2. CASE \E n \in Sizes : AllocHuge(n)
  BY <1>2, AllocHugeStep
<1>3. CASE \E a \in DOMAIN huge : FreeHuge(a)
  BY <1>3, FreeHugeStep
<1>4. CASE \E a \in DOMAIN heap.blocks : Free(a)
  BY <1>4, FreeStep
<1>5. CASE UNCHANGED heapVars
  <2>1. huge' = huge /\ heap' = heap /\ crashed' = crashed
    BY <1>5 DEF heapVars
  <2>2. Good(heap') /\ PagesOf(heap'.blocks) = PagesOf(heap.blocks) /\ crashed' # "corrupt"
    BY <2>1 DEF HeapInv
  <2> QED BY <2>1, <2>2, SamePages
<1> QED BY <1>1, <1>2, <1>3, <1>4, <1>5 DEF HeapNext

(* It holds at the start. *)
LEMMA HeapStart == HeapInit => HeapInv
<1> SUFFICES ASSUME HeapInit PROVE HeapInv
  OBVIOUS
<1>1. PICK e : e = <<>>
  OBVIOUS
<1>2. heap.blocks = e /\ heap.free = [k \in Order |-> <<>>] /\ huge = e /\ crashed = "none"
      /\ heap = [blocks |-> heap.blocks, free |-> heap.free]
  BY <1>1 DEF HeapInit
<1>3. DOMAIN e = {} /\ e = [x \in {} |-> x]
  BY <1>1
<1>4. e \in [{} -> Block]
  BY <1>3
<1>5. e \in Blocks
  BY <1>4 DEF Blocks
<1>6. heap.free \in [Order -> Seq(Nat)] /\ \A k \in Order : heap.free[k] = <<>>
  BY <1>2
<1>7. heap \in Heaps
  BY <1>2, <1>5, <1>6 DEF Heaps
<1>8. Lists(heap.free, heap.blocks)
  BY <1>2, <1>3, <1>6 DEF Lists, IsInjective, Range
<1>9. Tiling(heap.blocks)
  BY <1>2, <1>3 DEF Tiling
<1>10. HeapPages = {}
  BY <1>2, <1>3 DEF HeapPages
<1> QED BY <1>2, <1>3, <1>7, <1>8, <1>9, <1>10 DEF HeapInv, Good

(* The blocks tile the pages. *)
LEMMA InvTiled == HeapInv => HeapTiled
<1> SUFFICES ASSUME HeapInv PROVE HeapTiled
  OBVIOUS
<1> DEFINE B == heap.blocks
           Part(p) == p * PageUnits .. (p + 1) * PageUnits - 1
<1>1. B \in Blocks /\ Tiling(B)
  BY DEF HeapInv, Good, Heaps
<1>2. PICK u \in Nat : u = PageUnits /\ u > 0
  BY PowerIs, POrder DEF PageUnits
<1>3. \A a \in DOMAIN B : a \in Nat /\ EndOf(B, a) \in Nat /\ Units(a) = a .. EndOf(B, a) - 1
  BY <1>1, BlockAt DEF Units, EndOf
<1>4. \A x, a \in Nat : x \in a .. a <=> x = a
  OBVIOUS
<1>5. \A p \in Nat : \A x : x \in Part(p) <=> x \in Nat /\ PageOf(x) = p
  <2> SUFFICES ASSUME NEW p \in Nat, NEW x PROVE x \in Part(p) <=> x \in Nat /\ PageOf(x) = p
    OBVIOUS
  <2>1. PICK t \in Nat : t = p * u /\ (p + 1) * u = t + u
    BY <1>2, Times
  <2>2. Part(p) = t .. (t + u) - 1
    BY <1>2, <2>1
  <2>3. x \in Part(p) <=> x \in Nat /\ t <= x /\ x < t + u
    BY <1>2, <2>1, <2>2
  <2>4. x \in Nat => (PageOf(x) = p <=> t <= x /\ x < t + u)
    BY <1>2, <2>1, Divide DEF PageOf
  <2> QED BY <2>3, <2>4
<1>6. \A a \in DOMAIN B : PageOf(a) \in Nat
  BY <1>2, <1>3, Divide DEF PageOf
<1>7. \A x : x \in UNION {Units(a) : a \in DOMAIN B} <=> x \in Nat /\ PagesCovered(B, x)
  <2> SUFFICES ASSUME NEW x
               PROVE  (\E a \in DOMAIN B : x \in Units(a)) <=> x \in Nat /\ PagesCovered(B, x)
    OBVIOUS
  <2>1. \A a \in DOMAIN B : x \in Units(a) <=> x \in Nat /\ a <= x /\ x < EndOf(B, a)
    BY <1>3
  <2> HIDE DEF B
  <2> QED BY <2>1 DEF PagesCovered
<1>8. \A x \in Nat : PagesCovered(B, x) <=> \E a \in DOMAIN B : PageOf(x) = PageOf(a)
  <2> SUFFICES ASSUME NEW x \in Nat
               PROVE  PagesCovered(B, x) <=> \E a \in DOMAIN B : PageOf(x) = PageOf(a)
    OBVIOUS
  <2>1. ASSUME NEW a \in DOMAIN B, a <= x, x < EndOf(B, a) PROVE PageOf(x) = PageOf(a)
    <3>1. B[a].order \in 0 .. P /\ Multiple(a, B[a].order)
      BY <1>1, BlockAt DEF Tiling
    <3> HIDE DEF B
    <3> QED BY <2>1, <3>1, OnePage DEF EndOf
  <2> HIDE DEF B
  <2> QED BY <1>1, <2>1 DEF Tiling, PagesCovered
<1>9. \A x : x \in UNION {Part(p) : p \in HeapPages} <=> x \in Nat /\ \E a \in DOMAIN B : PageOf(x) = PageOf(a)
  <2> SUFFICES ASSUME NEW x
               PROVE  (\E p \in HeapPages : x \in Part(p))
                        <=> x \in Nat /\ \E a \in DOMAIN B : PageOf(x) = PageOf(a)
    OBVIOUS
  <2>1. \A p \in HeapPages : p \in Nat
    BY <1>6 DEF HeapPages
  <2> HIDE DEF Part
  <2> QED BY <1>5, <2>1 DEF HeapPages
<1>10. UNION {Units(a) : a \in DOMAIN B} = UNION {Part(p) : p \in HeapPages}
  <2> HIDE DEF B, Part
  <2> QED BY <1>7, <1>8, <1>9
<1>11. \A a, b \in DOMAIN B : a # b => Units(a) \cap Units(b) = {}
  <2> SUFFICES ASSUME NEW a \in DOMAIN B, NEW b \in DOMAIN B, a # b,
                      NEW x \in Units(a), x \in Units(b) PROVE FALSE
    OBVIOUS
  <2>1. a < b => EndOf(B, a) <= b
    BY <1>1 DEF Tiling
  <2>2. b < a => EndOf(B, b) <= a
    BY <1>1 DEF Tiling
  <2> QED BY <1>3, <2>1, <2>2
<1>12. \A a \in DOMAIN B : B[a].asked <= Power[B[a].order]
  BY <1>1, BlockAt DEF Block
<1> QED BY <1>10, <1>11, <1>12 DEF HeapTiled, HeapInv

(* Whatever a process allocates and frees, the blocks of its heap tile its  *)
(* pages and hold what was asked for.                                      *)
THEOREM HeapIsTiled == HeapSpec => []HeapTiled
<1>1. HeapSpec => []HeapInv
  BY HeapStart, HeapStep, PTL DEF HeapSpec
<1> QED BY <1>1, InvTiled, PTL

(* Each free block is on the list of its order, once, and nothing else is;  *)
(* the header free reads inside a page is a header (malloc.c:127).          *)
THEOREM FreeListsAreExact == HeapSpec => []FreeListsExact
<1>1. HeapSpec => []HeapInv
  BY HeapStart, HeapStep, PTL DEF HeapSpec
<1>2. HeapInv => FreeListsExact
  BY DEF HeapInv, Good, Lists, FreeListsExact
<1> QED BY <1>1, <1>2, PTL

-----------------------------------------------------------------------------
(* The radix tree: bits of a key                                           *)

LEMMA WidthIs == Width \in Nat /\ Width > 0
  BY RadixAssumption

(* Powers of two. *)
LEMMA PowIs ==
  /\ Pow[0] = 1
  /\ \A k \in 0 .. Width : Pow[k] \in Nat /\ Pow[k] > 0
  /\ \A k \in 1 .. Width : Pow[k] = Pow[k - 1] + Pow[k - 1]
<1> DEFINE X == {x \in Nat : x > 0}
           f == [t \in (1 .. Width) \X X |-> 2 * t[2]]
<1>1. Width \in Nat /\ 1 \in X
  BY WidthIs
<1>2. f \in [(1 .. Width) \X X -> X]
  OBVIOUS
<1>3. PICK g : Iterates(g, f, 1, Width, X)
  <2> HIDE DEF f, X
  <2> QED BY <1>1, <1>2, Iterate
<1>4. /\ g \in [0 .. Width -> X] /\ g[0] = 1
      /\ \A i \in 1 .. Width : g[i] = f[<<i, g[i - 1]>>]
  <2> HIDE DEF f, X
  <2> QED BY <1>3 DEF Iterates
<1>5. \A i \in 1 .. Width : g[i - 1] \in X /\ g[i] = 2 * g[i - 1]
  <2> SUFFICES ASSUME NEW i \in 1 .. Width PROVE g[i - 1] \in X /\ g[i] = 2 * g[i - 1]
    OBVIOUS
  <2>1. i - 1 \in 0 .. Width
    BY WidthIs
  <2>2. g[i - 1] \in X
    BY <1>4, <2>1
  <2>3. f[<<i, g[i - 1]>>] = 2 * g[i - 1]
    BY <2>2
  <2> QED BY <1>4, <2>2, <2>3
<1>6. g = [k \in 0 .. Width |-> IF k = 0 THEN 1 ELSE 2 * g[k - 1]]
  <2>1. \A k \in 0 .. Width : g[k] = IF k = 0 THEN 1 ELSE 2 * g[k - 1]
    BY <1>4, <1>5, WidthIs
  <2> HIDE DEF f, X
  <2> QED BY <1>4, <2>1
<1>7. Pow = [k \in 0 .. Width |-> IF k = 0 THEN 1 ELSE 2 * Pow[k - 1]]
  <2> DEFINE Def(h) == h = [k \in 0 .. Width |-> IF k = 0 THEN 1 ELSE 2 * h[k - 1]]
  <2>1. Def(g)
    BY <1>6
  <2>2. Def(CHOOSE h : Def(h))
    <3> HIDE DEF Def
    <3> QED BY <2>1
  <2> QED BY <2>2 DEF Pow
<1>8. \A k \in 0 .. Width : Pow[k] = IF k = 0 THEN 1 ELSE 2 * Pow[k - 1]
  BY <1>7
<1> DEFINE T == {k \in 0 .. Width : Pow[k] = g[k]}
<1>9. 0 .. Width \subseteq T
  <2>1. 0 \in T
    BY <1>1, <1>4, <1>8
  <2>2. ASSUME NEW i \in 1 .. Width, i - 1 \in T PROVE i \in T
    <3>1. i \in 0 .. Width /\ i # 0
      BY WidthIs
    <3>2. Pow[i] = 2 * Pow[i - 1]
      BY <1>8, <3>1
    <3> QED BY <1>5, <2>2, <3>1, <3>2
  <2> HIDE DEF T
  <2> QED BY <1>1, <2>1, <2>2, UpTo
<1>10. \A k \in 0 .. Width : Pow[k] = g[k] /\ Pow[k] \in X
  BY <1>4, <1>9
<1>11. ASSUME NEW k \in 1 .. Width PROVE Pow[k] = Pow[k - 1] + Pow[k - 1]
  <2>1. k \in 0 .. Width /\ k - 1 \in 0 .. Width /\ k # 0
    BY WidthIs
  <2>2. Pow[k] = 2 * Pow[k - 1] /\ Pow[k - 1] \in Nat
    BY <1>8, <1>10, <2>1
  <2> QED BY <2>2
<1> QED BY <1>1, <1>4, <1>10, <1>11


\* The bits of k from bit j upwards.
Over(k, j) == k \div Pow[j]

LEMMA OverStep ==
  ASSUME NEW a \in Nat, NEW j \in 1 .. Width
  PROVE  /\ Over(a, j - 1) \in Nat /\ Over(a, j) \in Nat
         /\ Over(a, j) = Over(a, j - 1) \div 2
<1>1. j \in 0 .. Width /\ j - 1 \in 0 .. Width
  BY WidthIs
<1>2. PICK m \in Nat : m = Pow[j - 1] /\ m > 0 /\ Pow[j] = m + m
  BY <1>1, PowIs
<1>3. PICK q \in Nat : q = a \div m /\ q * m <= a /\ a < q * m + m
  BY <1>2, Divide
<1>4. PICK r \in Nat : q = r + r \/ q = r + r + 1
  BY Halve
<1>5. PICK rm \in Nat : rm = (r + r) * m /\ r * (m + m) = rm
  BY Times
<1>6. q = r + r + 1 => q * m = rm + m
  <2>1. PICK t \in Nat : t = r + r
    OBVIOUS
  <2>2. (t + 1) * m = t * m + m
    BY Times
  <2> QED BY <1>5, <2>1, <2>2
<1>7. rm <= a /\ a < rm + (m + m)
  <2>1. PICK qm \in Nat : qm = q * m
    BY Times
  <2>2. qm = rm \/ qm = rm + m
    BY <1>4, <1>5, <1>6, <2>1
  <2> QED BY <1>2, <1>3, <2>1, <2>2
<1>8. r = a \div (m + m) /\ m + m \in Nat /\ m + m > 0
  BY <1>2, <1>5, <1>7, Divide
<1>9. r = q \div 2
  BY <1>4
<1> QED BY <1>2, <1>3, <1>8, <1>9 DEF Over

LEMMA OverSame ==
  ASSUME NEW a \in Nat, NEW b \in Nat, NEW j \in 1 .. Width
  PROVE  Over(a, j - 1) = Over(b, j - 1)
           <=> Over(a, j) = Over(b, j) /\ Bit(a, j - 1) = Bit(b, j - 1)
<1>1. PICK x \in Nat, y \in Nat : x = Over(a, j - 1) /\ y = Over(b, j - 1)
  BY OverStep
<1>2. Over(a, j) = x \div 2 /\ Over(b, j) = y \div 2
  BY <1>1, OverStep
<1>3. Bit(a, j - 1) = x % 2 /\ Bit(b, j - 1) = y % 2
  BY <1>1 DEF Bit, Over
<1>4. x \div 2 = y \div 2 /\ x % 2 = y % 2 => x = y
  OBVIOUS
<1> QED BY <1>1, <1>2, <1>3, <1>4

(* The bits from i upwards are those from j upwards and those between. *)
LEMMA OverBits ==
  ASSUME NEW a \in Nat, NEW b \in Nat, NEW j \in 0 .. Width, NEW i \in 0 .. j
  PROVE  Over(a, i) = Over(b, i)
           <=> Over(a, j) = Over(b, j) /\ \A t \in i .. j - 1 : Bit(a, t) = Bit(b, t)
<1> DEFINE T == {d \in 0 .. j : Over(a, j - d) = Over(b, j - d)
                   <=> Over(a, j) = Over(b, j) /\ \A t \in j - d .. j - 1 : Bit(a, t) = Bit(b, t)}
<1>1. 0 \in T
  OBVIOUS
<1>2. ASSUME NEW d \in 1 .. j, d - 1 \in T PROVE d \in T
  <2>1. PICK u \in 1 .. Width : u = j - (d - 1)
    BY WidthIs
  <2>2. Over(a, u - 1) = Over(b, u - 1)
          <=> Over(a, u) = Over(b, u) /\ Bit(a, u - 1) = Bit(b, u - 1)
    BY OverSame
  <2>3. Over(a, u) = Over(b, u)
          <=> Over(a, j) = Over(b, j) /\ \A t \in u .. j - 1 : Bit(a, t) = Bit(b, t)
    BY <1>2, <2>1
  <2>4. u - 1 .. j - 1 = (u .. j - 1) \cup {u - 1}
    BY <2>1
  <2>5. Over(a, u - 1) = Over(b, u - 1)
          <=> Over(a, j) = Over(b, j) /\ \A t \in u - 1 .. j - 1 : Bit(a, t) = Bit(b, t)
    BY <2>2, <2>3, <2>4
  <2>6. u - 1 = j - d /\ d \in 0 .. j
    BY <2>1
  <2> QED BY <2>5, <2>6
<1>3. j - i \in T
  <2>1. j \in Nat /\ j - i \in 0 .. j
    OBVIOUS
  <2> HIDE DEF T
  <2> QED BY <1>1, <1>2, <2>1, UpTo
<1>4. j - (j - i) = i
  OBVIOUS
<1> QED BY <1>3, <1>4

(* A key has no bits above, and from bit 0 upwards it is all there. *)
LEMMA OverEnds ==
  ASSUME NEW k \in Key
  PROVE  k \in Nat /\ Over(k, 0) = k /\ Over(k, Width) = 0
<1>1. k \in Nat /\ Width \in 0 .. Width /\ 0 \in 0 .. Width
  BY WidthIs, PowIs DEF Key
<1>2. PICK m \in Nat : m = Pow[Width] /\ m > 0
  BY <1>1, PowIs
<1>3. 0 * m <= k /\ k < 0 * m + m
  BY <1>1, <1>2 DEF Key
<1>4. k \div m = 0
  BY <1>1, <1>2, <1>3, Divide
<1>5. k \div 1 = k
  BY <1>1
<1> QED BY <1>1, <1>2, <1>4, <1>5, PowIs DEF Over

LEMMA BitIs ==
  ASSUME NEW a \in Nat, NEW j \in 0 .. Width
  PROVE  Over(a, j) \in Nat /\ Bit(a, j) \in 0 .. 1
<1>1. Pow[j] \in Nat /\ Pow[j] > 0
  BY PowIs
<1>2. a \div Pow[j] \in Nat
  BY <1>1, Divide
<1> QED BY <1>2 DEF Over, Bit

(* The largest number of a part of a range. *)
LEMMA MaxMember ==
  ASSUME NEW i \in Int, NEW j \in Int, NEW S \in SUBSET (i .. j), S # {}
  PROVE  Max(S) \in S /\ \A x \in S : x <= Max(S)
<1> DEFINE N == {j - x : x \in S}
<1>1. N \in SUBSET Nat /\ N # {}
  <2>1. ASSUME NEW x \in S PROVE j - x \in Nat
    OBVIOUS
  <2> QED BY <2>1
<1>2. PICK m \in N : \A x \in N : m <= x
  BY <1>1, MinMember
<1>3. PICK y \in S : m = j - y
  OBVIOUS
<1>4. y \in S /\ \A x \in S : y >= x
  BY <1>2, <1>3
<1>5. Max(S) = CHOOSE x \in S : \A z \in S : x >= z
  BY DEF Max
<1>6. Max(S) \in S /\ \A z \in S : Max(S) >= z
  BY <1>4, <1>5
<1> QED BY <1>6

(* bincmp and hibit: bits j of parts that agree from top upwards. *)
LEMMA BinCmpIs ==
  ASSUME NEW a \in Nat, NEW b \in Nat, NEW top \in 0 .. Width, NEW i \in 0 .. top,
         Over(a, top) = Over(b, top)
  PROVE  LET d == BinCmp(a, b, top - 1, top - i)
         IN  /\ d = -1 <=> Over(a, i) = Over(b, i)
             /\ d # -1 => /\ d \in i .. top - 1
                          /\ Over(a, d + 1) = Over(b, d + 1) /\ Bit(a, d) # Bit(b, d)
<1> DEFINE S == {j \in i .. top - 1 : Bit(a, j) # Bit(b, j)}
           d == BinCmp(a, b, top - 1, top - i)
<1>1. (top - 1) - (top - i) + 1 = i
  OBVIOUS
<1>2. d = IF S = {} THEN -1 ELSE Max(S)
  BY <1>1 DEF BinCmp
<1>3. S = {} <=> Over(a, i) = Over(b, i)
  <2>1. S = {} <=> \A t \in i .. top - 1 : Bit(a, t) = Bit(b, t)
    OBVIOUS
  <2> QED BY <2>1, OverBits
<1>4. CASE S # {}
  <2>1. S \in SUBSET (i .. top - 1) /\ i \in Int /\ top - 1 \in Int
    OBVIOUS
  <2> HIDE DEF S
  <2>2. Max(S) \in S /\ \A x \in S : x <= Max(S)
    BY <1>4, <2>1, MaxMember
  <2>3. d = Max(S) /\ d \in i .. top - 1
    BY <1>2, <1>4, <2>1, <2>2
  <2>4. \A t \in d + 1 .. top - 1 : t \notin S
    BY <2>2, <2>3
  <2>5. \A t \in (d + 1) .. top - 1 : Bit(a, t) = Bit(b, t)
    BY <2>3, <2>4 DEF S
  <2>6. d + 1 \in 0 .. top
    BY <2>3
  <2>7. Over(a, d + 1) = Over(b, d + 1)
    BY <2>5, <2>6, OverBits
  <2>8. Bit(a, d) # Bit(b, d)
    BY <2>2, <2>3 DEF S
  <2> QED BY <1>3, <1>4, <2>3, <2>7, <2>8
<1> QED BY <1>2, <1>3, <1>4

-----------------------------------------------------------------------------
(* The radix tree: its shape                                               *)

Obj == Nat \X Nat
NodeSet == [next : [0 .. 1 -> Obj \cup {Null}], part : Key, len : 0 .. Width,
            data : Obj \cup {Null}]

\* e[x] is the number of bits below node x, which are those of its part from bit
\* e[x] upwards: those of its parent and len more.  k is below x if it has them too.
Below(n, e, x, k) == Over(k, e[x]) = Over(n[x].part, e[x])

Typed(n, r, e) ==
  /\ DOMAIN n \subseteq Obj /\ n \in [DOMAIN n -> NodeSet]
  /\ r \in DOMAIN n /\ e \in [DOMAIN n -> 0 .. Width]
  /\ e[r] = Width /\ n[r].len = 0 /\ n[r].data = Null

\* A leaf has data and all bits, another node two children.
Branched(n, r, e) ==
  \A x \in DOMAIN n \ {r} :
    /\ e[x] < Width
    /\ e[x] = 0 => n[x].data # Null /\ \A b \in 0 .. 1 : n[x].next[b] = Null
    /\ e[x] # 0 => n[x].data = Null /\ \A b \in 0 .. 1 : n[x].next[b] # Null

\* y is a sound child of x on side b.
Child(n, r, e, x, b, y) ==
  /\ y \in DOMAIN n \ {r} /\ e[y] < e[x] /\ n[y].len = e[x] - e[y]
  /\ Below(n, e, x, n[y].part) /\ Bit(n[y].part, e[x] - 1) = b

Linked(n, r, e) ==
  \A x \in DOMAIN n, b \in 0 .. 1 :
    n[x].next[b] # Null => Child(n, r, e, x, b, n[x].next[b])

\* Every node but the root has one parent.
Parented(n, r) ==
  /\ \A y \in DOMAIN n \ {r} : \E x \in DOMAIN n, b \in 0 .. 1 : n[x].next[b] = y
  /\ \A x, z \in DOMAIN n, b, c \in 0 .. 1 :
       n[x].next[b] # Null /\ n[x].next[b] = n[z].next[c] => x = z /\ b = c

Shape(n, r, e) == Typed(n, r, e) /\ Branched(n, r, e) /\ Linked(n, r, e) /\ Parented(n, r)

LEMMA NullIs == Null \notin Obj /\ None \notin Obj /\ Null # None
  BY RadixAssumption DEF Obj

LEMMA NodeIs ==
  ASSUME NEW n, NEW r, NEW e, Shape(n, r, e), NEW x \in DOMAIN n
  PROVE  /\ n[x] \in NodeSet /\ e[x] \in 0 .. Width /\ x \in Obj /\ x # Null
         /\ n[x].part \in Key /\ n[x].part \in Nat /\ n[x].len \in 0 .. Width
         /\ n[x].next \in [0 .. 1 -> Obj \cup {Null}] /\ n[x].data \in Obj \cup {Null}
<1>1. n[x] \in NodeSet /\ e[x] \in 0 .. Width /\ x \in Obj
  BY DEF Shape, Typed
<1>2. n[x].part \in Key
  BY <1>1 DEF NodeSet
<1> QED BY <1>1, <1>2, NullIs, OverEnds DEF NodeSet

(* Where a walk for k can be. *)
Start(r) == [at |-> r, parent |-> Null, off |-> Width - 1]
Spots(n) == [at : DOMAIN n \cup {Null}, parent : DOMAIN n \cup {Null}, off : Int]
Past(n, e, k, w) ==
  /\ w.parent \in DOMAIN n /\ e[w.parent] > 0 /\ Below(n, e, w.parent, k)
  /\ w.off = e[w.parent] - 1 /\ w.at = n[w.parent].next[Bit(k, w.off)]
Positions(n, r, e, k) == {w \in Spots(n) : w = Start(r) \/ Past(n, e, k, w)}

LEMMA SpotIs ==
  ASSUME NEW n, NEW r, NEW e, Shape(n, r, e), NEW k \in Key, NEW w \in Positions(n, r, e, k),
         w.at # Null
  PROVE  /\ w.at \in DOMAIN n
         /\ Equal(n, w, k) <=> Below(n, e, w.at, k)
         /\ w.off - n[w.at].len = e[w.at] - 1
         /\ GoesOn(n, w, k) <=> Below(n, e, w.at, k) /\ e[w.at] > 0
<1>1. w.at \in DOMAIN n /\ w \in Spots(n)
  BY DEF Positions, Spots
<1>2. PICK x \in DOMAIN n : x = w.at
  BY <1>1
<1>3. PICK p \in Nat, i \in 0 .. Width, l \in 0 .. Width : p = n[x].part /\ i = e[x] /\ l = n[x].len
  BY NodeIs
<1>4. k \in Nat /\ p \in Nat
  BY OverEnds
<1>5. \E top \in 0 .. Width : /\ i <= top /\ w.off = top - 1 /\ l = top - i
                              /\ Over(p, top) = Over(k, top)
  <2>1. CASE w = Start(r)
    <3>1. x = r /\ w.off = Width - 1
      BY <1>2, <2>1 DEF Start
    <3>2. i = Width /\ l = 0
      BY <1>3, <3>1 DEF Shape, Typed
    <3>3. Over(p, Width) = 0 /\ Over(k, Width) = 0
      BY <1>3, NodeIs, OverEnds
    <3> QED BY <3>1, <3>2, <3>3, WidthIs
  <2>2. CASE Past(n, e, k, w)
    <3>1. PICK q \in DOMAIN n : q = w.parent /\ e[q] > 0 /\ Below(n, e, q, k) /\ w.off = e[q] - 1
      BY <2>2 DEF Past
    <3>0. e[q] \in 0 .. Width
      BY NodeIs
    <3>2. k \in Nat /\ w.off \in 0 .. Width /\ e[q] \in 0 .. Width
      BY <1>4, <3>0, <3>1, WidthIs
    <3>3. Bit(k, w.off) \in 0 .. 1 /\ n[q].next[Bit(k, w.off)] = x
      BY <1>2, <2>2, <3>1, <3>2, BitIs DEF Past
    <3>4. Child(n, r, e, q, Bit(k, w.off), x)
      BY <1>2, <3>3 DEF Shape, Linked
    <3>5. i < e[q] /\ l = e[q] - i /\ Over(p, e[q]) = Over(n[q].part, e[q])
      BY <1>3, <3>4 DEF Child, Below
    <3> QED BY <3>1, <3>2, <3>5 DEF Below
  <2> QED BY <2>1, <2>2 DEF Positions
<1>6. PICK top \in 0 .. Width : i <= top /\ w.off = top - 1 /\ l = top - i /\ Over(p, top) = Over(k, top)
  BY <1>5
<1>7. i \in 0 .. top
  BY <1>6
<1>8. BinCmp(p, k, top - 1, top - i) = -1 <=> Over(p, i) = Over(k, i)
  BY <1>4, <1>6, <1>7, BinCmpIs
<1>9. Equal(n, w, k) <=> Below(n, e, w.at, k)
  BY <1>2, <1>3, <1>6, <1>8 DEF Equal, Below
<1>10. w.off - l = i - 1 /\ (w.off >= l <=> i > 0)
  BY <1>6
<1> QED BY <1>1, <1>2, <1>3, <1>9, <1>10 DEF GoesOn

LEMMA DownIs ==
  ASSUME NEW n, NEW r, NEW e, Shape(n, r, e), NEW k \in Key, NEW w \in Positions(n, r, e, k),
         GoesOn(n, w, k)
  PROVE  LET v == Down(n, w, k)
         IN  /\ v \in Positions(n, r, e, k) /\ Past(n, e, k, v) /\ v.parent = w.at
             /\ v.at # Null => e[v.at] < e[w.at]
<1> DEFINE v == Down(n, w, k)
<1>1. w.at # Null
  BY DEF GoesOn
<1>2. PICK x \in DOMAIN n : x = w.at /\ Below(n, e, x, k) /\ e[x] > 0 /\ w.off - n[x].len = e[x] - 1
  BY <1>1, SpotIs
<1>3. v = [at |-> n[x].next[Bit(k, e[x] - 1)], parent |-> x, off |-> e[x] - 1]
  BY <1>2 DEF Down
<1>4. e[x] \in 0 .. Width /\ k \in Nat /\ e[x] - 1 \in 0 .. Width
  <2>1. e[x] \in 0 .. Width
    BY NodeIs
  <2> QED BY <1>2, <2>1, WidthIs, OverEnds
<1>5. PICK b \in 0 .. 1 : b = Bit(k, e[x] - 1)
  BY <1>4, BitIs
<1>6. n[x].next[b] # Null => n[x].next[b] \in DOMAIN n /\ e[n[x].next[b]] < e[x]
  BY DEF Shape, Linked, Child
<1>7. v \in Spots(n)
  BY <1>3, <1>4, <1>5, <1>6 DEF Spots
<1>8. Past(n, e, k, v)
  BY <1>2, <1>3 DEF Past
<1> HIDE DEF v
<1> QED BY <1>2, <1>3, <1>5, <1>6, <1>7, <1>8 DEF Positions, v

\* g has the turns of the loop.
Turns(g, n, r, k) ==
  /\ g[0] = Start(r)
  /\ \A i \in 1 .. Width + 1 :
       g[i] = IF GoesOn(n, g[i - 1], k) THEN Down(n, g[i - 1], k) ELSE g[i - 1]

LEMMA WalkTurns ==
  ASSUME NEW n, NEW r, NEW e, Shape(n, r, e), NEW k \in Key
  PROVE  \E g \in [0 .. Width + 1 -> Positions(n, r, e, k)] :
           Turns(g, n, r, k) /\ Walk(n, r, k) = g[Width + 1]
<1> DEFINE X == Positions(n, r, e, k)
           N == Width + 1
           F(w) == IF GoesOn(n, w, k) THEN Down(n, w, k) ELSE w
           f == [z \in (1 .. N) \X X |-> F(z[2])]
           Body(c) == [i \in 0 .. N |-> IF i = 0 THEN Start(r) ELSE F(c[i - 1])]
           c == CHOOSE g : g = Body(g)
<1>1. N \in Nat
  BY WidthIs
<1>2. Start(r) \in X
  BY WidthIs DEF Start, Positions, Spots, Shape, Typed
<1>3. ASSUME NEW w \in X PROVE F(w) \in X
  BY DownIs
<1>4. f \in [(1 .. N) \X X -> X]
  <2>1. ASSUME NEW z \in (1 .. N) \X X PROVE F(z[2]) \in X
    <3>1. z[2] \in X
      OBVIOUS
    <3> HIDE DEF X, F
    <3> QED BY <1>3, <3>1
  <2> HIDE DEF X, F
  <2> QED BY <2>1
<1>5. PICK g : Iterates(g, f, Start(r), N, X)
  <2> HIDE DEF N, f, X
  <2> QED BY <1>1, <1>2, <1>4, Iterate
<1>6. g \in [0 .. N -> X] /\ g[0] = Start(r) /\ \A i \in 1 .. N : g[i] = F(g[i - 1])
  <2>1. g \in [0 .. N -> X] /\ g[0] = Start(r) /\ \A i \in 1 .. N : g[i] = f[<<i, g[i - 1]>>]
    <3> HIDE DEF N, f, X
    <3> QED BY <1>5 DEF Iterates
  <2>2. ASSUME NEW i \in 1 .. N PROVE g[i] = F(g[i - 1])
    <3>1. i - 1 \in 0 .. N
      BY <1>1
    <3> HIDE DEF N, X, F
    <3>2. g[i - 1] \in X
      BY <2>1, <3>1
    <3>3. <<i, g[i - 1]>> \in (1 .. N) \X X
      BY <3>2
    <3>4. f[<<i, g[i - 1]>>] = F(g[i - 1])
      BY <3>3
    <3> QED BY <2>1, <3>4
  <2> QED BY <2>1, <2>2
<1>7. g = Body(g)
  <2>1. \A i \in 0 .. N : g[i] = IF i = 0 THEN Start(r) ELSE F(g[i - 1])
    <3> HIDE DEF X, F
    <3> QED BY <1>1, <1>6
  <2> HIDE DEF X, F
  <2> QED BY <1>6, <2>1
<1>8. c = Body(c)
  <2> HIDE DEF Body
  <2> QED BY <1>7
<1>9. \A i \in 0 .. N : c[i] = IF i = 0 THEN Start(r) ELSE F(c[i - 1])
  <2> HIDE DEF c, F, N
  <2> QED BY <1>8
<1> DEFINE T == {i \in 0 .. N : c[i] = g[i]}
<1>10. 0 .. N \subseteq T
  <2> HIDE DEF c, F, X, N
  <2>1. 0 \in T
    <3>1. 0 \in 0 .. N
      BY <1>1
    <3>2. c[0] = g[0]
      BY <1>6, <1>9, <3>1
    <3> QED BY <3>1, <3>2
  <2>2. ASSUME NEW i \in 1 .. N, i - 1 \in T PROVE i \in T
    BY <1>1, <1>6, <1>9, <2>2
  <2> HIDE DEF T
  <2> QED BY <1>1, <2>1, <2>2, UpTo
<1>11. c[N] = g[N]
  <2> HIDE DEF c, F, X, N
  <2> QED BY <1>1, <1>10
<1>12. Walk(n, r, k) = c[N]
  BY DEF Walk, Start
<1> QED BY <1>6, <1>11, <1>12 DEF Turns

(* The loop ends: every turn has less bits below. *)
LEMMA TurnsEnd ==
  ASSUME NEW n, NEW r, NEW e, Shape(n, r, e), NEW k \in Key,
         NEW g \in [0 .. Width + 1 -> Positions(n, r, e, k)], Turns(g, n, r, k)
  PROVE  ~GoesOn(n, g[Width + 1], k)
<1> DEFINE T == {i \in 0 .. Width + 1 : GoesOn(n, g[i], k) => e[g[i].at] <= Width - i}
<1>1. Width + 1 \in Nat
  BY WidthIs
<1>2. 0 \in T
  <2>1. g[0].at = r /\ e[r] = Width
    BY DEF Turns, Start, Shape, Typed
  <2>2. 0 \in 0 .. Width + 1 /\ Width <= Width - 0
    BY <1>1, WidthIs
  <2> QED BY <2>1, <2>2
<1>3. ASSUME NEW i \in 1 .. Width + 1, i - 1 \in T PROVE i \in T
  <2>1. i \in 0 .. Width + 1 /\ i - 1 \in 0 .. Width + 1
    BY <1>1
  <2>2. SUFFICES ASSUME GoesOn(n, g[i], k) PROVE e[g[i].at] <= Width - i
    BY <2>1
  <2>3. g[i - 1] \in Positions(n, r, e, k) /\ g[i] \in Positions(n, r, e, k)
    BY <2>1
  <2>4. g[i] = IF GoesOn(n, g[i - 1], k) THEN Down(n, g[i - 1], k) ELSE g[i - 1]
    BY DEF Turns
  <2>5. GoesOn(n, g[i - 1], k) /\ g[i] = Down(n, g[i - 1], k)
    BY <2>2, <2>4
  <2>6. g[i].at # Null /\ g[i - 1].at # Null
    BY <2>2, <2>5 DEF GoesOn
  <2>7. e[g[i].at] < e[g[i - 1].at]
    BY <2>3, <2>5, <2>6, DownIs
  <2>8. e[g[i - 1].at] <= Width - (i - 1)
    BY <1>3, <2>5
  <2>9. g[i].at \in DOMAIN n /\ g[i - 1].at \in DOMAIN n
    BY <2>3, <2>6, SpotIs
  <2>10. e[g[i].at] \in 0 .. Width /\ e[g[i - 1].at] \in 0 .. Width
    BY <2>9, NodeIs
  <2> QED BY <2>7, <2>8, <2>10, WidthIs
<1>4. Width + 1 \in T
  <2>1. Width + 1 \in 0 .. Width + 1
    BY <1>1
  <2> HIDE DEF T
  <2> QED BY <1>1, <1>2, <1>3, <2>1, UpTo
<1>5. ASSUME GoesOn(n, g[Width + 1], k) PROVE FALSE
  <2>1. e[g[Width + 1].at] <= Width - (Width + 1)
    BY <1>4, <1>5
  <2>2. g[Width + 1] \in Positions(n, r, e, k) /\ g[Width + 1].at # Null
    BY <1>1, <1>5 DEF GoesOn
  <2>3. g[Width + 1].at \in DOMAIN n
    BY <2>2, SpotIs
  <2>4. e[g[Width + 1].at] \in 0 .. Width
    BY <2>3, NodeIs
  <2> QED BY <2>1, <2>4, WidthIs
<1> QED BY <1>5

(* Where it ends it stays. *)
Stops(g, i, n, k) == ~GoesOn(n, g[i], k)
StaysAt(g, i) == g[Width + 1] = g[i]

LEMMA TurnsStay ==
  ASSUME NEW n, NEW r, NEW k, NEW g, Turns(g, n, r, k),
         NEW i \in 0 .. Width + 1, Stops(g, i, n, k)
  PROVE  StaysAt(g, i)
<1> DEFINE T == {d \in 0 .. Width + 1 - i : g[i + d] = g[i]}
<1>1. Width + 1 - i \in Nat /\ i \in Nat
  BY WidthIs
<1>2. 0 \in T
  BY <1>1
<1>3. ASSUME NEW d \in 1 .. Width + 1 - i, d - 1 \in T PROVE d \in T
  <2>1. i + d \in 1 .. Width + 1 /\ (i + d) - 1 = i + (d - 1)
    BY <1>1, WidthIs
  <2>2. g[i + (d - 1)] = g[i]
    BY <1>3
  <2>3. g[i + d] = g[i]
    BY <2>1, <2>2 DEF Turns, Stops
  <2> QED BY <2>3
<1>4. Width + 1 - i \in T
  <2>1. Width + 1 - i \in 0 .. Width + 1 - i
    BY <1>1
  <2> HIDE DEF T
  <2> QED BY <1>1, <1>2, <1>3, <2>1, UpTo
<1>5. i + (Width + 1 - i) = Width + 1
  BY WidthIs
<1> QED BY <1>4, <1>5 DEF StaysAt

(* A key that is below a child is below its parent, on the child's side. *)
LEMMA BelowUp ==
  ASSUME NEW n, NEW r, NEW e, Shape(n, r, e), NEW x \in DOMAIN n, NEW b, NEW y,
         Child(n, r, e, x, b, y), NEW k \in Nat, Below(n, e, y, k)
  PROVE  Below(n, e, x, k) /\ Bit(k, e[x] - 1) = b
<1>1. y \in DOMAIN n /\ e[y] < e[x]
  BY DEF Child
<1>2. PICK i \in 0 .. Width, j \in 0 .. Width : i = e[y] /\ j = e[x]
  BY <1>1, NodeIs
<1>3. PICK p \in Nat : p = n[y].part
  BY <1>1, NodeIs
<1>4. i \in 0 .. j /\ j - 1 \in i .. j - 1
  BY <1>1, <1>2
<1>5. Over(k, i) = Over(p, i)
  BY <1>2, <1>3 DEF Below
<1>6. Over(k, j) = Over(p, j) /\ \A t \in i .. j - 1 : Bit(k, t) = Bit(p, t)
  BY <1>4, <1>5, OverBits
<1>7. Over(p, j) = Over(n[x].part, j) /\ Bit(p, j - 1) = b
  BY <1>2, <1>3 DEF Child, Below
<1> QED BY <1>2, <1>4, <1>6, <1>7 DEF Below

(* A walk comes to every node that its key is below. *)
Meets(g, z) == \E i \in 0 .. Width : g[i].at = z

LEMMA TurnsReach ==
  ASSUME NEW n, NEW r, NEW e, Shape(n, r, e), NEW k \in Key,
         NEW g \in [0 .. Width + 1 -> Positions(n, r, e, k)], Turns(g, n, r, k),
         NEW z \in DOMAIN n, Below(n, e, z, k)
  PROVE  Meets(g, z)
<1> DEFINE T == {j \in 0 .. Width : \A x \in DOMAIN n :
                   Below(n, e, x, k) /\ e[x] >= Width - j => \E i \in 0 .. j : g[i].at = x}
<1>0. Width \in Nat /\ k \in Nat
  BY WidthIs, OverEnds
<1>1. 0 \in T
  <2> SUFFICES ASSUME NEW x \in DOMAIN n, e[x] >= Width PROVE \E i \in 0 .. 0 : g[i].at = x
    BY <1>0
  <2>1. e[x] \in 0 .. Width
    BY NodeIs
  <2>2. x = r
    BY <1>0, <2>1 DEF Shape, Branched
  <2>3. g[0].at = r
    BY DEF Turns, Start
  <2> QED BY <2>2, <2>3
<1>2. ASSUME NEW j \in 1 .. Width, j - 1 \in T PROVE j \in T
  <2> SUFFICES ASSUME NEW x \in DOMAIN n, Below(n, e, x, k), e[x] >= Width - j
               PROVE  \E i \in 0 .. j : g[i].at = x
    BY <1>0
  <2>1. CASE x = r
    <3>1. g[0].at = r
      BY DEF Turns, Start
    <3> QED BY <2>1, <3>1
  <2>2. CASE x # r
    <3>1. PICK q \in DOMAIN n, b \in 0 .. 1 : n[q].next[b] = x
      BY <2>2 DEF Shape, Parented
    <3>2. x # Null
      BY NodeIs
    <3>3. Child(n, r, e, q, b, x)
      BY <3>1, <3>2 DEF Shape, Linked
    <3>4. Below(n, e, q, k) /\ Bit(k, e[q] - 1) = b
      BY <1>0, <3>3, BelowUp
    <3>5. e[x] \in 0 .. Width /\ e[q] \in 0 .. Width /\ e[x] < e[q]
      BY <3>3, NodeIs DEF Child
    <3>6. e[q] >= Width - (j - 1) /\ e[q] > 0
      BY <1>0, <3>5
    <3>7. PICK i \in 0 .. j - 1 : g[i].at = q
      BY <1>2, <3>4, <3>6
    <3>8. i \in 0 .. Width + 1 /\ i + 1 \in 1 .. Width + 1 /\ (i + 1) - 1 = i /\ i + 1 \in 0 .. j
      BY <1>0
    <3>9. g[i] \in Positions(n, r, e, k) /\ g[i].at # Null
      BY <3>7, <3>8, NodeIs
    <3>10. GoesOn(n, g[i], k) /\ g[i].off - n[q].len = e[q] - 1
      BY <3>4, <3>6, <3>7, <3>9, SpotIs
    <3>11. g[i + 1] = Down(n, g[i], k)
      BY <3>8, <3>10 DEF Turns
    <3>12. g[i + 1].at = x
      BY <3>1, <3>4, <3>7, <3>10, <3>11 DEF Down
    <3> QED BY <3>8, <3>12
  <2> QED BY <2>1, <2>2
<1>3. Width \in T
  <2>1. Width \in 0 .. Width
    BY <1>0
  <2> HIDE DEF T
  <2> QED BY <1>0, <1>1, <1>2, <2>1, UpTo
<1>4. e[z] >= Width - Width
  <2>1. e[z] \in 0 .. Width
    BY NodeIs
  <2> QED BY <1>0, <2>1
<1> QED BY <1>3, <1>4 DEF Meets

(* A leaf has all bits. *)
LEMMA LeafBelow ==
  ASSUME NEW n, NEW r, NEW e, Shape(n, r, e), NEW k \in Key, NEW x \in DOMAIN n, e[x] = 0
  PROVE  Below(n, e, x, k) <=> n[x].part = k
<1>1. Over(k, 0) = k /\ Over(n[x].part, 0) = n[x].part
  BY NodeIs, OverEnds
<1> QED BY <1>1 DEF Below

(* Where a walk ends: at the leaf of its key, if there is one. *)
LEMMA RadixWalkIs ==
  ASSUME NEW n, NEW r, NEW e, Shape(n, r, e), NEW k \in Key
  PROVE  LET w == Walk(n, r, k)
         IN  /\ w \in Positions(n, r, e, k) /\ ~GoesOn(n, w, k)
             /\ \A x \in DOMAIN n : e[x] = 0 /\ n[x].part = k => w.at = x
<1>1. PICK g \in [0 .. Width + 1 -> Positions(n, r, e, k)] :
        Turns(g, n, r, k) /\ Walk(n, r, k) = g[Width + 1]
  BY WalkTurns
<1>0. Turns(g, n, r, k)
  BY <1>1
<1>2. g[Width + 1] \in Positions(n, r, e, k)
  BY WidthIs
<1>3. ~GoesOn(n, g[Width + 1], k)
  BY <1>1, TurnsEnd
<1>4. ASSUME NEW x \in DOMAIN n, e[x] = 0, n[x].part = k PROVE g[Width + 1].at = x
  <2>1. Below(n, e, x, k)
    BY <1>4, LeafBelow
  <2>2. PICK i \in 0 .. Width : g[i].at = x
    <3>1. Meets(g, x)
      BY <1>0, <2>1, TurnsReach
    <3> QED BY <3>1 DEF Meets
  <2>3. i \in 0 .. Width + 1
    BY WidthIs
  <2>4. g[i] \in Positions(n, r, e, k) /\ g[i].at # Null
    BY <2>2, <2>3, NodeIs
  <2>5. ~GoesOn(n, g[i], k)
    BY <1>4, <2>2, <2>4, SpotIs
  <2>6. StaysAt(g, i)
    <3>1. Stops(g, i, n, k)
      BY <2>5 DEF Stops
    <3> QED BY <1>0, <2>3, <3>1, TurnsStay
  <2> QED BY <2>2, <2>6 DEF StaysAt
<1> QED BY <1>1, <1>2, <1>3, <1>4

(* From a node above a leaf the leaf's side has a child above it, or the leaf. *)
LEMMA TowardLeaf ==
  ASSUME NEW n, NEW r, NEW e, Shape(n, r, e), NEW k \in Key, NEW l \in DOMAIN n,
         e[l] = 0, n[l].part = k, NEW x \in DOMAIN n, e[x] > 0, Below(n, e, x, k)
  PROVE  LET y == n[x].next[Bit(k, e[x] - 1)]
         IN  y # Null /\ Below(n, e, y, k)
<1>1. PICK g \in [0 .. Width + 1 -> Positions(n, r, e, k)] :
        Turns(g, n, r, k) /\ Walk(n, r, k) = g[Width + 1]
  BY WalkTurns
<1>0. Turns(g, n, r, k)
  BY <1>1
<1>2. PICK i \in 0 .. Width : g[i].at = x
  <2>1. Meets(g, x)
    BY <1>0, TurnsReach
  <2> QED BY <2>1 DEF Meets
<1>3. i \in 0 .. Width + 1 /\ i + 1 \in 1 .. Width + 1 /\ (i + 1) - 1 = i /\ i + 1 \in 0 .. Width + 1
  BY WidthIs
<1>4. g[i] \in Positions(n, r, e, k) /\ g[i].at # Null
  BY <1>2, <1>3, NodeIs
<1>5. GoesOn(n, g[i], k) /\ g[i].off - n[x].len = e[x] - 1
  BY <1>2, <1>4, SpotIs
<1>6. g[i + 1] = Down(n, g[i], k)
  BY <1>1, <1>3, <1>5 DEF Turns
<1>7. PICK y : y = n[x].next[Bit(k, e[x] - 1)]
  OBVIOUS
<1>8. g[i + 1].at = y
  BY <1>2, <1>5, <1>6, <1>7 DEF Down
<1>9. g[i + 1] \in Positions(n, r, e, k)
  BY <1>3
<1>10. g[Width + 1].at = l /\ l # Null
  BY <1>1, RadixWalkIs, NodeIs
<1>11. CASE GoesOn(n, g[i + 1], k)
  <2>1. y # Null
    BY <1>8, <1>11 DEF GoesOn
  <2> QED BY <1>7, <1>8, <1>9, <1>11, <2>1, SpotIs
<1>12. CASE ~GoesOn(n, g[i + 1], k)
  <2>1. StaysAt(g, i + 1)
    <3>1. Stops(g, i + 1, n, k)
      BY <1>12 DEF Stops
    <3> QED BY <1>0, <1>3, <3>1, TurnsStay
  <2>2. y = l
    BY <1>8, <1>10, <2>1 DEF StaysAt
  <2> QED BY <1>7, <1>10, <2>2, LeafBelow
<1> QED BY <1>11, <1>12

\* The keys of the tree with their data.
Leaf(n) == {x \in DOMAIN n : n[x].data # Null}
Pairs(n) == {<<n[x].part, n[x].data>> : x \in Leaf(n)}

LEMMA LeafIs ==
  ASSUME NEW n, NEW r, NEW e, Shape(n, r, e), NEW x \in DOMAIN n
  PROVE  /\ x \in Leaf(n) <=> e[x] = 0
         /\ x \in Leaf(n) => x # r
<1>1. CASE x = r
  BY <1>1, WidthIs DEF Shape, Typed, Leaf
<1>2. CASE x # r
  BY <1>2 DEF Shape, Branched, Leaf
<1> QED BY <1>1, <1>2

LEMMA LeafOne ==
  ASSUME NEW n, NEW r, NEW e, Shape(n, r, e), NEW x \in Leaf(n), NEW y \in Leaf(n),
         n[x].part = n[y].part
  PROVE  x = y
<1>1. x \in DOMAIN n /\ y \in DOMAIN n
  BY DEF Leaf
<1>2. e[x] = 0 /\ e[y] = 0 /\ n[x].part \in Key
  BY <1>1, LeafIs, NodeIs
<1>3. Walk(n, r, n[x].part).at = x
  BY <1>1, <1>2, RadixWalkIs
<1>4. Walk(n, r, n[x].part).at = y
  BY <1>1, <1>2, RadixWalkIs
<1> QED BY <1>3, <1>4

(* binradix_find finds a key's data, and nothing for a key that is not there. *)
LEMMA RadixFindIs ==
  ASSUME NEW n, NEW r, NEW e, Shape(n, r, e), NEW k \in Key
  PROVE  /\ \A x \in Leaf(n) : n[x].part = k => RadixFind(n, r, k) = n[x].data
         /\ (\A x \in Leaf(n) : n[x].part # k) => RadixFind(n, r, k) = None
<1>1. PICK w : w = Walk(n, r, k)
  OBVIOUS
<1>2. w \in Positions(n, r, e, k) /\ ~GoesOn(n, w, k)
  BY <1>1, RadixWalkIs
<1>3. ASSUME NEW x \in Leaf(n), n[x].part = k PROVE RadixFind(n, r, k) = n[x].data
  <2>1. x \in DOMAIN n /\ e[x] = 0
    BY <1>3, LeafIs DEF Leaf
  <2>2. w.at = x /\ w.at # Null
    BY <1>1, <1>3, <2>1, RadixWalkIs, NodeIs
  <2>3. Equal(n, w, k)
    BY <1>2, <1>3, <2>1, <2>2, SpotIs, LeafBelow
  <2> QED BY <1>1, <2>2, <2>3 DEF RadixFind
<1>4. ASSUME \A x \in Leaf(n) : n[x].part # k PROVE ~(w.at # Null /\ Equal(n, w, k))
  <2> SUFFICES ASSUME w.at # Null, Equal(n, w, k) PROVE FALSE
    OBVIOUS
  <2>1. w.at \in DOMAIN n /\ Below(n, e, w.at, k)
    BY <1>2, SpotIs
  <2>2. ~(e[w.at] > 0)
    BY <1>2, <2>1, SpotIs
  <2>3. e[w.at] \in 0 .. Width
    BY <2>1, NodeIs
  <2>4. e[w.at] = 0
    BY <2>2, <2>3, WidthIs
  <2>5. w.at \in Leaf(n) /\ n[w.at].part = k
    BY <2>1, <2>4, LeafIs, LeafBelow
  <2> QED BY <1>4, <2>5
<1> QED BY <1>1, <1>3, <1>4 DEF RadixFind

-----------------------------------------------------------------------------
(* The radix tree: insertion                                               *)

LEMMA OneParent ==
  ASSUME NEW n, NEW r, NEW e, Shape(n, r, e), NEW x \in DOMAIN n, NEW z \in DOMAIN n,
         NEW b \in 0 .. 1, NEW c \in 0 .. 1,
         n[x].next[b] # Null, n[x].next[b] = n[z].next[c]
  PROVE  x = z /\ b = c
  BY DEF Shape, Parented

\* m is n with node x split at bit d: a has what was in x, a2 the new key.
Forked(m, n, e, x, p, d, k, a, a2, data) ==
  /\ DOMAIN m = DOMAIN n \cup {a, a2}
  /\ \A y \in DOMAIN n \ {x} : m[y] = n[y]
  /\ /\ m[x].part = n[x].part /\ m[x].len = e[p] - 1 - d /\ m[x].data = Null
     /\ m[x].next = [c \in 0 .. 1 |-> IF c = Bit(k, d) THEN a2 ELSE a]
  /\ /\ m[a].part = n[x].part /\ m[a].len = n[x].len - (e[p] - 1 - d)
     /\ m[a].data = n[x].data /\ m[a].next = n[x].next
  /\ /\ m[a2].part = k /\ m[a2].len = d + 1 /\ m[a2].data = data
     /\ m[a2].next = [c \in 0 .. 1 |-> Null]
  /\ \A y \in {x, a, a2} : m[y] = [next |-> m[y].next, part |-> m[y].part,
                                   len |-> m[y].len, data |-> m[y].data]

\* The bits below each node then.
ForkBits(n, e, x, d, a, a2) ==
  [y \in DOMAIN n \cup {a, a2} |->
     IF y = x THEN d + 1 ELSE IF y = a THEN e[x] ELSE IF y = a2 THEN 0 ELSE e[y]]

\* Where x can be split.
Splits(n, r, e, x, p, b, d, k) ==
  /\ x \in DOMAIN n \ {r} /\ p \in DOMAIN n /\ b \in 0 .. 1 /\ n[p].next[b] = x
  /\ d \in Nat /\ e[x] <= d /\ d < e[p] - 1 /\ k \in Key
  /\ Over(k, d + 1) = Over(n[x].part, d + 1) /\ Bit(k, d) # Bit(n[x].part, d)

Fresh(n, a, a2) == a \in Obj \ DOMAIN n /\ a2 \in Obj \ DOMAIN n /\ a # a2

LEMMA ForkTyped ==
  ASSUME NEW n, NEW r, NEW e, Shape(n, r, e), NEW x, NEW p, NEW b, NEW d, NEW k,
         Splits(n, r, e, x, p, b, d, k), NEW a, NEW a2, Fresh(n, a, a2), NEW data \in Obj,
         NEW m, m = [y \in DOMAIN m |-> m[y]], Forked(m, n, e, x, p, d, k, a, a2, data)
  PROVE  Typed(m, r, ForkBits(n, e, x, d, a, a2)) /\ Branched(m, r, ForkBits(n, e, x, d, a, a2))
<1> DEFINE f == ForkBits(n, e, x, d, a, a2)
<1>1. /\ x \in DOMAIN n /\ x # r /\ p \in DOMAIN n /\ d \in Nat /\ e[x] <= d /\ d < e[p] - 1
      /\ k \in Key
  BY DEF Splits
<1>2. r \in DOMAIN n /\ e \in [DOMAIN n -> 0 .. Width] /\ DOMAIN n \subseteq Obj
  BY DEF Shape, Typed
<1>3. a \in Obj /\ a2 \in Obj /\ a \notin DOMAIN n /\ a2 \notin DOMAIN n /\ a # a2
  BY DEF Fresh
<1>4. Child(n, r, e, p, b, x)
  BY <1>1, NodeIs DEF Splits, Shape, Linked
<1>5. PICK i \in 0 .. Width, j \in 0 .. Width : i = e[x] /\ j = e[p] /\ i <= d /\ d < j - 1
  BY <1>1, <1>2
<1>6. PICK l \in 0 .. Width : l = n[x].len /\ l = j - i
  BY <1>1, <1>4, <1>5, NodeIs DEF Child
<1>7. /\ f \in [DOMAIN m -> 0 .. Width] /\ f[r] = Width
      /\ f[x] = d + 1 /\ f[a] = i /\ f[a2] = 0 /\ d + 1 \in 0 .. Width
      /\ \A y \in DOMAIN n \ {x} : f[y] = e[y]
  <2>1. DOMAIN m = DOMAIN n \cup {a, a2}
    BY DEF Forked
  <2>2. d + 1 \in 0 .. Width /\ 0 \in 0 .. Width
    BY <1>1, <1>5, WidthIs
  <2>3. e[r] = Width
    BY DEF Shape, Typed
  <2> QED BY <1>1, <1>2, <1>3, <1>5, <2>1, <2>2, <2>3 DEF ForkBits
<1>8. m[x] \in NodeSet /\ m[a] \in NodeSet /\ m[a2] \in NodeSet
  <2>1. n[x].part \in Key /\ n[x].next \in [0 .. 1 -> Obj \cup {Null}] /\ n[x].data \in Obj \cup {Null}
    BY <1>1, NodeIs
  <2>2. e[p] - 1 - d \in 0 .. Width /\ n[x].len - (e[p] - 1 - d) \in 0 .. Width /\ d + 1 \in 0 .. Width
    BY <1>1, <1>5, <1>6, WidthIs
  <2>3. /\ [c \in 0 .. 1 |-> IF c = Bit(k, d) THEN a2 ELSE a] \in [0 .. 1 -> Obj \cup {Null}]
        /\ [c \in 0 .. 1 |-> Null] \in [0 .. 1 -> Obj \cup {Null}]
    BY <1>3
  <2>4. m[x] \in NodeSet
    <3>1. m[x] = [next |-> m[x].next, part |-> m[x].part, len |-> m[x].len, data |-> m[x].data]
      BY DEF Forked
    <3>2. /\ m[x].part \in Key /\ m[x].len \in 0 .. Width /\ m[x].data \in Obj \cup {Null}
          /\ m[x].next \in [0 .. 1 -> Obj \cup {Null}]
      BY <2>1, <2>2, <2>3 DEF Forked
    <3> QED BY <3>1, <3>2 DEF NodeSet
  <2>5. m[a] \in NodeSet
    <3>1. m[a] = [next |-> m[a].next, part |-> m[a].part, len |-> m[a].len, data |-> m[a].data]
      BY DEF Forked
    <3>2. /\ m[a].part \in Key /\ m[a].len \in 0 .. Width /\ m[a].data \in Obj \cup {Null}
          /\ m[a].next \in [0 .. 1 -> Obj \cup {Null}]
      BY <2>1, <2>2 DEF Forked
    <3> QED BY <3>1, <3>2 DEF NodeSet
  <2>6. m[a2] \in NodeSet
    <3>1. m[a2] = [next |-> m[a2].next, part |-> m[a2].part, len |-> m[a2].len, data |-> m[a2].data]
      BY DEF Forked
    <3>2. /\ m[a2].part \in Key /\ m[a2].len \in 0 .. Width /\ m[a2].data \in Obj \cup {Null}
          /\ m[a2].next \in [0 .. 1 -> Obj \cup {Null}]
      BY <1>1, <2>2, <2>3 DEF Forked
    <3> QED BY <3>1, <3>2 DEF NodeSet
  <2> QED BY <2>4, <2>5, <2>6
<1>9. DOMAIN m = DOMAIN n \cup {a, a2} /\ \A y \in DOMAIN n \ {x} : m[y] = n[y]
  BY DEF Forked
<1>10. \A y \in DOMAIN m : m[y] \in NodeSet
  <2>1. \A y \in DOMAIN n : n[y] \in NodeSet
    BY NodeIs
  <2> QED BY <1>8, <1>9, <2>1
<1>11. m[r].len = 0 /\ m[r].data = Null
  BY <1>1, <1>2, <1>9 DEF Shape, Typed
<1> HIDE DEF f
<1>12. Typed(m, r, f)
  <2>1. m \in [DOMAIN m -> NodeSet]
    BY <1>10
  <2>2. DOMAIN m \subseteq Obj /\ r \in DOMAIN m
    BY <1>2, <1>3, <1>9
  <2> QED BY <1>7, <1>11, <2>1, <2>2 DEF Typed
<1>13. ASSUME NEW y \in DOMAIN m \ {r}
       PROVE  /\ f[y] < Width
              /\ f[y] = 0 => m[y].data # Null /\ \A c \in 0 .. 1 : m[y].next[c] = Null
              /\ f[y] # 0 => m[y].data = Null /\ \A c \in 0 .. 1 : m[y].next[c] # Null
  <2>0. Null \notin Obj
    BY NullIs
  <2>1. CASE y \in DOMAIN n \ {x}
    BY <1>7, <1>9, <2>1 DEF Shape, Branched
  <2>2. CASE y = x
    <3>1. d + 1 < Width /\ d + 1 # 0
      BY <1>1, <1>5, WidthIs
    <3> QED BY <1>3, <1>7, <2>0, <2>2, <3>1 DEF Forked
  <2>3. CASE y = a
    <3>1. /\ e[x] < Width
          /\ e[x] = 0 => n[x].data # Null /\ \A c \in 0 .. 1 : n[x].next[c] = Null
          /\ e[x] # 0 => n[x].data = Null /\ \A c \in 0 .. 1 : n[x].next[c] # Null
      BY <1>1 DEF Shape, Branched
    <3> QED BY <1>5, <1>7, <2>3, <3>1 DEF Forked
  <2>4. CASE y = a2
    BY <1>7, <2>0, <2>4, WidthIs DEF Forked
  <2> QED BY <1>9, <2>1, <2>2, <2>3, <2>4
<1>14. Branched(m, r, f)
  BY <1>13 DEF Branched
<1> QED BY <1>12, <1>14 DEF f

LEMMA ForkLinked ==
  ASSUME NEW n, NEW r, NEW e, Shape(n, r, e), NEW x, NEW p, NEW b, NEW d, NEW k,
         Splits(n, r, e, x, p, b, d, k), NEW a, NEW a2, Fresh(n, a, a2), NEW data \in Obj,
         NEW m, Forked(m, n, e, x, p, d, k, a, a2, data)
  PROVE  Linked(m, r, ForkBits(n, e, x, d, a, a2))
<1> DEFINE f == ForkBits(n, e, x, d, a, a2)
<1>1. /\ x \in DOMAIN n /\ x # r /\ p \in DOMAIN n /\ b \in 0 .. 1 /\ n[p].next[b] = x
      /\ d \in Nat /\ e[x] <= d /\ d < e[p] - 1 /\ k \in Key
      /\ Over(k, d + 1) = Over(n[x].part, d + 1) /\ Bit(k, d) # Bit(n[x].part, d)
  BY DEF Splits
<1>2. r \in DOMAIN n /\ \A y \in DOMAIN n : e[y] \in 0 .. Width /\ n[y].part \in Nat /\ y # Null
  BY NodeIs DEF Shape, Typed
<1>3. a \in Obj /\ a2 \in Obj /\ a \notin DOMAIN n /\ a2 \notin DOMAIN n /\ a # a2
  BY DEF Fresh
<1>4. Child(n, r, e, p, b, x)
  BY <1>1, <1>2 DEF Shape, Linked
<1>5. PICK i \in 0 .. Width, j \in 0 .. Width : i = e[x] /\ j = e[p] /\ i <= d /\ d < j - 1
  BY <1>1, <1>2
<1>6. n[x].len = j - i
  BY <1>4, <1>5 DEF Child
<1>7. /\ f[x] = d + 1 /\ f[a] = i /\ f[a2] = 0
      /\ \A y \in DOMAIN n \ {x} : f[y] = e[y]
  BY <1>1, <1>3, <1>5 DEF ForkBits
<1>8. /\ DOMAIN m = DOMAIN n \cup {a, a2} /\ \A y \in DOMAIN n \ {x} : m[y] = n[y]
      /\ m[x].part = n[x].part /\ m[x].len = j - 1 - d
      /\ m[x].next = [c \in 0 .. 1 |-> IF c = Bit(k, d) THEN a2 ELSE a]
      /\ m[a].part = n[x].part /\ m[a].len = n[x].len - (j - 1 - d) /\ m[a].next = n[x].next
      /\ m[a2].part = k /\ m[a2].len = d + 1 /\ m[a2].next = [c \in 0 .. 1 |-> Null]
  BY <1>5 DEF Forked
<1>9. \A y \in DOMAIN n : m[y].part = n[y].part
  BY <1>8
<1>10. d \in 0 .. Width /\ k \in Nat
  BY <1>1, <1>5, OverEnds, WidthIs
<1>11. Bit(k, d) \in 0 .. 1 /\ Bit(n[x].part, d) \in 0 .. 1
  BY <1>1, <1>2, <1>10, BitIs
<1> HIDE DEF f
<1>12. ASSUME NEW y \in DOMAIN m, NEW c \in 0 .. 1, NEW z, z = m[y].next[c], z # Null
       PROVE  Child(m, r, f, y, c, z)
  <2>1. CASE y \in DOMAIN n \ {x}
    <3>1. z = n[y].next[c] /\ Child(n, r, e, y, c, z)
      BY <1>8, <1>12, <2>1 DEF Shape, Linked
    <3>2. /\ z \in DOMAIN n \ {r} /\ e[z] < e[y] /\ n[z].len = e[y] - e[z]
          /\ Over(n[z].part, e[y]) = Over(n[y].part, e[y]) /\ Bit(n[z].part, e[y] - 1) = c
      BY <3>1 DEF Child, Below
    <3>3. f[y] = e[y] /\ m[y].part = n[y].part /\ m[z].part = n[z].part
      BY <1>7, <1>9, <2>1, <3>2
    <3>4. z \in DOMAIN m \ {r}
      BY <1>8, <3>2
    <3>5. f[z] < f[y] /\ m[z].len = f[y] - f[z]
      <4>1. CASE z = x
        <5>1. y = p
          <6>1. y \in DOMAIN n /\ n[y].next[c] # Null /\ n[y].next[c] = n[p].next[b]
            BY <1>1, <1>12, <2>1, <3>1, <4>1
          <6> QED BY <1>1, <6>1, OneParent
        <5> QED BY <1>1, <1>5, <1>7, <1>8, <3>3, <4>1, <5>1
      <4>2. CASE z # x
        BY <1>7, <1>8, <3>2, <3>3, <4>2
      <4> QED BY <4>1, <4>2
    <3> QED BY <3>2, <3>3, <3>4, <3>5 DEF Child, Below
  <2>2. CASE y = x
    <3>1. CASE c = Bit(k, d)
      <4>1. z = a2 /\ a2 \in DOMAIN m \ {r}
        BY <1>2, <1>3, <1>8, <1>12, <2>2, <3>1
      <4>2. f[z] < f[y] /\ m[z].len = f[y] - f[z]
        BY <1>1, <1>7, <1>8, <2>2, <4>1
      <4>3. m[z].part = k /\ f[y] = d + 1 /\ m[y].part = n[x].part /\ f[y] - 1 = d
        BY <1>1, <1>7, <1>8, <2>2, <4>1
      <4> QED BY <1>1, <3>1, <4>1, <4>2, <4>3 DEF Child, Below
    <3>2. CASE c # Bit(k, d)
      <4>1. z = a /\ a \in DOMAIN m \ {r}
        BY <1>2, <1>3, <1>8, <1>12, <2>2, <3>2
      <4>2. f[z] < f[y] /\ m[z].len = f[y] - f[z]
        BY <1>1, <1>5, <1>6, <1>7, <1>8, <2>2, <4>1
      <4>3. m[z].part = n[x].part /\ f[y] = d + 1 /\ m[y].part = n[x].part /\ f[y] - 1 = d
        BY <1>1, <1>7, <1>8, <2>2, <4>1
      <4>4. Bit(n[x].part, d) = c
        BY <1>1, <1>11, <3>2
      <4> QED BY <4>1, <4>2, <4>3, <4>4 DEF Child, Below
    <3> QED BY <3>1, <3>2
  <2>3. CASE y = a
    <3>1. z = n[x].next[c] /\ Child(n, r, e, x, c, z)
      BY <1>1, <1>8, <1>12, <2>3 DEF Shape, Linked
    <3>2. /\ z \in DOMAIN n \ {r} /\ e[z] < e[x] /\ n[z].len = e[x] - e[z]
          /\ Over(n[z].part, e[x]) = Over(n[x].part, e[x]) /\ Bit(n[z].part, e[x] - 1) = c
      BY <3>1 DEF Child, Below
    <3>3. z # x /\ z \in DOMAIN m \ {r}
      BY <1>2, <1>8, <3>2
    <3>4. f[y] = e[x] /\ f[z] = e[z] /\ m[y].part = n[x].part /\ m[z] = n[z]
      BY <1>5, <1>7, <1>8, <2>3, <3>2, <3>3
    <3> QED BY <3>2, <3>3, <3>4 DEF Child, Below
  <2>4. CASE y = a2
    BY <1>8, <1>12, <2>4
  <2> QED BY <1>8, <2>1, <2>2, <2>3, <2>4
<1> QED BY <1>12 DEF Linked, f

LEMMA ForkParented ==
  ASSUME NEW n, NEW r, NEW e, Shape(n, r, e), NEW x, NEW p, NEW b, NEW d, NEW k,
         Splits(n, r, e, x, p, b, d, k), NEW a, NEW a2, Fresh(n, a, a2), NEW data \in Obj,
         NEW m, Forked(m, n, e, x, p, d, k, a, a2, data)
  PROVE  Parented(m, r)
<1>1. /\ x \in DOMAIN n /\ d \in Nat /\ d < e[p] - 1 /\ p \in DOMAIN n /\ k \in Key
  BY DEF Splits
<1>2. a \notin DOMAIN n /\ a2 \notin DOMAIN n /\ a # a2 /\ a # Null /\ a2 # Null
  BY NullIs DEF Fresh
<1>3. /\ DOMAIN m = DOMAIN n \cup {a, a2} /\ \A y \in DOMAIN n \ {x} : m[y] = n[y]
      /\ m[x].next = [c \in 0 .. 1 |-> IF c = Bit(k, d) THEN a2 ELSE a]
      /\ m[a].next = n[x].next
      /\ m[a2].next = [c \in 0 .. 1 |-> Null]
  BY DEF Forked
<1>4. Bit(k, d) \in 0 .. 1
  <2>1. e[p] \in 0 .. Width
    BY <1>1, NodeIs
  <2>2. d \in 0 .. Width /\ k \in Nat
    BY <1>1, <2>1, WidthIs, OverEnds
  <2> QED BY <2>2, BitIs
<1>5. ASSUME NEW z \in DOMAIN m \ {r}
      PROVE  \E y \in DOMAIN m, c \in 0 .. 1 : m[y].next[c] = z
  <2>1. CASE z = a
    <3>1. PICK c \in 0 .. 1 : c # Bit(k, d)
      BY <1>4
    <3>2. m[x].next[c] = a /\ x \in DOMAIN m
      BY <1>1, <1>3, <3>1
    <3> QED BY <2>1, <3>2
  <2>2. CASE z = a2
    <3>1. m[x].next[Bit(k, d)] = a2 /\ x \in DOMAIN m
      BY <1>1, <1>3, <1>4
    <3> QED BY <1>4, <2>2, <3>1
  <2>3. CASE z \in DOMAIN n \ {r}
    <3>1. PICK y \in DOMAIN n, c \in 0 .. 1 : n[y].next[c] = z
      BY <2>3 DEF Shape, Parented
    <3>2. CASE y = x
      <4>1. m[a].next[c] = z /\ a \in DOMAIN m
        BY <1>3, <3>1, <3>2
      <4> QED BY <4>1
    <3>3. CASE y # x
      <4>1. m[y].next[c] = z /\ y \in DOMAIN m
        BY <1>3, <3>1, <3>3
      <4> QED BY <4>1
    <3> QED BY <3>2, <3>3
  <2> QED BY <1>3, <2>1, <2>2, <2>3
<1> DEFINE old(y) == IF y = a THEN x ELSE y
<1>6. ASSUME NEW y \in DOMAIN m, NEW c \in 0 .. 1, m[y].next[c] # Null
      PROVE  \/ y = x /\ m[y].next[c] \notin DOMAIN n
             \/ y # x /\ m[y].next[c] \in DOMAIN n /\ old(y) \in DOMAIN n
                      /\ m[y].next[c] = n[old(y)].next[c]
  <2>1. CASE y = x
    BY <1>2, <1>3, <2>1
  <2>2. CASE y = a
    <3>1. m[y].next[c] = n[x].next[c] /\ old(y) = x /\ y # x
      BY <1>1, <1>2, <1>3, <2>2
    <3>2. n[x].next[c] \in DOMAIN n
      BY <1>1, <1>6, <3>1 DEF Shape, Linked, Child
    <3> QED BY <1>1, <3>1, <3>2
  <2>3. CASE y \in DOMAIN n \ {x}
    <3>1. m[y].next[c] = n[y].next[c] /\ old(y) = y
      BY <1>2, <1>3, <2>3
    <3>2. n[y].next[c] \in DOMAIN n
      BY <1>6, <2>3, <3>1 DEF Shape, Linked, Child
    <3> QED BY <2>3, <3>1, <3>2
  <2>4. CASE y = a2
    BY <1>3, <1>6, <2>4
  <2> QED BY <1>3, <2>1, <2>2, <2>3, <2>4
<1>7. ASSUME NEW y \in DOMAIN m, NEW z \in DOMAIN m, NEW c \in 0 .. 1, NEW g \in 0 .. 1,
             m[y].next[c] # Null, m[y].next[c] = m[z].next[g]
      PROVE  y = z /\ c = g
  <2>1. CASE y = x
    <3>1. z = x
      BY <1>6, <1>7, <2>1
    <3> QED BY <1>2, <1>3, <1>4, <1>7, <2>1, <3>1
  <2>2. CASE y # x
    <3>1. /\ old(y) \in DOMAIN n /\ m[y].next[c] = n[old(y)].next[c]
          /\ z # x /\ old(z) \in DOMAIN n /\ m[z].next[g] = n[old(z)].next[g]
      BY <1>6, <1>7, <2>2
    <3>2. old(y) = old(z) /\ c = g
      <4>1. PICK u \in DOMAIN n, v \in DOMAIN n : u = old(y) /\ v = old(z)
        BY <3>1
      <4>2. n[u].next[c] # Null /\ n[u].next[c] = n[v].next[g]
        BY <1>7, <3>1, <4>1
      <4> QED BY <4>1, <4>2, OneParent
    <3> QED BY <2>2, <3>1, <3>2
  <2> QED BY <2>1, <2>2
<1> QED BY <1>5, <1>7 DEF Parented

LEMMA ForkIs ==
  ASSUME NEW n, NEW r, NEW e, Shape(n, r, e), NEW x, NEW p, NEW b, NEW d, NEW k,
         Splits(n, r, e, x, p, b, d, k), NEW a, NEW a2, Fresh(n, a, a2), NEW data \in Obj,
         NEW m, m = [y \in DOMAIN m |-> m[y]], Forked(m, n, e, x, p, d, k, a, a2, data)
  PROVE  /\ \E f : Shape(m, r, f)
         /\ Pairs(m) = Pairs(n) \cup {<<k, data>>}
<1>1. Shape(m, r, ForkBits(n, e, x, d, a, a2))
  BY ForkTyped, ForkLinked, ForkParented DEF Shape
<1>2. /\ DOMAIN m = DOMAIN n \cup {a, a2} /\ \A y \in DOMAIN n \ {x} : m[y] = n[y]
      /\ m[x].data = Null
      /\ m[a].part = n[x].part /\ m[a].data = n[x].data
      /\ m[a2].part = k /\ m[a2].data = data
  BY DEF Forked
<1>3. a \notin DOMAIN n /\ a2 \notin DOMAIN n /\ a # a2 /\ x \in DOMAIN n /\ data # Null
  BY NullIs DEF Fresh, Splits
<1>4. ASSUME NEW q \in Pairs(m) PROVE q \in Pairs(n) \cup {<<k, data>>}
  <2>1. PICK y \in DOMAIN m : m[y].data # Null /\ q = <<m[y].part, m[y].data>>
    BY DEF Pairs, Leaf
  <2>2. CASE y = a
    BY <1>2, <1>3, <2>1, <2>2 DEF Pairs, Leaf
  <2>3. CASE y = a2
    BY <1>2, <2>1, <2>3
  <2>4. CASE y \in DOMAIN n \ {x}
    BY <1>2, <2>1, <2>4 DEF Pairs, Leaf
  <2> QED BY <1>2, <2>1, <2>2, <2>3, <2>4
<1>5. ASSUME NEW q \in Pairs(n) PROVE q \in Pairs(m)
  <2>1. PICK y \in DOMAIN n : n[y].data # Null /\ q = <<n[y].part, n[y].data>>
    BY DEF Pairs, Leaf
  <2>2. CASE y = x
    <3>1. a \in Leaf(m) /\ q = <<m[a].part, m[a].data>>
      BY <1>2, <2>1, <2>2 DEF Leaf
    <3> QED BY <3>1 DEF Pairs
  <2>3. CASE y # x
    <3>1. y \in Leaf(m) /\ q = <<m[y].part, m[y].data>>
      BY <1>2, <2>1, <2>3 DEF Leaf
    <3> QED BY <3>1 DEF Pairs
  <2> QED BY <2>2, <2>3
<1>6. <<k, data>> \in Pairs(m)
  <2>1. a2 \in Leaf(m)
    BY <1>2, <1>3 DEF Leaf
  <2> QED BY <1>2, <2>1 DEF Pairs
<1> QED BY <1>1, <1>4, <1>5, <1>6

\* m is n with a leaf a on side b of the root.
Hung(m, n, r, b, k, a, data) ==
  /\ DOMAIN m = DOMAIN n \cup {a}
  /\ \A y \in DOMAIN n \ {r} : m[y] = n[y]
  /\ m[r].part = n[r].part /\ m[r].len = n[r].len /\ m[r].data = n[r].data
  /\ m[r].next = [n[r].next EXCEPT ![b] = a]
  /\ m[a].part = k /\ m[a].len = Width /\ m[a].data = data /\ m[a].next = [c \in 0 .. 1 |-> Null]
  /\ \A y \in {r, a} : m[y] = [next |-> m[y].next, part |-> m[y].part,
                               len |-> m[y].len, data |-> m[y].data]

LEMMA HangIs ==
  ASSUME NEW n, NEW r, NEW e, Shape(n, r, e), NEW b \in 0 .. 1, NEW k \in Key,
         b = Bit(k, Width - 1), n[r].next[b] = Null, NEW a \in Obj \ DOMAIN n, NEW data \in Obj,
         NEW m, m = [y \in DOMAIN m |-> m[y]], Hung(m, n, r, b, k, a, data)
  PROVE  /\ \E f : Shape(m, r, f)
         /\ Pairs(m) = Pairs(n) \cup {<<k, data>>}
<1> DEFINE f == [y \in DOMAIN m |-> IF y = a THEN 0 ELSE e[y]]
<1>1. /\ r \in DOMAIN n /\ e \in [DOMAIN n -> 0 .. Width] /\ DOMAIN n \subseteq Obj /\ e[r] = Width
      /\ n[r].len = 0 /\ n[r].data = Null
  BY DEF Shape, Typed
<1>2. /\ DOMAIN m = DOMAIN n \cup {a} /\ \A y \in DOMAIN n \ {r} : m[y] = n[y]
      /\ m[r].part = n[r].part /\ m[r].len = 0 /\ m[r].data = Null
      /\ m[r].next = [n[r].next EXCEPT ![b] = a]
      /\ m[a].part = k /\ m[a].len = Width /\ m[a].data = data
      /\ m[a].next = [c \in 0 .. 1 |-> Null]
  BY <1>1 DEF Hung
<1>3. Null \notin Obj /\ a # Null /\ a # r /\ data # Null
  BY <1>1, NullIs
<1>4. n[r].next \in [0 .. 1 -> Obj \cup {Null}] /\ n[r].part \in Key /\ n[r].part \in Nat
  BY <1>1, NodeIs
<1>5. /\ f \in [DOMAIN m -> 0 .. Width] /\ f[a] = 0 /\ f[r] = Width
      /\ \A y \in DOMAIN n : f[y] = e[y]
  BY <1>1, <1>2, <1>3, WidthIs
<1>6. \A y \in DOMAIN m : m[y] \in NodeSet
  <2>1. \A y \in DOMAIN n : n[y] \in NodeSet
    BY NodeIs
  <2>2. m[r] \in NodeSet
    <3>1. m[r] = [next |-> m[r].next, part |-> m[r].part, len |-> m[r].len, data |-> m[r].data]
      BY DEF Hung
    <3>2. /\ m[r].part \in Key /\ m[r].len \in 0 .. Width /\ m[r].data \in Obj \cup {Null}
          /\ m[r].next \in [0 .. 1 -> Obj \cup {Null}]
      BY <1>2, <1>4, WidthIs
    <3> QED BY <3>1, <3>2 DEF NodeSet
  <2>3. m[a] \in NodeSet
    <3>1. m[a] = [next |-> m[a].next, part |-> m[a].part, len |-> m[a].len, data |-> m[a].data]
      BY DEF Hung
    <3>2. /\ m[a].part \in Key /\ m[a].len \in 0 .. Width /\ m[a].data \in Obj \cup {Null}
          /\ m[a].next \in [0 .. 1 -> Obj \cup {Null}]
      BY <1>2, WidthIs
    <3> QED BY <3>1, <3>2 DEF NodeSet
  <2> QED BY <1>2, <2>1, <2>2, <2>3
<1> HIDE DEF f
<1>7. Typed(m, r, f)
  <2>1. m \in [DOMAIN m -> NodeSet] /\ DOMAIN m \subseteq Obj /\ r \in DOMAIN m
    BY <1>1, <1>2, <1>6
  <2> QED BY <1>2, <1>5, <2>1 DEF Typed
<1>8. Branched(m, r, f)
  <2> SUFFICES ASSUME NEW y \in DOMAIN m \ {r}
               PROVE  /\ f[y] < Width
                      /\ f[y] = 0 => m[y].data # Null /\ \A c \in 0 .. 1 : m[y].next[c] = Null
                      /\ f[y] # 0 => m[y].data = Null /\ \A c \in 0 .. 1 : m[y].next[c] # Null
    BY DEF Branched
  <2>1. CASE y = a
    BY <1>2, <1>3, <1>5, <2>1, WidthIs
  <2>2. CASE y \in DOMAIN n \ {r}
    BY <1>2, <1>5, <2>2 DEF Shape, Branched
  <2> QED BY <1>2, <2>1, <2>2
<1>9. ASSUME NEW y \in DOMAIN m, NEW c \in 0 .. 1, m[y].next[c] # Null
      PROVE  \/ y = r /\ c = b /\ m[y].next[c] = a
             \/ /\ y \in DOMAIN n /\ m[y].next[c] = n[y].next[c]
                /\ n[y].next[c] \in DOMAIN n /\ Child(n, r, e, y, c, n[y].next[c])
  <2>1. CASE y = a
    BY <1>2, <1>9, <2>1
  <2>2. CASE y = r /\ c = b
    BY <1>2, <1>4, <2>2
  <2>3. CASE y \in DOMAIN n /\ ~(y = r /\ c = b)
    <3>1. m[y].next[c] = n[y].next[c]
      <4>1. CASE y = r
        BY <1>2, <1>4, <2>3, <4>1
      <4>2. CASE y # r
        BY <1>2, <2>3, <4>2
      <4> QED BY <4>1, <4>2
    <3>2. Child(n, r, e, y, c, n[y].next[c])
      BY <1>9, <2>3, <3>1 DEF Shape, Linked
    <3> QED BY <2>3, <3>1, <3>2 DEF Child
  <2> QED BY <1>2, <2>1, <2>2, <2>3
<1>10. \A y \in DOMAIN n : m[y].part = n[y].part /\ m[y].len = n[y].len
  BY <1>1, <1>2
<1>11. Linked(m, r, f)
  <2> SUFFICES ASSUME NEW y \in DOMAIN m, NEW c \in 0 .. 1, m[y].next[c] # Null
               PROVE  Child(m, r, f, y, c, m[y].next[c])
    BY DEF Linked
  <2>1. CASE y = r /\ c = b /\ m[y].next[c] = a
    <3>1. Over(k, Width) = Over(n[r].part, Width)
      BY <1>4, OverEnds
    <3>2. a \in DOMAIN m \ {r} /\ f[a] < f[r] /\ m[a].len = f[r] - f[a]
      BY <1>2, <1>3, <1>5, WidthIs
    <3> QED BY <1>2, <1>5, <2>1, <3>1, <3>2 DEF Child, Below
  <2>2. CASE /\ y \in DOMAIN n /\ m[y].next[c] = n[y].next[c]
             /\ n[y].next[c] \in DOMAIN n /\ Child(n, r, e, y, c, n[y].next[c])
    <3>1. PICK z \in DOMAIN n : z = n[y].next[c]
      BY <2>2
    <3>2. Child(n, r, e, y, c, z)
      BY <2>2, <3>1
    <3>3. Child(m, r, f, y, c, z)
      BY <1>2, <1>5, <1>10, <2>2, <3>2 DEF Child, Below
    <3> QED BY <2>2, <3>1, <3>3
  <2> QED BY <1>9, <2>1, <2>2
<1>12. Parented(m, r)
  <2>1. ASSUME NEW z \in DOMAIN m \ {r}
        PROVE  \E y \in DOMAIN m, c \in 0 .. 1 : m[y].next[c] = z
    <3>1. CASE z = a
      <4>1. m[r].next[b] = a /\ r \in DOMAIN m
        BY <1>1, <1>2, <1>4
      <4> QED BY <3>1, <4>1
    <3>2. CASE z \in DOMAIN n \ {r}
      <4>1. PICK y \in DOMAIN n, c \in 0 .. 1 : n[y].next[c] = z
        BY <3>2 DEF Shape, Parented
      <4>2. z # Null
        BY <3>2, NodeIs
      <4>3. m[y].next[c] = z
        BY <1>2, <1>4, <4>1, <4>2
      <4> QED BY <1>2, <4>1, <4>3
    <3> QED BY <1>2, <3>1, <3>2
  <2>2. ASSUME NEW y \in DOMAIN m, NEW z \in DOMAIN m, NEW c \in 0 .. 1, NEW g \in 0 .. 1,
               m[y].next[c] # Null, m[y].next[c] = m[z].next[g]
        PROVE  y = z /\ c = g
    <3>1. CASE m[y].next[c] = a
      <4>1. y = r /\ c = b
        BY <1>9, <2>2, <3>1
      <4>2. m[z].next[g] = a /\ m[z].next[g] # Null
        BY <2>2, <3>1
      <4>3. z = r /\ g = b
        BY <1>9, <4>2
      <4> QED BY <4>1, <4>3
    <3>2. CASE m[y].next[c] # a
      <4>1. y \in DOMAIN n /\ m[y].next[c] = n[y].next[c]
        BY <1>9, <2>2, <3>2
      <4>2. m[z].next[g] # a /\ m[z].next[g] # Null
        BY <2>2, <3>2
      <4>3. z \in DOMAIN n /\ m[z].next[g] = n[z].next[g]
        BY <1>9, <4>2
      <4>4. n[y].next[c] # Null /\ n[y].next[c] = n[z].next[g]
        BY <2>2, <4>1, <4>3
      <4> QED BY <4>1, <4>3, <4>4, OneParent
    <3> QED BY <3>1, <3>2
  <2> QED BY <2>1, <2>2 DEF Parented
<1>13. Shape(m, r, f)
  BY <1>7, <1>8, <1>11, <1>12 DEF Shape
<1>14. Leaf(m) = Leaf(n) \cup {a} /\ \A y \in Leaf(n) : m[y] = n[y]
  <2>1. r \notin Leaf(n)
    BY <1>1 DEF Leaf
  <2> QED BY <1>1, <1>2, <1>3, <2>1 DEF Leaf
<1>15. Pairs(m) = Pairs(n) \cup {<<k, data>>}
  BY <1>2, <1>14 DEF Pairs
<1> QED BY <1>13, <1>15

(* Where a key that is not in the tree leaves it. *)
LEMMA LeavesAt ==
  ASSUME NEW n, NEW r, NEW e, Shape(n, r, e), NEW k \in Key, \A x \in Leaf(n) : n[x].part # k,
         NEW w, w = Walk(n, r, k)
  PROVE  \/ /\ w.at = Null /\ w.parent = r /\ w.off = Width - 1
            /\ n[r].next[Bit(k, Width - 1)] = Null
         \/ /\ w.at # Null /\ w.off = e[w.parent] - 1
            /\ Splits(n, r, e, w.at, w.parent, Bit(k, w.off),
                      BinCmp(n[w.at].part, k, w.off, n[w.at].len), k)
<1>1. w \in Positions(n, r, e, k) /\ ~GoesOn(n, w, k)
  BY RadixWalkIs
<1>2. r \in DOMAIN n /\ r # Null /\ e[r] = Width
  BY NodeIs DEF Shape, Typed
<1>3. CASE w.at = Null
  <2>1. w # Start(r)
    BY <1>2, <1>3 DEF Start
  <2>2. PICK p \in DOMAIN n : p = w.parent /\ e[p] > 0 /\ w.off = e[p] - 1 /\ n[p].next[Bit(k, w.off)] = Null
    BY <1>1, <1>3, <2>1 DEF Positions, Past
  <2>3. e[p] \in 0 .. Width /\ k \in Nat
    BY NodeIs, OverEnds
  <2>4. w.off \in 0 .. Width
    BY <2>2, <2>3, WidthIs
  <2>5. Bit(k, w.off) \in 0 .. 1
    BY <2>3, <2>4, BitIs
  <2>6. p = r
    BY <2>2, <2>3, <2>5 DEF Shape, Branched
  <2> QED BY <1>2, <1>3, <2>2, <2>6
<1>4. CASE w.at # Null
  <2>1. PICK x \in DOMAIN n : x = w.at
    BY <1>1, <1>4, SpotIs
  <2>2. ~Below(n, e, x, k)
    <3> SUFFICES ASSUME Below(n, e, x, k) PROVE FALSE
      OBVIOUS
    <3>1. ~(e[x] > 0)
      BY <1>1, <1>4, <2>1, SpotIs
    <3>2. e[x] \in 0 .. Width
      BY NodeIs
    <3>3. e[x] = 0
      BY <3>1, <3>2, WidthIs
    <3> QED BY <3>3, LeafIs, LeafBelow
  <2>3. x # r
    <3>1. Over(k, Width) = 0 /\ Over(n[r].part, Width) = 0
      BY <1>2, NodeIs, OverEnds
    <3> QED BY <1>2, <2>2, <3>1 DEF Below
  <2>4. w # Start(r)
    BY <2>1, <2>3 DEF Start
  <2>5. PICK p \in DOMAIN n : /\ p = w.parent /\ e[p] > 0 /\ Below(n, e, p, k)
                              /\ w.off = e[p] - 1 /\ n[p].next[Bit(k, w.off)] = x
    BY <1>1, <2>1, <2>4 DEF Positions, Past
  <2>6. PICK i \in 0 .. Width, j \in 0 .. Width : i = e[x] /\ j = e[p]
    BY NodeIs
  <2>7. PICK q \in Nat : q = n[x].part
    BY NodeIs
  <2>8. k \in Nat /\ w.off = j - 1 /\ j - 1 \in 0 .. Width
    BY <2>5, <2>6, OverEnds, WidthIs
  <2>9. PICK b \in 0 .. 1 : b = Bit(k, j - 1)
    BY <2>8, BitIs
  <2>10. x # Null /\ n[p].next[b] = x
    BY <1>4, <2>1, <2>5, <2>8, <2>9
  <2>11. Child(n, r, e, p, b, x)
    BY <2>10 DEF Shape, Linked
  <2>12. i < j /\ n[x].len = j - i /\ Over(q, j) = Over(n[p].part, j) /\ Bit(q, j - 1) = b
    BY <2>6, <2>7, <2>11 DEF Child, Below
  <2>13. Over(q, j) = Over(k, j) /\ i \in 0 .. j
    BY <2>5, <2>6, <2>12 DEF Below
  <2>14. PICK d : d = BinCmp(q, k, j - 1, j - i)
    OBVIOUS
  <2>15. /\ d = -1 <=> Over(q, i) = Over(k, i)
         /\ d # -1 => d \in i .. j - 1 /\ Over(q, d + 1) = Over(k, d + 1) /\ Bit(q, d) # Bit(k, d)
    BY <2>8, <2>13, <2>14, BinCmpIs
  <2>16. d \in i .. j - 1 /\ Over(q, d + 1) = Over(k, d + 1) /\ Bit(q, d) # Bit(k, d)
    BY <2>2, <2>6, <2>7, <2>15 DEF Below
  <2>17. d # j - 1
    BY <2>9, <2>12, <2>16
  <2>18. d \in Nat /\ i <= d /\ d < j - 1
    BY <2>16, <2>17
  <2>19. Splits(n, r, e, x, p, b, d, k)
    BY <2>3, <2>6, <2>7, <2>10, <2>16, <2>18 DEF Splits
  <2>20. BinCmp(n[x].part, k, w.off, n[x].len) = d /\ Bit(k, w.off) = b
    BY <2>7, <2>8, <2>9, <2>12, <2>14
  <2> QED BY <1>4, <2>1, <2>5, <2>19, <2>20
<1> QED BY <1>3, <1>4

\* What a tree becomes that gets the key k.
Grows(m, n, r, k, data, new) ==
  /\ DOMAIN m = DOMAIN n \cup new /\ \E f : Shape(m, r, f)
  /\ Pairs(m) = Pairs(n) \cup {<<k, data>>}

\* The two ways to insert.
NoKey(n, k) == \A x \in Leaf(n) : n[x].part # k
Inserts(R, a, a2, n, r, k, data) ==
  \/ /\ R.s = a.s
     /\ a.obj \in Obj \ DOMAIN n => Grows(R.n, n, r, k, data, {a.obj})
  \/ /\ R.s = a2.s
     /\ Fresh(n, a.obj, a2.obj) => Grows(R.n, n, r, k, data, {a.obj, a2.obj})

(* binradix_insert of a key that is not there, with one new node or two. *)
LEMMA InsertIs ==
  ASSUME NEW n, NEW r, NEW e, Shape(n, r, e), NEW k \in Key, NoKey(n, k),
         NEW data \in Obj, NEW s, NEW a, a = ObjAlloc(s, "tree"),
         NEW a2, a2 = ObjAlloc(a.s, "tree"), NEW R, R = RadixInsert(s, n, r, k, data)
  PROVE  Inserts(R, a, a2, n, r, k, data)
<1>0. \A x \in Leaf(n) : n[x].part # k
  BY DEF NoKey
<1>1. PICK w : w = Walk(n, r, k)
  OBVIOUS
<1>2. CASE w.at = Null
  <2>1. w.parent = r /\ w.off = Width - 1 /\ n[r].next[Bit(k, Width - 1)] = Null
    BY <1>0, <1>1, <1>2, LeavesAt
  <2>2. PICK b \in 0 .. 1 : b = Bit(k, Width - 1)
    <3>1. k \in Nat /\ Width - 1 \in 0 .. Width
      BY OverEnds, WidthIs
    <3> QED BY <3>1, BitIs
  <2> DEFINE n1 == [n EXCEPT ![r].next[b] = a.obj]
             m == Put(n1, a.obj, Node(k, Width, data))
  <2>3. R = [s |-> a.s, n |-> m]
    <3>1. R = [s |-> a.s, n |-> Put([n EXCEPT ![w.parent].next[Bit(k, w.off)] = a.obj],
                                    a.obj, Node(k, w.off + 1, data))]
      BY <1>1, <1>2 DEF RadixInsert
    <3>2. w.off + 1 = Width
      BY <2>1, WidthIs
    <3> QED BY <2>1, <2>2, <3>1, <3>2
  <2>4. ASSUME a.obj \in Obj \ DOMAIN n PROVE Grows(m, n, r, k, data, {a.obj})
    <3>1. n \in [DOMAIN n -> NodeSet] /\ r \in DOMAIN n /\ a.obj # r
      BY <2>4 DEF Shape, Typed
    <3>2. n[r] \in NodeSet
      BY <3>1
    <3>3. /\ DOMAIN n1 = DOMAIN n /\ \A y \in DOMAIN n \ {r} : n1[y] = n[y]
          /\ n1[r] = [n[r] EXCEPT !.next[b] = a.obj]
      BY <3>1
    <3>4. /\ n1[r].part = n[r].part /\ n1[r].len = n[r].len /\ n1[r].data = n[r].data
          /\ n1[r].next = [n[r].next EXCEPT ![b] = a.obj]
          /\ n1[r] = [next |-> n1[r].next, part |-> n1[r].part, len |-> n1[r].len, data |-> n1[r].data]
      BY <3>2, <3>3 DEF NodeSet
    <3> HIDE DEF n1
    <3>5. /\ DOMAIN m = DOMAIN n \cup {a.obj} /\ \A y \in DOMAIN n : m[y] = n1[y]
          /\ m[a.obj] = Node(k, Width, data) /\ m = [y \in DOMAIN m |-> m[y]]
      BY <2>4, <3>3 DEF Put
    <3> HIDE DEF m
    <3>6. Hung(m, n, r, b, k, a.obj, data)
      BY <3>1, <3>3, <3>4, <3>5 DEF Hung, Node
    <3>7. (\E f : Shape(m, r, f)) /\ Pairs(m) = Pairs(n) \cup {<<k, data>>}
      BY <2>1, <2>2, <2>4, <3>5, <1>0, <3>6, HangIs
    <3> QED BY <3>5, <3>7 DEF Grows
  <2> HIDE DEF m
  <2> QED BY <2>3, <2>4 DEF Inserts
<1>3. CASE w.at # Null
  <2>1. PICK x, p, d : x = w.at /\ p = w.parent /\ d = BinCmp(n[x].part, k, w.off, n[x].len)
    OBVIOUS
  <2>2. PICK b : w.off = e[p] - 1 /\ Splits(n, r, e, x, p, b, d, k)
    BY <1>0, <1>1, <1>3, <2>1, LeavesAt
  <2> DEFINE v == n[x]
             rest == [v EXCEPT !.len = @ - (w.off - d)]
             fork == [next |-> [c \in 0 .. 1 |-> IF c = Bit(k, d) THEN a2.obj ELSE a.obj],
                      part |-> v.part, len |-> w.off - d, data |-> Null]
             n1 == Put(n, a.obj, rest)
             n2 == Put(n1, x, fork)
             m == Put(n2, a2.obj, Node(k, d + 1, data))
  <2>3. R = [s |-> a2.s, n |-> m]
    BY <1>1, <1>3, <2>1 DEF RadixInsert
  <2>4. ASSUME Fresh(n, a.obj, a2.obj) PROVE Grows(m, n, r, k, data, {a.obj, a2.obj})
    <3>1. x \in DOMAIN n /\ v \in NodeSet
      BY <2>2, NodeIs DEF Splits
    <3>2. a.obj \notin DOMAIN n /\ a2.obj \notin DOMAIN n /\ a.obj # a2.obj
      BY <2>4 DEF Fresh
    <3>3. /\ rest = [next |-> v.next, part |-> v.part, len |-> v.len - (w.off - d), data |-> v.data]
          /\ fork = [next |-> [c \in 0 .. 1 |-> IF c = Bit(k, d) THEN a2.obj ELSE a.obj],
                     part |-> v.part, len |-> w.off - d, data |-> Null]
      <4>1. v = [next |-> v.next, part |-> v.part, len |-> v.len, data |-> v.data]
        BY <3>1 DEF NodeSet
      <4> HIDE DEF v
      <4>2. rest = [next |-> v.next, part |-> v.part, len |-> v.len - (w.off - d), data |-> v.data]
        BY <4>1
      <4> QED BY <4>2
    <3> HIDE DEF rest, fork, v
    <3>4. /\ DOMAIN m = DOMAIN n \cup {a.obj, a2.obj} /\ \A y \in DOMAIN n \ {x} : m[y] = n[y]
          /\ m[x] = fork /\ m[a.obj] = rest /\ m[a2.obj] = Node(k, d + 1, data)
          /\ m = [y \in DOMAIN m |-> m[y]]
      <4>1. /\ DOMAIN n1 = DOMAIN n \cup {a.obj} /\ \A y \in DOMAIN n : n1[y] = n[y]
            /\ n1[a.obj] = rest
        BY <3>2 DEF Put
      <4> HIDE DEF n1
      <4>2. /\ DOMAIN n2 = DOMAIN n \cup {a.obj} /\ \A y \in DOMAIN n \ {x} : n2[y] = n[y]
            /\ n2[a.obj] = rest /\ n2[x] = fork
        BY <3>1, <3>2, <4>1 DEF Put
      <4> HIDE DEF n2
      <4> QED BY <3>1, <3>2, <4>2 DEF Put
    <3> HIDE DEF m
    <3>5. Forked(m, n, e, x, p, d, k, a.obj, a2.obj, data)
      <4>1. w.off - d = e[p] - 1 - d
        BY <2>2
      <4> QED BY <3>3, <3>4, <4>1 DEF Forked, Node, v
    <3>6. (\E f : Shape(m, r, f)) /\ Pairs(m) = Pairs(n) \cup {<<k, data>>}
      BY <2>2, <2>4, <3>4, <1>0, <3>5, ForkIs
    <3> QED BY <3>4, <3>6 DEF Grows
  <2> HIDE DEF m
  <2> QED BY <2>3, <2>4 DEF Inserts
<1> QED BY <1>2, <1>3

-----------------------------------------------------------------------------
(* The radix tree: deletion                                                *)

(* The walk for a key that is there: its leaf, and the parent's side. *)
LEMMA FoundAt ==
  ASSUME NEW n, NEW r, NEW e, Shape(n, r, e), NEW l \in Leaf(n), NEW w, w = Walk(n, r, n[l].part)
  PROVE  /\ w.at = l /\ l \in DOMAIN n \ {r} /\ w.parent \in DOMAIN n /\ e[w.parent] > 0
         /\ w.off = e[w.parent] - 1
         /\ \E b \in 0 .. 1 : /\ n[w.parent].next[b] = l
                              /\ b = IF n[w.parent].next[1] = l THEN 1 ELSE 0
<1>1. l \in DOMAIN n /\ e[l] = 0 /\ l # r /\ l # Null
  BY LeafIs, NodeIs DEF Leaf
<1>2. PICK k \in Key : k = n[l].part
  BY <1>1, NodeIs
<1>3. w \in Positions(n, r, e, k) /\ w.at = l
  BY <1>1, <1>2, RadixWalkIs
<1>4. w # Start(r)
  BY <1>1, <1>3 DEF Start
<1>5. PICK p \in DOMAIN n : p = w.parent /\ e[p] > 0 /\ w.off = e[p] - 1 /\ n[p].next[Bit(k, w.off)] = l
  BY <1>3, <1>4 DEF Positions, Past
<1>6. e[p] \in 0 .. Width /\ k \in Nat
  BY NodeIs, OverEnds
<1>7. w.off \in 0 .. Width
  BY <1>5, <1>6, WidthIs
<1>8. PICK b \in 0 .. 1 : b = Bit(k, w.off)
  BY <1>6, <1>7, BitIs
<1>9. n[p].next[b] = l /\ n[p].next[b] # Null
  BY <1>1, <1>5, <1>8
<1>10. b = IF n[p].next[1] = l THEN 1 ELSE 0
  <2>1. CASE n[p].next[1] = l
    <3>1. 1 \in 0 .. 1 /\ n[p].next[b] = n[p].next[1]
      BY <1>9, <2>1
    <3>2. b = 1
      BY <1>9, <3>1, OneParent
    <3> QED BY <2>1, <3>2
  <2>2. CASE n[p].next[1] # l
    <3>1. b # 1
      BY <1>9, <2>2
    <3> QED BY <2>2, <3>1
  <2> QED BY <2>1, <2>2
<1> QED BY <1>1, <1>3, <1>5, <1>9, <1>10

\* m is n without the leaf l on side b of the root.
Cut(m, n, r, b, l) ==
  /\ DOMAIN m = DOMAIN n \ {l}
  /\ \A y \in DOMAIN n \ {r, l} : m[y] = n[y]
  /\ m[r].part = n[r].part /\ m[r].len = n[r].len /\ m[r].data = n[r].data
  /\ m[r].next = [n[r].next EXCEPT ![b] = Null]
  /\ m[r] = [next |-> m[r].next, part |-> m[r].part, len |-> m[r].len, data |-> m[r].data]

(* The pairs without a leaf. *)
LEMMA PairsLess ==
  ASSUME NEW n, NEW r, NEW e, Shape(n, r, e), NEW l \in Leaf(n)
  PROVE  Pairs(n) \ {<<n[l].part, n[l].data>>} = {<<n[x].part, n[x].data>> : x \in Leaf(n) \ {l}}
<1>1. ASSUME NEW x \in Leaf(n) \ {l} PROVE <<n[x].part, n[x].data>> # <<n[l].part, n[l].data>>
  <2>1. n[x].part # n[l].part
    BY LeafOne
  <2> QED BY <2>1
<1> QED BY <1>1 DEF Pairs

LEMMA CutIs ==
  ASSUME NEW n, NEW r, NEW e, Shape(n, r, e), NEW b \in 0 .. 1, NEW l \in Leaf(n),
         n[r].next[b] = l, NEW m, m = [y \in DOMAIN m |-> m[y]], Cut(m, n, r, b, l)
  PROVE  /\ \E f : Shape(m, r, f)
         /\ Pairs(m) = Pairs(n) \ {<<n[l].part, n[l].data>>}
<1> DEFINE f == [y \in DOMAIN m |-> e[y]]
<1>1. /\ r \in DOMAIN n /\ e \in [DOMAIN n -> 0 .. Width] /\ DOMAIN n \subseteq Obj /\ e[r] = Width
      /\ n[r].len = 0 /\ n[r].data = Null
  BY DEF Shape, Typed
<1>2. l \in DOMAIN n /\ l # r /\ e[l] = 0 /\ l # Null
  BY LeafIs, NodeIs DEF Leaf
<1>3. /\ DOMAIN m = DOMAIN n \ {l} /\ \A y \in DOMAIN n \ {r, l} : m[y] = n[y]
      /\ m[r].part = n[r].part /\ m[r].len = 0 /\ m[r].data = Null
      /\ m[r].next = [n[r].next EXCEPT ![b] = Null]
  BY <1>1 DEF Cut
<1>4. n[r].next \in [0 .. 1 -> Obj \cup {Null}] /\ n[r].part \in Key /\ n[r].part \in Nat
  BY <1>1, NodeIs
<1>5. f \in [DOMAIN m -> 0 .. Width] /\ f[r] = Width /\ \A y \in DOMAIN m : f[y] = e[y]
  BY <1>1, <1>2, <1>3
<1>6. \A y \in DOMAIN m : m[y] \in NodeSet
  <2>1. \A y \in DOMAIN n : n[y] \in NodeSet
    BY NodeIs
  <2>2. m[r] \in NodeSet
    <3>1. m[r] = [next |-> m[r].next, part |-> m[r].part, len |-> m[r].len, data |-> m[r].data]
      BY DEF Cut
    <3>2. /\ m[r].part \in Key /\ m[r].len \in 0 .. Width /\ m[r].data \in Obj \cup {Null}
          /\ m[r].next \in [0 .. 1 -> Obj \cup {Null}]
      BY <1>3, <1>4, WidthIs
    <3> QED BY <3>1, <3>2 DEF NodeSet
  <2> QED BY <1>3, <2>1, <2>2
<1> HIDE DEF f
<1>7. Typed(m, r, f)
  <2>1. m \in [DOMAIN m -> NodeSet] /\ DOMAIN m \subseteq Obj /\ r \in DOMAIN m
    BY <1>1, <1>2, <1>3, <1>6
  <2> QED BY <1>3, <1>5, <2>1 DEF Typed
<1>8. Branched(m, r, f)
  <2> SUFFICES ASSUME NEW y \in DOMAIN m \ {r}
               PROVE  /\ f[y] < Width
                      /\ f[y] = 0 => m[y].data # Null /\ \A c \in 0 .. 1 : m[y].next[c] = Null
                      /\ f[y] # 0 => m[y].data = Null /\ \A c \in 0 .. 1 : m[y].next[c] # Null
    BY DEF Branched
  <2>1. y \in DOMAIN n \ {r} /\ m[y] = n[y] /\ f[y] = e[y]
    BY <1>3, <1>5
  <2> QED BY <2>1 DEF Shape, Branched
<1>9. ASSUME NEW y \in DOMAIN m, NEW c \in 0 .. 1, m[y].next[c] # Null
      PROVE  /\ y \in DOMAIN n /\ m[y].next[c] = n[y].next[c]
             /\ n[y].next[c] \in DOMAIN m /\ Child(n, r, e, y, c, n[y].next[c])
  <2>1. y \in DOMAIN n /\ ~(y = r /\ c = b)
    BY <1>3, <1>4, <1>9
  <2>2. m[y].next[c] = n[y].next[c]
    <3>1. CASE y = r
      BY <1>3, <1>4, <2>1, <3>1
    <3>2. CASE y # r
      BY <1>3, <2>1, <3>2
    <3> QED BY <3>1, <3>2
  <2>3. Child(n, r, e, y, c, n[y].next[c])
    BY <1>9, <2>1, <2>2 DEF Shape, Linked
  <2>4. n[y].next[c] # l
    <3> SUFFICES ASSUME n[y].next[c] = l PROVE FALSE
      OBVIOUS
    <3>1. n[y].next[c] # Null /\ n[y].next[c] = n[r].next[b]
      BY <1>2
    <3> QED BY <1>1, <2>1, <3>1, OneParent
  <2> QED BY <1>3, <2>1, <2>2, <2>3, <2>4 DEF Child
<1>10. \A y \in DOMAIN m : m[y].part = n[y].part /\ m[y].len = n[y].len
  BY <1>1, <1>3
<1>11. Linked(m, r, f)
  <2> SUFFICES ASSUME NEW y \in DOMAIN m, NEW c \in 0 .. 1, m[y].next[c] # Null
               PROVE  Child(m, r, f, y, c, m[y].next[c])
    BY DEF Linked
  <2>1. PICK z \in DOMAIN m : z = m[y].next[c] /\ Child(n, r, e, y, c, z)
    BY <1>9
  <2>2. Child(m, r, f, y, c, z)
    BY <1>3, <1>5, <1>10, <2>1 DEF Child, Below
  <2> QED BY <2>1, <2>2
<1>12. Parented(m, r)
  <2>1. ASSUME NEW z \in DOMAIN m \ {r}
        PROVE  \E y \in DOMAIN m, c \in 0 .. 1 : m[y].next[c] = z
    <3>1. z \in DOMAIN n \ {r} /\ z # l /\ z # Null
      BY <1>3, NodeIs
    <3>2. PICK y \in DOMAIN n, c \in 0 .. 1 : n[y].next[c] = z
      BY <3>1 DEF Shape, Parented
    <3>3. y # l
      <4>1. \A g \in 0 .. 1 : n[l].next[g] = Null
        BY <1>2 DEF Shape, Branched
      <4> QED BY <3>1, <3>2, <4>1
    <3>4. ~(y = r /\ c = b)
      BY <3>1, <3>2
    <3>5. m[y].next[c] = z
      <4>1. CASE y = r
        BY <1>3, <1>4, <3>2, <3>4, <4>1
      <4>2. CASE y # r
        BY <1>3, <3>2, <3>3, <4>2
      <4> QED BY <4>1, <4>2
    <3> QED BY <1>3, <3>2, <3>3, <3>5
  <2>2. ASSUME NEW y \in DOMAIN m, NEW z \in DOMAIN m, NEW c \in 0 .. 1, NEW g \in 0 .. 1,
               m[y].next[c] # Null, m[y].next[c] = m[z].next[g]
        PROVE  y = z /\ c = g
    <3>1. m[z].next[g] # Null
      BY <2>2
    <3>2. y \in DOMAIN n /\ z \in DOMAIN n /\ n[y].next[c] # Null /\ n[y].next[c] = n[z].next[g]
      BY <1>9, <2>2, <3>1
    <3> QED BY <3>2, OneParent
  <2> QED BY <2>1, <2>2 DEF Parented
<1>13. Shape(m, r, f)
  BY <1>7, <1>8, <1>11, <1>12 DEF Shape
<1>14. Leaf(m) = Leaf(n) \ {l} /\ \A y \in Leaf(m) : m[y] = n[y]
  <2>1. r \notin Leaf(n)
    BY <1>1 DEF Leaf
  <2> QED BY <1>1, <1>2, <1>3, <2>1 DEF Leaf
<1>15. Pairs(m) = Pairs(n) \ {<<n[l].part, n[l].data>>}
  <2>1. Pairs(m) = {<<n[x].part, n[x].data>> : x \in Leaf(n) \ {l}}
    BY <1>14 DEF Pairs
  <2> QED BY <2>1, PairsLess
<1> QED BY <1>13, <1>15

\* m is n without the leaf l of p: p becomes its other child s.
Merged(m, n, p, l, s) ==
  /\ DOMAIN m = DOMAIN n \ {l, s}
  /\ \A y \in DOMAIN n \ {p, l, s} : m[y] = n[y]
  /\ m[p].next = n[s].next /\ m[p].part = n[s].part /\ m[p].data = n[s].data
  /\ m[p].len = n[p].len + n[s].len
  /\ m[p] = [next |-> m[p].next, part |-> m[p].part, len |-> m[p].len, data |-> m[p].data]

\* Where that can be.
Merges(n, r, p, b, l, s) ==
  /\ p \in DOMAIN n \ {r} /\ b \in 0 .. 1 /\ l \in Leaf(n)
  /\ n[p].next[b] = l /\ n[p].next[1 - b] = s

(* The nodes of a merge. *)
LEMMA MergeNodes ==
  ASSUME NEW n, NEW r, NEW e, Shape(n, r, e), NEW p, NEW b, NEW l, NEW s, Merges(n, r, p, b, l, s)
  PROVE  /\ p \in DOMAIN n /\ l \in DOMAIN n /\ s \in DOMAIN n
         /\ p # r /\ l # r /\ s # r /\ p # l /\ p # s /\ l # s
         /\ e[l] = 0 /\ e[p] > 0 /\ p \notin Leaf(n) /\ Child(n, r, e, p, 1 - b, s)
         /\ \A y \in DOMAIN n, c \in 0 .. 1 : n[y].next[c] \in {l, s} => y = p
         /\ \A c \in 0 .. 1 : n[p].next[c] \in {l, s} /\ n[l].next[c] = Null
<1>1. /\ p \in DOMAIN n /\ p # r /\ b \in 0 .. 1 /\ l \in Leaf(n) /\ n[p].next[b] = l
      /\ n[p].next[1 - b] = s /\ 1 - b \in 0 .. 1
  BY DEF Merges
<1>2. l \in DOMAIN n /\ l # r /\ e[l] = 0 /\ l # Null
  BY <1>1, LeafIs, NodeIs DEF Leaf
<1>3. Child(n, r, e, p, b, l)
  BY <1>1, <1>2 DEF Shape, Linked
<1>4. e[p] \in 0 .. Width /\ e[p] > 0
  BY <1>1, <1>2, <1>3, NodeIs DEF Child
<1>5. s # Null
  BY <1>1, <1>4 DEF Shape, Branched
<1>6. Child(n, r, e, p, 1 - b, s)
  BY <1>1, <1>5 DEF Shape, Linked
<1>7. s \in DOMAIN n /\ s # r /\ e[s] \in 0 .. Width /\ e[s] < e[p]
  BY <1>6, NodeIs DEF Child
<1>8. l # s
  <2> SUFFICES ASSUME l = s PROVE FALSE
    OBVIOUS
  <2>1. n[p].next[b] # Null /\ n[p].next[b] = n[p].next[1 - b]
    BY <1>1, <1>2
  <2>2. b = 1 - b
    BY <1>1, <2>1, OneParent
  <2> QED BY <1>1, <2>2
<1>9. p # l /\ p # s
  BY <1>2, <1>4, <1>7
<1>10. ASSUME NEW y \in DOMAIN n, NEW c \in 0 .. 1, n[y].next[c] \in {l, s} PROVE y = p
  <2>1. CASE n[y].next[c] = l
    <3>1. n[y].next[c] # Null /\ n[y].next[c] = n[p].next[b]
      BY <1>1, <1>2, <2>1
    <3> QED BY <1>1, <3>1, OneParent
  <2>2. CASE n[y].next[c] = s
    <3>1. n[y].next[c] # Null /\ n[y].next[c] = n[p].next[1 - b]
      BY <1>1, <1>5, <2>2
    <3> QED BY <1>1, <3>1, OneParent
  <2> QED BY <1>10, <2>1, <2>2
<1>11. \A c \in 0 .. 1 : n[p].next[c] \in {l, s} /\ n[l].next[c] = Null
  <2>1. \A c \in 0 .. 1 : c = b \/ c = 1 - b
    BY <1>1
  <2>2. \A c \in 0 .. 1 : n[l].next[c] = Null
    BY <1>2 DEF Shape, Branched
  <2> QED BY <1>1, <2>1, <2>2
<1>12. p \notin Leaf(n)
  BY <1>1, <1>4, LeafIs
<1> QED BY <1>1, <1>2, <1>4, <1>6, <1>7, <1>8, <1>9, <1>10, <1>11, <1>12

\* The bits below each node then.
MergeBits(m, e, p, s) == [y \in DOMAIN m |-> IF y = p THEN e[s] ELSE e[y]]

LEMMA MergeTyped ==
  ASSUME NEW n, NEW r, NEW e, Shape(n, r, e), NEW p, NEW b, NEW l, NEW s, Merges(n, r, p, b, l, s),
         NEW m, m = [y \in DOMAIN m |-> m[y]], Merged(m, n, p, l, s)
  PROVE  Typed(m, r, MergeBits(m, e, p, s)) /\ Branched(m, r, MergeBits(m, e, p, s))
<1> DEFINE f == MergeBits(m, e, p, s)
<1>1. /\ r \in DOMAIN n /\ e \in [DOMAIN n -> 0 .. Width] /\ DOMAIN n \subseteq Obj /\ e[r] = Width
      /\ n[r].len = 0 /\ n[r].data = Null
  BY DEF Shape, Typed
<1>2. /\ p \in DOMAIN n /\ l \in DOMAIN n /\ s \in DOMAIN n
      /\ p # r /\ l # r /\ s # r /\ p # l /\ p # s /\ l # s
  BY MergeNodes
<1>3. /\ DOMAIN m = DOMAIN n \ {l, s} /\ \A y \in DOMAIN n \ {p, l, s} : m[y] = n[y]
      /\ m[p].next = n[s].next /\ m[p].part = n[s].part /\ m[p].data = n[s].data
      /\ m[p].len = n[p].len + n[s].len
  BY DEF Merged
<1>4. f \in [DOMAIN m -> 0 .. Width] /\ f[r] = Width /\ f[p] = e[s] /\ \A y \in DOMAIN m \ {p} : f[y] = e[y]
  BY <1>1, <1>2, <1>3 DEF MergeBits
<1>5. m[p].len \in 0 .. Width
  <2>1. PICK q \in DOMAIN n, c \in 0 .. 1 : n[q].next[c] = p
    BY <1>2 DEF Shape, Parented
  <2>2. p # Null
    BY <1>2, NodeIs
  <2>3. Child(n, r, e, q, c, p)
    BY <2>1, <2>2 DEF Shape, Linked
  <2>4. n[p].len = e[q] - e[p] /\ n[s].len = e[p] - e[s] /\ e[p] < e[q] /\ e[s] < e[p]
    BY <2>3, MergeNodes DEF Child
  <2>5. e[q] \in 0 .. Width /\ e[p] \in 0 .. Width /\ e[s] \in 0 .. Width
    BY <1>1, <1>2
  <2> QED BY <1>3, <2>4, <2>5, WidthIs
<1>6. \A y \in DOMAIN m : m[y] \in NodeSet
  <2>1. \A y \in DOMAIN n : n[y] \in NodeSet
    BY NodeIs
  <2>2. m[p] \in NodeSet
    <3>1. m[p] = [next |-> m[p].next, part |-> m[p].part, len |-> m[p].len, data |-> m[p].data]
      BY DEF Merged
    <3>2. /\ m[p].part \in Key /\ m[p].data \in Obj \cup {Null}
          /\ m[p].next \in [0 .. 1 -> Obj \cup {Null}]
      BY <1>2, <1>3, NodeIs
    <3> QED BY <1>5, <3>1, <3>2 DEF NodeSet
  <2> QED BY <1>3, <2>1, <2>2
<1> HIDE DEF f
<1>7. Typed(m, r, f)
  <2>1. m \in [DOMAIN m -> NodeSet] /\ DOMAIN m \subseteq Obj /\ r \in DOMAIN m
    BY <1>1, <1>2, <1>3, <1>6
  <2>2. m[r] = n[r]
    BY <1>1, <1>2, <1>3
  <2> QED BY <1>1, <1>4, <2>1, <2>2 DEF Typed
<1>8. ASSUME NEW y \in DOMAIN m \ {r}
      PROVE  /\ f[y] < Width
             /\ f[y] = 0 => m[y].data # Null /\ \A c \in 0 .. 1 : m[y].next[c] = Null
             /\ f[y] # 0 => m[y].data = Null /\ \A c \in 0 .. 1 : m[y].next[c] # Null
  <2>1. PICK z \in DOMAIN n \ {r} : f[y] = e[z] /\ m[y].data = n[z].data /\ m[y].next = n[z].next
    <3>1. CASE y = p
      BY <1>2, <1>3, <1>4, <3>1
    <3>2. CASE y # p
      BY <1>3, <1>4, <3>2
    <3> QED BY <3>1, <3>2
  <2>2. /\ e[z] < Width
        /\ e[z] = 0 => n[z].data # Null /\ \A c \in 0 .. 1 : n[z].next[c] = Null
        /\ e[z] # 0 => n[z].data = Null /\ \A c \in 0 .. 1 : n[z].next[c] # Null
    BY DEF Shape, Branched
  <2> QED BY <2>1, <2>2
<1>9. Branched(m, r, f)
  BY <1>8 DEF Branched
<1> QED BY <1>7, <1>9 DEF f

LEMMA MergeLinked ==
  ASSUME NEW n, NEW r, NEW e, Shape(n, r, e), NEW p, NEW b, NEW l, NEW s, Merges(n, r, p, b, l, s),
         NEW m, Merged(m, n, p, l, s)
  PROVE  Linked(m, r, MergeBits(m, e, p, s)) /\ Parented(m, r)
<1> DEFINE f == MergeBits(m, e, p, s)
<1>1. /\ r \in DOMAIN n /\ \A y \in DOMAIN n : e[y] \in 0 .. Width /\ n[y].part \in Nat /\ y # Null
  BY NodeIs DEF Shape, Typed
<1>2. /\ p \in DOMAIN n /\ l \in DOMAIN n /\ s \in DOMAIN n
      /\ p # r /\ l # r /\ s # r /\ p # l /\ p # s /\ l # s
      /\ \A y \in DOMAIN n, c \in 0 .. 1 : n[y].next[c] \in {l, s} => y = p
      /\ \A c \in 0 .. 1 : n[p].next[c] \in {l, s} /\ n[l].next[c] = Null
  BY MergeNodes
<1>3. /\ e[s] < e[p] /\ n[s].len = e[p] - e[s] /\ Below(n, e, p, n[s].part)
  BY MergeNodes DEF Child
<1>4. /\ DOMAIN m = DOMAIN n \ {l, s} /\ \A y \in DOMAIN n \ {p, l, s} : m[y] = n[y]
      /\ m[p].next = n[s].next /\ m[p].part = n[s].part /\ m[p].len = n[p].len + n[s].len
  BY DEF Merged
<1>5. f[p] = e[s] /\ \A y \in DOMAIN m \ {p} : f[y] = e[y]
  BY <1>2, <1>4 DEF MergeBits
<1> HIDE DEF f
<1> DEFINE Old(y) == IF y = p THEN s ELSE y
<1>6. ASSUME NEW y \in DOMAIN m
      PROVE  /\ Old(y) \in DOMAIN n /\ m[y].next = n[Old(y)].next /\ m[y].part = n[Old(y)].part
             /\ f[y] = e[Old(y)] /\ (y # p => m[y] = n[y])
  BY <1>2, <1>4, <1>5
<1>7. ASSUME NEW y \in DOMAIN m, NEW c \in 0 .. 1, NEW z, z = m[y].next[c], z # Null
      PROVE  z \in DOMAIN m \ {r} /\ Child(n, r, e, Old(y), c, z) /\ (y = p => z # p)
  <2>1. Old(y) \in DOMAIN n /\ n[Old(y)].next[c] = z
    BY <1>6, <1>7
  <2>2. Child(n, r, e, Old(y), c, z)
    BY <1>7, <2>1 DEF Shape, Linked
  <2>3. z \in DOMAIN n \ {r} /\ e[z] < e[Old(y)]
    BY <2>2 DEF Child
  <2>4. Old(y) # p
    BY <1>2
  <2>5. z \notin {l, s}
    BY <1>2, <2>1, <2>4
  <2>6. y = p => z # p
    <3> SUFFICES ASSUME y = p, z = p PROVE FALSE
      OBVIOUS
    <3>1. e[p] < e[s]
      BY <2>3
    <3>2. e[p] \in 0 .. Width /\ e[s] \in 0 .. Width
      BY <1>1, <1>2
    <3> QED BY <1>3, <3>1, <3>2, WidthIs
  <2> QED BY <1>4, <2>2, <2>3, <2>5, <2>6
<1>8. ASSUME NEW y \in DOMAIN m, NEW c \in 0 .. 1, NEW z, z = m[y].next[c], z # Null
      PROVE  Child(m, r, f, y, c, z)
  <2>1. z \in DOMAIN m \ {r} /\ Child(n, r, e, Old(y), c, z) /\ (y = p => z # p)
    BY <1>7, <1>8
  <2>2. /\ e[z] < e[Old(y)] /\ n[z].len = e[Old(y)] - e[z]
        /\ Below(n, e, Old(y), n[z].part) /\ Bit(n[z].part, e[Old(y)] - 1) = c
    BY <2>1 DEF Child
  <2>3. f[y] = e[Old(y)] /\ m[y].part = n[Old(y)].part
    BY <1>6
  <2>4. CASE z # p
    <3>1. m[z] = n[z] /\ f[z] = e[z]
      BY <1>5, <1>6, <2>1, <2>4
    <3> HIDE DEF Old
    <3> QED BY <2>1, <2>2, <2>3, <3>1 DEF Child, Below
  <2>5. CASE z = p
    <3>1. y # p /\ Old(y) = y /\ y \in DOMAIN n
      BY <1>4, <2>1, <2>5
    <3>2. Child(n, r, e, y, c, p) /\ e[p] < e[y] /\ n[p].len = e[y] - e[p]
      BY <2>1, <2>2, <2>5, <3>1
    <3>3. n[s].part \in Nat
      BY <1>1, <1>2
    <3>4. Below(n, e, y, n[s].part) /\ Bit(n[s].part, e[y] - 1) = c
      BY <1>3, <3>1, <3>2, <3>3, BelowUp
    <3>5. m[p].len = e[y] - e[s] /\ e[s] < e[y]
      <4>1. e[p] \in 0 .. Width /\ e[s] \in 0 .. Width /\ e[y] \in 0 .. Width
        BY <1>1, <1>2, <3>1
      <4> QED BY <1>3, <1>4, <3>2, <4>1, WidthIs
    <3>6. f[y] = e[y] /\ m[y].part = n[y].part /\ f[p] = e[s] /\ m[p].part = n[s].part
      BY <1>4, <1>5, <2>3, <3>1
    <3> QED BY <2>1, <2>5, <3>4, <3>5, <3>6 DEF Child, Below
  <2> QED BY <2>4, <2>5
<1>9. Linked(m, r, f)
  BY <1>8 DEF Linked
<1>10. ASSUME NEW z \in DOMAIN m \ {r}
       PROVE  \E y \in DOMAIN m, c \in 0 .. 1 : m[y].next[c] = z
  <2>1. z \in DOMAIN n \ {r} /\ z \notin {l, s} /\ z # Null
    BY <1>1, <1>4
  <2>2. PICK y \in DOMAIN n, c \in 0 .. 1 : n[y].next[c] = z
    BY <2>1 DEF Shape, Parented
  <2>3. y # p /\ y # l
    BY <1>2, <2>1, <2>2
  <2>4. CASE y = s
    <3>1. p \in DOMAIN m /\ m[p].next[c] = z
      BY <1>2, <1>4, <2>2, <2>4
    <3> QED BY <3>1
  <2>5. CASE y # s
    <3>1. y \in DOMAIN m /\ m[y].next[c] = z
      BY <1>4, <2>2, <2>3, <2>5
    <3> QED BY <3>1
  <2> QED BY <2>4, <2>5
<1>11. ASSUME NEW y \in DOMAIN m, NEW z \in DOMAIN m, NEW c \in 0 .. 1, NEW g \in 0 .. 1,
              m[y].next[c] # Null, m[y].next[c] = m[z].next[g]
       PROVE  y = z /\ c = g
  <2>1. /\ Old(y) \in DOMAIN n /\ Old(z) \in DOMAIN n
        /\ m[y].next = n[Old(y)].next /\ m[z].next = n[Old(z)].next
    BY <1>6
  <2>2. n[Old(y)].next[c] # Null /\ n[Old(y)].next[c] = n[Old(z)].next[g]
    BY <1>11, <2>1
  <2>3. Old(y) = Old(z) /\ c = g
    <3> HIDE DEF Old
    <3> QED BY <2>1, <2>2, OneParent
  <2>4. y # s /\ z # s
    BY <1>4
  <2> QED BY <2>3, <2>4
<1>12. Parented(m, r)
  BY <1>10, <1>11 DEF Parented
<1> QED BY <1>9, <1>12 DEF f

LEMMA RadixMergeIs ==
  ASSUME NEW n, NEW r, NEW e, Shape(n, r, e), NEW p, NEW b, NEW l, NEW s, Merges(n, r, p, b, l, s),
         NEW m, m = [y \in DOMAIN m |-> m[y]], Merged(m, n, p, l, s)
  PROVE  /\ \E f : Shape(m, r, f)
         /\ Pairs(m) = Pairs(n) \ {<<n[l].part, n[l].data>>}
<1>1. Shape(m, r, MergeBits(m, e, p, s))
  BY MergeTyped, MergeLinked DEF Shape
<1>2. /\ p \in DOMAIN n /\ l \in DOMAIN n /\ s \in DOMAIN n
      /\ p # r /\ l # r /\ s # r /\ p # l /\ p # s /\ l # s /\ p \notin Leaf(n)
  BY MergeNodes
<1>3. /\ DOMAIN m = DOMAIN n \ {l, s} /\ \A y \in DOMAIN n \ {p, l, s} : m[y] = n[y]
      /\ m[p].part = n[s].part /\ m[p].data = n[s].data
  BY DEF Merged
<1> DEFINE KeyData(h, x) == <<h[x].part, h[x].data>>
<1>4. ASSUME NEW x \in Leaf(m) PROVE \E y \in Leaf(n) \ {l} : KeyData(m, x) = KeyData(n, y)
  <2>1. CASE x = p
    <3>1. s \in Leaf(n) \ {l} /\ KeyData(m, x) = KeyData(n, s)
      BY <1>2, <1>3, <1>4, <2>1 DEF Leaf
    <3> QED BY <3>1
  <2>2. CASE x # p
    <3>1. x \in Leaf(n) \ {l} /\ KeyData(m, x) = KeyData(n, x)
      BY <1>3, <1>4, <2>2 DEF Leaf
    <3> QED BY <3>1
  <2> QED BY <2>1, <2>2
<1>5. ASSUME NEW y \in Leaf(n) \ {l} PROVE \E x \in Leaf(m) : KeyData(m, x) = KeyData(n, y)
  <2>1. CASE y = s
    <3>1. p \in Leaf(m) /\ KeyData(m, p) = KeyData(n, y)
      BY <1>2, <1>3, <1>5, <2>1 DEF Leaf
    <3> QED BY <3>1
  <2>2. CASE y # s
    <3>1. y \in Leaf(m) /\ KeyData(m, y) = KeyData(n, y)
      BY <1>2, <1>3, <1>5, <2>2 DEF Leaf
    <3> QED BY <3>1
  <2> QED BY <2>1, <2>2
<1>6. Pairs(m) = {KeyData(n, y) : y \in Leaf(n) \ {l}}
  <2>1. Pairs(m) = {KeyData(m, x) : x \in Leaf(m)}
    BY DEF Pairs
  <2> HIDE DEF KeyData
  <2> QED BY <1>4, <1>5, <2>1
<1>7. l \in Leaf(n)
  BY DEF Merges
<1>8. Pairs(n) \ {KeyData(n, l)} = {KeyData(n, y) : y \in Leaf(n) \ {l}}
  BY <1>7, PairsLess
<1> QED BY <1>1, <1>6, <1>8

LEMMA Remainder ==
  ASSUME NEW x \in Nat, NEW m \in Nat, m > 0
  PROVE  x \div m \in Nat /\ x % m \in Nat /\ x = (x \div m) * m + (x % m)
  OBVIOUS

(* The merged node has the bits of the child. *)
LEMMA MergedPartIs ==
  ASSUME NEW n, NEW r, NEW e, Shape(n, r, e), NEW p \in DOMAIN n, NEW s \in DOMAIN n,
         Below(n, e, p, n[s].part), e[p] > 0
  PROVE  MergedPart(n[p], n[s], e[p] - 1) = n[s].part
<1>1. PICK i \in 0 .. Width : i = e[p] /\ i > 0
  BY NodeIs
<1>2. PICK x \in Nat, y \in Nat : x = n[p].part /\ y = n[s].part
  BY NodeIs
<1>3. PICK m \in Nat : m = Pow[i] /\ m > 0
  BY PowIs
<1>4. x \div m = y \div m
  BY <1>1, <1>2, <1>3 DEF Below, Over
<1>5. /\ x \div m \in Nat /\ x % m \in Nat /\ y % m \in Nat
      /\ x = (x \div m) * m + (x % m) /\ y = (y \div m) * m + (y % m)
  BY <1>3, Remainder
<1>6. PICK t \in Nat : t = (x \div m) * m
  BY <1>3, <1>5, Times
<1>7. PICK c \in Nat, d \in Nat : c = x % m /\ d = y % m
  BY <1>5
<1>8. x = t + c /\ y = t + d
  BY <1>4, <1>5, <1>6, <1>7
<1>9. (x - c) + d = y
  BY <1>8
<1>10. (e[p] - 1) + 1 = i
  BY <1>1
<1> QED BY <1>2, <1>3, <1>7, <1>9, <1>10 DEF MergedPart, LowBits

\* What a tree becomes that loses the leaf l.
Loses(m, n, r, l, gone) ==
  /\ DOMAIN m = DOMAIN n \ gone /\ \E f : Shape(m, r, f)
  /\ Pairs(m) = Pairs(n) \ {<<n[l].part, n[l].data>>}

Deletes(R, z, n, r, l) ==
  \/ R.s = ObjFree(z, "tree", l) /\ Loses(R.n, n, r, l, {l})
  \/ \E s \in DOMAIN n \ {l} : /\ R.s = ObjFree(ObjFree(z, "tree", l), "tree", s)
                               /\ Loses(R.n, n, r, l, {l, s})

(* binradix_delete of a key that is there: its leaf goes, and the sibling below *)
(* any parent but the root.                                                     *)
LEMMA DeleteIs ==
  ASSUME NEW n, NEW r, NEW e, Shape(n, r, e), NEW l \in Leaf(n), NEW z,
         NEW R, R = Delete(z, n, r, n[l].part)
  PROVE  Deletes(R, z, n, r, l)
<1>1. PICK w : w = Walk(n, r, n[l].part)
  OBVIOUS
<1>2. PICK p : p = w.parent
  OBVIOUS
<1>3. /\ w.at = l /\ l \in DOMAIN n \ {r} /\ p \in DOMAIN n /\ e[p] > 0 /\ w.off = e[p] - 1
      /\ \E b \in 0 .. 1 : n[p].next[b] = l /\ b = IF n[p].next[1] = l THEN 1 ELSE 0
  BY <1>1, <1>2, FoundAt
<1>4. PICK b \in 0 .. 1 : n[p].next[b] = l /\ b = IF n[p].next[1] = l THEN 1 ELSE 0
  BY <1>3
<1>5. n \in [DOMAIN n -> NodeSet] /\ r \in DOMAIN n
  BY DEF Shape, Typed
<1>6. CASE p = r
  <2> DEFINE n1 == [n EXCEPT ![r].next[b] = Null]
             m == Without(n1, l)
  <2>1. R = [s |-> ObjFree(z, "tree", l), n |-> m]
    BY <1>1, <1>2, <1>3, <1>4, <1>6 DEF Delete
  <2>2. n[r] \in NodeSet
    BY <1>5
  <2>3. /\ DOMAIN n1 = DOMAIN n /\ \A y \in DOMAIN n \ {r} : n1[y] = n[y]
        /\ n1[r] = [n[r] EXCEPT !.next[b] = Null]
    BY <1>5
  <2>4. /\ n1[r].part = n[r].part /\ n1[r].len = n[r].len /\ n1[r].data = n[r].data
        /\ n1[r].next = [n[r].next EXCEPT ![b] = Null]
        /\ n1[r] = [next |-> n1[r].next, part |-> n1[r].part, len |-> n1[r].len, data |-> n1[r].data]
    BY <2>2, <2>3 DEF NodeSet
  <2> HIDE DEF n1
  <2>5. /\ DOMAIN m = DOMAIN n \ {l} /\ \A y \in DOMAIN n \ {l} : m[y] = n1[y]
        /\ m = [y \in DOMAIN m |-> m[y]]
    BY <2>3 DEF Without
  <2> HIDE DEF m
  <2>6. Cut(m, n, r, b, l)
    BY <1>3, <1>5, <2>3, <2>4, <2>5 DEF Cut
  <2>7. (\E f : Shape(m, r, f)) /\ Pairs(m) = Pairs(n) \ {<<n[l].part, n[l].data>>}
    BY <1>4, <1>6, <2>5, <2>6, CutIs
  <2>8. Loses(m, n, r, l, {l})
    BY <2>5, <2>7 DEF Loses
  <2> QED BY <2>1, <2>8 DEF Deletes
<1>7. CASE p # r
  <2>1. PICK s : s = n[p].next[1 - b]
    OBVIOUS
  <2>2. Merges(n, r, p, b, l, s)
    BY <1>3, <1>4, <1>7, <2>1 DEF Merges
  <2>3. s \in DOMAIN n \ {l} /\ p # s /\ p # l /\ Below(n, e, p, n[s].part)
    BY <2>2, MergeNodes DEF Child
  <2> DEFINE v == [next |-> n[s].next, part |-> n[s].part, len |-> n[p].len + n[s].len,
                   data |-> n[s].data]
             n1 == [n EXCEPT ![p] = v]
             n2 == Without(n1, l)
             m == Without(n2, s)
  <2>4. MergedPart(n[p], n[s], w.off) = n[s].part
    BY <1>3, <2>3, MergedPartIs
  <2>5. R = [s |-> ObjFree(ObjFree(z, "tree", l), "tree", s), n |-> m]
    <3> DEFINE g == [next |-> n[s].next, part |-> MergedPart(n[p], n[s], w.off),
                     len |-> n[p].len + n[s].len, data |-> n[s].data]
    <3>1. g = v
      BY <2>4
    <3>2. R = [s |-> ObjFree(ObjFree(z, "tree", l), "tree", s),
               n |-> Without(Without([n EXCEPT ![p] = g], l), s)]
      BY <1>1, <1>2, <1>3, <1>4, <1>7, <2>1 DEF Delete
    <3> HIDE DEF g, v
    <3> QED BY <3>1, <3>2
  <2> HIDE DEF v
  <2>6. DOMAIN n1 = DOMAIN n /\ n1[p] = v /\ \A y \in DOMAIN n \ {p} : n1[y] = n[y]
    BY <1>3, <1>5
  <2> HIDE DEF n1
  <2>7. DOMAIN n2 = DOMAIN n \ {l} /\ n2[p] = v /\ \A y \in DOMAIN n \ {p, l} : n2[y] = n[y]
    BY <1>3, <2>3, <2>6 DEF Without
  <2> HIDE DEF n2
  <2>8. /\ DOMAIN m = DOMAIN n \ {l, s} /\ m[p] = v /\ \A y \in DOMAIN n \ {p, l, s} : m[y] = n[y]
        /\ m = [y \in DOMAIN m |-> m[y]]
    BY <1>3, <2>3, <2>7 DEF Without
  <2> HIDE DEF m
  <2>9. Merged(m, n, p, l, s)
    BY <2>8 DEF Merged, v
  <2>10. (\E f : Shape(m, r, f)) /\ Pairs(m) = Pairs(n) \ {<<n[l].part, n[l].data>>}
    BY <2>2, <2>8, <2>9, RadixMergeIs
  <2>11. Loses(m, n, r, l, {l, s})
    BY <2>8, <2>10 DEF Loses
  <2>12. R.s = ObjFree(ObjFree(z, "tree", l), "tree", s) /\ R.n = m
    BY <2>5
  <2>13. Loses(R.n, n, r, l, {l, s})
    BY <2>11, <2>12
  <2> QED BY <2>3, <2>12, <2>13 DEF Deletes
<1> QED BY <1>6, <1>7

-----------------------------------------------------------------------------
(* The radix tree: what can be reached                                     *)

Nearer(n, r) == r \cup ({n[x].next[b] : x \in r, b \in 0 .. 1} \ {Null})

\* g has the nodes at each distance from the root.
Nears(g, n, r) == g[0] = {r} /\ \A d \in 1 .. Width : g[d] = Nearer(n, g[d - 1])

LEMMA ReachSteps ==
  ASSUME NEW n, NEW r, NEW e, Shape(n, r, e)
  PROVE  \E g \in [0 .. Width -> SUBSET DOMAIN n] : Nears(g, n, r) /\ Reach(n, r) = g[Width]
<1> DEFINE X == SUBSET DOMAIN n
           f == [z \in (1 .. Width) \X X |-> Nearer(n, z[2])]
           Body(c) == [i \in 0 .. Width |-> IF i = 0 THEN {r} ELSE Nearer(n, c[i - 1])]
           c == CHOOSE g : g = Body(g)
<1>1. Width \in Nat
  BY WidthIs
<1>2. {r} \in X
  BY DEF Shape, Typed
<1>3. ASSUME NEW S \in X PROVE Nearer(n, S) \in X
  <2>1. ASSUME NEW x \in S, NEW b \in 0 .. 1, n[x].next[b] # Null PROVE n[x].next[b] \in DOMAIN n
    BY <2>1 DEF Shape, Linked, Child
  <2> QED BY <2>1 DEF Nearer
<1>4. f \in [(1 .. Width) \X X -> X]
  <2>1. ASSUME NEW z \in (1 .. Width) \X X PROVE Nearer(n, z[2]) \in X
    <3>1. z[2] \in X
      OBVIOUS
    <3> HIDE DEF X
    <3> QED BY <1>3, <3>1
  <2> HIDE DEF X
  <2> QED BY <2>1
<1>5. PICK g : Iterates(g, f, {r}, Width, X)
  <2> HIDE DEF f, X
  <2> QED BY <1>1, <1>2, <1>4, Iterate
<1>6. g \in [0 .. Width -> X] /\ g[0] = {r} /\ \A i \in 1 .. Width : g[i] = Nearer(n, g[i - 1])
  <2>1. g \in [0 .. Width -> X] /\ g[0] = {r} /\ \A i \in 1 .. Width : g[i] = f[<<i, g[i - 1]>>]
    <3> HIDE DEF f, X
    <3> QED BY <1>5 DEF Iterates
  <2>2. ASSUME NEW i \in 1 .. Width PROVE g[i] = Nearer(n, g[i - 1])
    <3>1. i - 1 \in 0 .. Width
      BY <1>1
    <3> HIDE DEF X
    <3>2. g[i - 1] \in X
      BY <2>1, <3>1
    <3>3. <<i, g[i - 1]>> \in (1 .. Width) \X X
      BY <3>2
    <3>4. f[<<i, g[i - 1]>>] = Nearer(n, g[i - 1])
      BY <3>3
    <3> QED BY <2>1, <3>4
  <2> QED BY <2>1, <2>2
<1>7. g = Body(g)
  <2>1. \A i \in 0 .. Width : g[i] = IF i = 0 THEN {r} ELSE Nearer(n, g[i - 1])
    <3> HIDE DEF X
    <3> QED BY <1>1, <1>6
  <2> HIDE DEF X
  <2> QED BY <1>6, <2>1
<1>8. c = Body(c)
  <2> HIDE DEF Body
  <2> QED BY <1>7
<1>9. \A i \in 0 .. Width : c[i] = IF i = 0 THEN {r} ELSE Nearer(n, c[i - 1])
  <2> HIDE DEF c
  <2> QED BY <1>8
<1> DEFINE T == {i \in 0 .. Width : c[i] = g[i]}
<1>10. 0 .. Width \subseteq T
  <2> HIDE DEF c, X
  <2>1. 0 \in T
    <3>1. 0 \in 0 .. Width
      BY <1>1
    <3>2. c[0] = g[0]
      BY <1>6, <1>9, <3>1
    <3> QED BY <3>1, <3>2
  <2>2. ASSUME NEW i \in 1 .. Width, i - 1 \in T PROVE i \in T
    BY <1>1, <1>6, <1>9, <2>2
  <2> HIDE DEF T
  <2> QED BY <1>1, <2>1, <2>2, UpTo
<1>11. c[Width] = g[Width]
  <2> HIDE DEF c, X
  <2> QED BY <1>1, <1>10
<1>12. Reach(n, r) = c[Width]
  BY DEF Reach, Nearer
<1> QED BY <1>6, <1>11, <1>12 DEF Nears

(* Every node of the tree can be reached. *)
LEMMA ReachIs ==
  ASSUME NEW n, NEW r, NEW e, Shape(n, r, e)
  PROVE  Reach(n, r) = DOMAIN n
<1>1. PICK g \in [0 .. Width -> SUBSET DOMAIN n] : Nears(g, n, r) /\ Reach(n, r) = g[Width]
  BY ReachSteps
<1>2. Width \in Nat /\ Width \in 0 .. Width
  BY WidthIs
<1> DEFINE T == {j \in 0 .. Width : \A x \in DOMAIN n : e[x] >= Width - j => x \in g[j]}
<1>3. 0 \in T
  <2> SUFFICES ASSUME NEW x \in DOMAIN n, e[x] >= Width PROVE x \in g[0]
    BY <1>2
  <2>1. e[x] \in 0 .. Width
    BY NodeIs
  <2>2. x = r
    BY <1>2, <2>1 DEF Shape, Branched
  <2> QED BY <1>1, <2>2 DEF Nears
<1>4. ASSUME NEW j \in 1 .. Width, j - 1 \in T PROVE j \in T
  <2> SUFFICES ASSUME NEW x \in DOMAIN n, e[x] >= Width - j PROVE x \in g[j]
    BY <1>2
  <2>0. j - 1 \in 0 .. Width /\ g[j] = Nearer(n, g[j - 1])
    BY <1>1, <1>2 DEF Nears
  <2>1. CASE x = r
    <3>1. e[r] = Width /\ r \in DOMAIN n
      BY DEF Shape, Typed
    <3>2. r \in g[j - 1]
      BY <1>2, <1>4, <3>1
    <3> QED BY <2>0, <2>1, <3>2 DEF Nearer
  <2>2. CASE x # r
    <3>1. PICK q \in DOMAIN n, b \in 0 .. 1 : n[q].next[b] = x
      BY <2>2 DEF Shape, Parented
    <3>2. x # Null
      BY NodeIs
    <3>3. Child(n, r, e, q, b, x)
      BY <3>1, <3>2 DEF Shape, Linked
    <3>4. e[x] \in 0 .. Width /\ e[q] \in 0 .. Width /\ e[x] < e[q]
      BY <3>3, NodeIs DEF Child
    <3>5. e[q] >= Width - (j - 1)
      BY <1>2, <3>4
    <3>6. q \in g[j - 1]
      BY <1>4, <3>5
    <3> QED BY <2>0, <3>1, <3>2, <3>6 DEF Nearer
  <2> QED BY <2>1, <2>2
<1>5. Width \in T
  <2> HIDE DEF T
  <2> QED BY <1>2, <1>3, <1>4, UpTo
<1>6. ASSUME NEW x \in DOMAIN n PROVE x \in g[Width]
  <2>1. e[x] \in 0 .. Width
    BY NodeIs
  <2>2. e[x] >= Width - Width
    BY <1>2, <2>1
  <2> QED BY <1>5, <2>2
<1> QED BY <1>1, <1>2, <1>6

\* One more level of the visits: those of x, from those of the nodes below it.
VisitsAt(n, v, x) ==
  IF x = Null THEN <<>>
  ELSE IF n[x].data # Null THEN <<n[x].data>>
  ELSE v[n[x].next[0]] \o v[n[x].next[1]]
VisitsNear(n, x) ==
  IF x = Null THEN <<>> ELSE IF n[x].data # Null THEN <<n[x].data>> ELSE <<>>
Pointers(n) == DOMAIN n \cup {Null}

\* g has the visits to each depth.
Deepens(g, n) ==
  /\ g[0] = [x \in Pointers(n) |-> VisitsNear(n, x)]
  /\ \A d \in 1 .. Width : g[d] = [x \in Pointers(n) |-> VisitsAt(n, g[d - 1], x)]

LEMMA VisitSteps ==
  ASSUME NEW n, NEW r, NEW e, Shape(n, r, e)
  PROVE  \E g \in [0 .. Width -> [Pointers(n) -> Seq(Obj)]] :
           Deepens(g, n) /\ Visits(n, r) = g[Width][n[r].next[0]] \o g[Width][n[r].next[1]]
<1> DEFINE X == [Pointers(n) -> Seq(Obj)]
           start == [x \in Pointers(n) |-> VisitsNear(n, x)]
           F(v) == [x \in Pointers(n) |-> VisitsAt(n, v, x)]
           f == [z \in (1 .. Width) \X X |-> F(z[2])]
           Body(c) == [d \in 0 .. Width |->
                         [x \in DOMAIN n \cup {Null} |->
                            IF x = Null THEN <<>>
                            ELSE IF n[x].data # Null THEN <<n[x].data>>
                            ELSE IF d = 0 THEN <<>>
                            ELSE c[d - 1][n[x].next[0]] \o c[d - 1][n[x].next[1]]]]
           c == CHOOSE g : g = Body(g)
<1>1. Width \in Nat
  BY WidthIs
<1>2. ASSUME NEW x \in DOMAIN n
      PROVE  /\ n[x].data # Null => <<n[x].data>> \in Seq(Obj)
             /\ n[x].next[0] \in Pointers(n) /\ n[x].next[1] \in Pointers(n)
  <2>1. n[x].data \in Obj \cup {Null}
    BY NodeIs
  <2>2. \A b \in 0 .. 1 : n[x].next[b] # Null => n[x].next[b] \in DOMAIN n
    BY DEF Shape, Linked, Child
  <2> QED BY <2>1, <2>2 DEF Pointers
<1>3. start \in X
  <2>1. ASSUME NEW x \in Pointers(n) PROVE VisitsNear(n, x) \in Seq(Obj)
    BY <1>2 DEF Pointers, VisitsNear
  <2> QED BY <2>1
<1>4. ASSUME NEW v \in X PROVE F(v) \in X
  <2>1. ASSUME NEW x \in Pointers(n) PROVE VisitsAt(n, v, x) \in Seq(Obj)
    <3>1. CASE x = Null
      BY <3>1 DEF VisitsAt
    <3>2. CASE x # Null
      <4>1. x \in DOMAIN n
        BY <3>2 DEF Pointers
      <4>2. v[n[x].next[0]] \in Seq(Obj) /\ v[n[x].next[1]] \in Seq(Obj)
        BY <1>2, <4>1
      <4>3. v[n[x].next[0]] \o v[n[x].next[1]] \in Seq(Obj)
        BY <4>2
      <4> QED BY <1>2, <3>2, <4>1, <4>3 DEF VisitsAt
    <3> QED BY <3>1, <3>2
  <2> QED BY <2>1
<1>5. f \in [(1 .. Width) \X X -> X]
  <2>1. ASSUME NEW z \in (1 .. Width) \X X PROVE F(z[2]) \in X
    <3>1. z[2] \in X
      OBVIOUS
    <3> HIDE DEF X, F
    <3> QED BY <1>4, <3>1
  <2> HIDE DEF X, F
  <2> QED BY <2>1
<1>6. PICK g : Iterates(g, f, start, Width, X)
  <2> HIDE DEF f, X, start
  <2> QED BY <1>1, <1>3, <1>5, Iterate
<1>7. g \in [0 .. Width -> X] /\ g[0] = start /\ \A i \in 1 .. Width : g[i] = F(g[i - 1])
  <2>1. g \in [0 .. Width -> X] /\ g[0] = start /\ \A i \in 1 .. Width : g[i] = f[<<i, g[i - 1]>>]
    <3> HIDE DEF f, X, start
    <3> QED BY <1>6 DEF Iterates
  <2>2. ASSUME NEW i \in 1 .. Width PROVE g[i] = F(g[i - 1])
    <3>1. i - 1 \in 0 .. Width
      BY <1>1
    <3> HIDE DEF X, F, start
    <3>2. g[i - 1] \in X
      BY <2>1, <3>1
    <3>3. <<i, g[i - 1]>> \in (1 .. Width) \X X
      BY <3>2
    <3>4. f[<<i, g[i - 1]>>] = F(g[i - 1])
      BY <3>3
    <3> QED BY <2>1, <3>4
  <2> QED BY <2>1, <2>2
<1>8. ASSUME NEW h PROVE Body(h) = [d \in 0 .. Width |-> IF d = 0 THEN start ELSE F(h[d - 1])]
  <2>1. ASSUME NEW d \in 0 .. Width PROVE Body(h)[d] = IF d = 0 THEN start ELSE F(h[d - 1])
    <3>1. CASE d = 0
      BY <3>1 DEF Pointers, VisitsNear
    <3>2. CASE d # 0
      BY <3>2 DEF Pointers, VisitsAt
    <3> QED BY <3>1, <3>2
  <2>2. Body(h) = [d \in 0 .. Width |-> Body(h)[d]]
    OBVIOUS
  <2> HIDE DEF Body, start, F
  <2> QED BY <2>1, <2>2
<1>9. g = Body(g)
  <2>1. \A i \in 0 .. Width : g[i] = IF i = 0 THEN start ELSE F(g[i - 1])
    <3> HIDE DEF X, F, start
    <3> QED BY <1>1, <1>7
  <2>2. g = [d \in 0 .. Width |-> IF d = 0 THEN start ELSE F(g[d - 1])]
    <3> HIDE DEF X, F, start, Body
    <3> QED BY <1>7, <2>1
  <2> HIDE DEF X, F, start, Body
  <2> QED BY <1>8, <2>2
<1>10. c = Body(c)
  <2> HIDE DEF Body
  <2> QED BY <1>9
<1>11. \A i \in 0 .. Width : c[i] = IF i = 0 THEN start ELSE F(c[i - 1])
  <2>1. c = [d \in 0 .. Width |-> IF d = 0 THEN start ELSE F(c[d - 1])]
    <3> HIDE DEF c, F, start, Body
    <3> QED BY <1>8, <1>10
  <2> HIDE DEF c, F, start
  <2> QED BY <2>1
<1> DEFINE T == {i \in 0 .. Width : c[i] = g[i]}
<1>12. 0 .. Width \subseteq T
  <2> HIDE DEF c, F, X, start
  <2>1. 0 \in T
    <3>1. 0 \in 0 .. Width
      BY <1>1
    <3>2. c[0] = g[0]
      BY <1>7, <1>11, <3>1
    <3> QED BY <3>1, <3>2
  <2>2. ASSUME NEW i \in 1 .. Width, i - 1 \in T PROVE i \in T
    BY <1>1, <1>7, <1>11, <2>2
  <2> HIDE DEF T
  <2> QED BY <1>1, <2>1, <2>2, UpTo
<1>13. c[Width] = g[Width]
  <2> HIDE DEF c, F, X, start
  <2> QED BY <1>1, <1>12
<1>14. Visits(n, r) = c[Width][n[r].next[0]] \o c[Width][n[r].next[1]]
  BY DEF Visits
<1>15. Deepens(g, n)
  BY <1>7 DEF Deepens
<1> HIDE DEF c
<1> QED BY <1>7, <1>13, <1>14, <1>15

\* The data of the leaves below x, and no datum is that of two leaves.
DataBelow(n, e, x) == {n[l].data : l \in {y \in Leaf(n) : Below(n, e, x, n[y].part)}}
Distinct(n) == \A x, y \in Leaf(n) : n[x].data = n[y].data => x = y

\* A list of the leaves below x.
ListsBelow(s, n, e, x) == s \in Seq(Obj) /\ IsInjective(s) /\ Range(s) = DataBelow(n, e, x)

LEMMA ListsLeaf ==
  ASSUME NEW n, NEW r, NEW e, Shape(n, r, e), NEW x \in DOMAIN n, e[x] = 0
  PROVE  n[x].data # Null /\ ListsBelow(<<n[x].data>>, n, e, x)
<1>1. x \in Leaf(n)
  BY LeafIs
<1>2. n[x].data \in Obj /\ n[x].data # Null
  BY <1>1, NodeIs DEF Leaf
<1>3. ASSUME NEW y \in Leaf(n) PROVE Below(n, e, x, n[y].part) <=> y = x
  <2>1. n[y].part \in Key
    BY NodeIs DEF Leaf
  <2>2. Below(n, e, x, n[y].part) <=> n[x].part = n[y].part
    BY <2>1, LeafBelow
  <2> QED BY <1>1, <2>2, LeafOne
<1>4. DataBelow(n, e, x) = {n[x].data}
  BY <1>1, <1>3 DEF DataBelow
<1>5. PICK d \in Obj : d = n[x].data
  BY <1>2
<1>6. <<d>> \in Seq(Obj) /\ IsInjective(<<d>>) /\ Range(<<d>>) = {d}
  BY DEF IsInjective, Range
<1> QED BY <1>2, <1>4, <1>5, <1>6 DEF ListsBelow

LEMMA ListsBoth ==
  ASSUME NEW n, NEW r, NEW e, Shape(n, r, e), Distinct(n), NEW x \in DOMAIN n, e[x] > 0,
         NEW s0, NEW s1,
         IF n[x].next[0] = Null THEN s0 = <<>> ELSE ListsBelow(s0, n, e, n[x].next[0]),
         IF n[x].next[1] = Null THEN s1 = <<>> ELSE ListsBelow(s1, n, e, n[x].next[1])
  PROVE  ListsBelow(s0 \o s1, n, e, x)
<1> DEFINE D(b) == IF n[x].next[b] = Null THEN {} ELSE DataBelow(n, e, n[x].next[b])
<1>1. s0 \in Seq(Obj) /\ IsInjective(s0) /\ Range(s0) = D(0)
  <2>1. <<>> \in Seq(Obj) /\ IsInjective(<<>>) /\ Range(<<>>) = {}
    BY DEF IsInjective, Range
  <2> QED BY <2>1 DEF ListsBelow
<1>2. s1 \in Seq(Obj) /\ IsInjective(s1) /\ Range(s1) = D(1)
  <2>1. <<>> \in Seq(Obj) /\ IsInjective(<<>>) /\ Range(<<>>) = {}
    BY DEF IsInjective, Range
  <2> QED BY <2>1 DEF ListsBelow
<1>3. ASSUME NEW b \in 0 .. 1, NEW v
      PROVE  v \in D(b) <=> \E l \in Leaf(n) : /\ v = n[l].data /\ Below(n, e, x, n[l].part)
                                               /\ Bit(n[l].part, e[x] - 1) = b
  <2>1. ASSUME v \in D(b)
        PROVE  \E l \in Leaf(n) : /\ v = n[l].data /\ Below(n, e, x, n[l].part)
                                  /\ Bit(n[l].part, e[x] - 1) = b
    <3>1. n[x].next[b] # Null
      BY <2>1
    <3>2. PICK l \in Leaf(n) : v = n[l].data /\ Below(n, e, n[x].next[b], n[l].part)
      BY <2>1, <3>1 DEF DataBelow
    <3>3. Child(n, r, e, x, b, n[x].next[b])
      BY <3>1 DEF Shape, Linked
    <3>4. n[l].part \in Nat
      BY NodeIs DEF Leaf
    <3>5. Below(n, e, x, n[l].part) /\ Bit(n[l].part, e[x] - 1) = b
      BY <3>2, <3>3, <3>4, BelowUp
    <3> QED BY <3>2, <3>5
  <2>2. ASSUME NEW l \in Leaf(n), v = n[l].data, Below(n, e, x, n[l].part),
               Bit(n[l].part, e[x] - 1) = b
        PROVE  v \in D(b)
    <3>1. l \in DOMAIN n /\ e[l] = 0 /\ n[l].part \in Key
      BY LeafIs, NodeIs DEF Leaf
    <3>2. n[x].next[b] # Null /\ Below(n, e, n[x].next[b], n[l].part)
      BY <2>2, <3>1, TowardLeaf
    <3> QED BY <2>2, <3>2 DEF DataBelow
  <2> QED BY <2>1, <2>2
<1>4. ASSUME NEW l \in Leaf(n) PROVE Bit(n[l].part, e[x] - 1) \in 0 .. 1
  <2>1. e[x] \in 0 .. Width
    BY NodeIs
  <2>2. n[l].part \in Nat /\ e[x] - 1 \in 0 .. Width
    BY <2>1, NodeIs, WidthIs DEF Leaf
  <2> QED BY <2>2, BitIs
<1> HIDE DEF D
<1>5. D(0) \cap D(1) = {}
  <2> SUFFICES ASSUME NEW v, v \in D(0), v \in D(1) PROVE FALSE
    OBVIOUS
  <2>1. PICK l \in Leaf(n) : v = n[l].data /\ Bit(n[l].part, e[x] - 1) = 0
    BY <1>3
  <2>2. PICK k \in Leaf(n) : v = n[k].data /\ Bit(n[k].part, e[x] - 1) = 1
    BY <1>3
  <2>3. l = k
    BY <2>1, <2>2 DEF Distinct
  <2> QED BY <2>1, <2>2, <2>3
<1>6. D(0) \cup D(1) = DataBelow(n, e, x)
  <2>1. ASSUME NEW v \in DataBelow(n, e, x) PROVE v \in D(0) \cup D(1)
    <3>1. PICK l \in Leaf(n) : v = n[l].data /\ Below(n, e, x, n[l].part)
      BY DEF DataBelow
    <3>2. PICK b \in 0 .. 1 : b = Bit(n[l].part, e[x] - 1)
      BY <1>4
    <3>3. v \in D(b)
      BY <1>3, <3>1, <3>2
    <3>4. b = 0 \/ b = 1
      OBVIOUS
    <3> QED BY <3>3, <3>4
  <2>2. ASSUME NEW b \in 0 .. 1, NEW v \in D(b) PROVE v \in DataBelow(n, e, x)
    <3>1. PICK l \in Leaf(n) : v = n[l].data /\ Below(n, e, x, n[l].part)
      BY <1>3
    <3> QED BY <3>1 DEF DataBelow
  <2>3. 0 \in 0 .. 1 /\ 1 \in 0 .. 1
    OBVIOUS
  <2> QED BY <2>1, <2>2, <2>3
<1>7. s0 \o s1 \in Seq(Obj) /\ IsInjective(s0 \o s1) /\ Range(s0 \o s1) = D(0) \cup D(1)
  BY <1>1, <1>2, <1>5, ConcatDistinct
<1> QED BY <1>6, <1>7 DEF ListsBelow

(* binradix_for_each visits every datum once. *)
LEMMA VisitsIs ==
  ASSUME NEW n, NEW r, NEW e, Shape(n, r, e), Distinct(n)
  PROVE  /\ IsInjective(Visits(n, r))
         /\ Range(Visits(n, r)) = {n[l].data : l \in Leaf(n)}
<1>1. PICK g \in [0 .. Width -> [Pointers(n) -> Seq(Obj)]] :
        Deepens(g, n) /\ Visits(n, r) = g[Width][n[r].next[0]] \o g[Width][n[r].next[1]]
  BY VisitSteps
<1>2. Width \in Nat /\ Width \in 0 .. Width
  BY WidthIs
<1> DEFINE T == {d \in 0 .. Width : \A x \in DOMAIN n \ {r} : e[x] <= d => ListsBelow(g[d][x], n, e, x)}
<1>3. 0 \in T
  <2> SUFFICES ASSUME NEW x \in DOMAIN n \ {r}, e[x] <= 0 PROVE ListsBelow(g[0][x], n, e, x)
    BY <1>2
  <2>1. e[x] = 0 /\ x # Null
    BY <1>2, NodeIs
  <2>2. g[0][x] = VisitsNear(n, x)
    BY <1>1 DEF Deepens, Pointers
  <2>3. n[x].data # Null /\ ListsBelow(<<n[x].data>>, n, e, x)
    BY <2>1, ListsLeaf
  <2> QED BY <2>1, <2>2, <2>3 DEF VisitsNear
<1>4. ASSUME NEW d \in 1 .. Width, d - 1 \in T PROVE d \in T
  <2> SUFFICES ASSUME NEW x \in DOMAIN n \ {r}, e[x] <= d PROVE ListsBelow(g[d][x], n, e, x)
    BY <1>2
  <2>1. e[x] \in 0 .. Width /\ x # Null
    BY NodeIs
  <2>2. g[d][x] = VisitsAt(n, g[d - 1], x)
    BY <1>1 DEF Deepens, Pointers
  <2>3. CASE e[x] = 0
    <3>1. n[x].data # Null /\ ListsBelow(<<n[x].data>>, n, e, x)
      BY <2>3, ListsLeaf
    <3> QED BY <2>1, <2>2, <3>1 DEF VisitsAt
  <2>4. CASE e[x] # 0
    <3>1. n[x].data = Null /\ n[x].next[0] # Null /\ n[x].next[1] # Null
      BY <2>4 DEF Shape, Branched
    <3>2. g[d][x] = g[d - 1][n[x].next[0]] \o g[d - 1][n[x].next[1]]
      BY <2>1, <2>2, <3>1 DEF VisitsAt
    <3>3. ASSUME NEW b \in 0 .. 1, n[x].next[b] # Null
          PROVE  ListsBelow(g[d - 1][n[x].next[b]], n, e, n[x].next[b])
      <4>1. PICK y : y = n[x].next[b]
        OBVIOUS
      <4>2. Child(n, r, e, x, b, y)
        BY <3>3, <4>1 DEF Shape, Linked
      <4>3. y \in DOMAIN n \ {r} /\ e[y] < e[x] /\ e[y] \in 0 .. Width
        BY <4>2, NodeIs DEF Child
      <4>4. e[y] <= d - 1
        BY <1>2, <2>1, <4>3
      <4> QED BY <1>4, <4>1, <4>3, <4>4
    <3>4. /\ ListsBelow(g[d - 1][n[x].next[0]], n, e, n[x].next[0])
          /\ ListsBelow(g[d - 1][n[x].next[1]], n, e, n[x].next[1])
      BY <3>1, <3>3
    <3>5. e[x] > 0
      BY <2>1, <2>4, WidthIs
    <3> QED BY <3>1, <3>2, <3>4, <3>5, ListsBoth
  <2> QED BY <2>3, <2>4
<1>5. Width \in T
  <2> HIDE DEF T
  <2> QED BY <1>2, <1>3, <1>4, UpTo
<1>6. ASSUME NEW b \in 0 .. 1
      PROVE  IF n[r].next[b] = Null THEN g[Width][n[r].next[b]] = <<>>
             ELSE ListsBelow(g[Width][n[r].next[b]], n, e, n[r].next[b])
  <2>1. r \in DOMAIN n
    BY DEF Shape, Typed
  <2>2. CASE n[r].next[b] = Null
    <3>1. g[Width] = [x \in Pointers(n) |-> VisitsAt(n, g[Width - 1], x)]
      <4>1. Width \in 1 .. Width
        BY WidthIs
      <4> QED BY <1>1, <4>1 DEF Deepens
    <3>2. g[Width][Null] = <<>>
      BY <3>1 DEF Pointers, VisitsAt
    <3> QED BY <2>2, <3>2
  <2>3. CASE n[r].next[b] # Null
    <3>1. PICK y : y = n[r].next[b]
      OBVIOUS
    <3>2. Child(n, r, e, r, b, y)
      BY <2>1, <2>3, <3>1 DEF Shape, Linked
    <3>3. y \in DOMAIN n \ {r} /\ e[y] \in 0 .. Width
      BY <3>2, NodeIs DEF Child
    <3>4. e[y] <= Width
      BY <1>2, <3>3
    <3> QED BY <1>5, <2>3, <3>1, <3>3, <3>4
  <2> QED BY <2>2, <2>3
<1>7. /\ IF n[r].next[0] = Null THEN g[Width][n[r].next[0]] = <<>>
         ELSE ListsBelow(g[Width][n[r].next[0]], n, e, n[r].next[0])
      /\ IF n[r].next[1] = Null THEN g[Width][n[r].next[1]] = <<>>
         ELSE ListsBelow(g[Width][n[r].next[1]], n, e, n[r].next[1])
  <2>1. 0 \in 0 .. 1 /\ 1 \in 0 .. 1
    OBVIOUS
  <2> QED BY <1>6, <2>1
<1>8. r \in DOMAIN n /\ e[r] > 0
  BY WidthIs DEF Shape, Typed
<1>9. ListsBelow(Visits(n, r), n, e, r)
  <2>1. PICK s0, s1 : s0 = g[Width][n[r].next[0]] /\ s1 = g[Width][n[r].next[1]]
    OBVIOUS
  <2>2. Visits(n, r) = s0 \o s1
    BY <1>1, <2>1
  <2> QED BY <1>7, <1>8, <2>1, <2>2, ListsBoth
<1>10. ASSUME NEW l \in Leaf(n) PROVE Below(n, e, r, n[l].part)
  <2>1. n[l].part \in Key /\ n[r].part \in Key /\ e[r] = Width
    BY <1>8, NodeIs DEF Leaf, Shape, Typed
  <2> QED BY <2>1, OverEnds DEF Below
<1>11. DataBelow(n, e, r) = {n[l].data : l \in Leaf(n)}
  BY <1>10 DEF DataBelow
<1> QED BY <1>9, <1>11 DEF ListsBelow

-----------------------------------------------------------------------------
(* Ranges of pages                                                         *)

RangeSet == [base : Nat, length : Nat \ {0}]
Cover(u) == UNION {PagesIn(u[k]) : k \in DOMAIN u}

\* Ranges that do not overlap.
Separate(u) ==
  /\ u \in Seq(RangeSet)
  /\ \A j, k \in DOMAIN u : j # k => PagesIn(u[j]) \cap PagesIn(u[k]) = {}

LEMMA CoverIs ==
  ASSUME NEW u, NEW x
  PROVE  x \in Cover(u) <=> \E k \in DOMAIN u : x \in PagesIn(u[k])
  BY DEF Cover

LEMMA SeparateNone == Separate(<<>>) /\ Cover(<<>>) = {}
  BY DEF Separate, Cover

LEMMA SeparateOne ==
  ASSUME NEW r \in RangeSet
  PROVE  Separate(<<r>>) /\ Cover(<<r>>) = PagesIn(r)
<1>1. <<r>> \in Seq(RangeSet) /\ DOMAIN <<r>> = {1} /\ <<r>>[1] = r
  OBVIOUS
<1> QED BY <1>1 DEF Separate, Cover

LEMMA SeparateJoin ==
  ASSUME NEW u, NEW v, Separate(u), Separate(v), Cover(u) \cap Cover(v) = {}
  PROVE  Separate(u \o v) /\ Cover(u \o v) = Cover(u) \cup Cover(v)
<1>1. u \in Seq(RangeSet) /\ v \in Seq(RangeSet)
  BY DEF Separate
<1>2. PICK c : c = u \o v
  OBVIOUS
<1>3. /\ c \in Seq(RangeSet) /\ Len(c) = Len(u) + Len(v)
      /\ \A i \in 1 .. Len(u) : c[i] = u[i]
      /\ \A i \in 1 .. Len(v) : c[Len(u) + i] = v[i]
  BY <1>1, <1>2
<1>4. \A i \in DOMAIN c : \/ i \in DOMAIN u /\ c[i] = u[i]
                          \/ i - Len(u) \in DOMAIN v /\ c[i] = v[i - Len(u)] /\ i > Len(u)
  <2> SUFFICES ASSUME NEW i \in DOMAIN c
               PROVE  \/ i \in DOMAIN u /\ c[i] = u[i]
                      \/ i - Len(u) \in DOMAIN v /\ c[i] = v[i - Len(u)] /\ i > Len(u)
    OBVIOUS
  <2>1. i \in 1 .. Len(u) + Len(v) /\ Len(u) \in Nat /\ Len(v) \in Nat
    BY <1>1, <1>3
  <2>2. CASE i <= Len(u)
    BY <1>1, <1>3, <2>1, <2>2
  <2>3. CASE i > Len(u)
    <3>1. i - Len(u) \in 1 .. Len(v) /\ Len(u) + (i - Len(u)) = i
      BY <2>1, <2>3
    <3> QED BY <1>1, <1>3, <2>3, <3>1
  <2> QED BY <2>1, <2>2, <2>3
<1>5. \A x : x \in Cover(c) <=> x \in Cover(u) \cup Cover(v)
  <2>1. ASSUME NEW x \in Cover(c) PROVE x \in Cover(u) \cup Cover(v)
    <3>1. PICK i \in DOMAIN c : x \in PagesIn(c[i])
      BY CoverIs
    <3> QED BY <1>4, <3>1, CoverIs
  <2>2. ASSUME NEW x \in Cover(u) PROVE x \in Cover(c)
    <3>1. PICK i \in DOMAIN u : x \in PagesIn(u[i])
      BY CoverIs
    <3>2. i \in DOMAIN c /\ c[i] = u[i]
      BY <1>1, <1>3
    <3> QED BY <3>1, <3>2, CoverIs
  <2>3. ASSUME NEW x \in Cover(v) PROVE x \in Cover(c)
    <3>1. PICK i \in DOMAIN v : x \in PagesIn(v[i])
      BY CoverIs
    <3>2. Len(u) + i \in DOMAIN c /\ c[Len(u) + i] = v[i]
      BY <1>1, <1>3
    <3> QED BY <3>1, <3>2, CoverIs
  <2> QED BY <2>1, <2>2, <2>3
<1>6. ASSUME NEW j \in DOMAIN c, NEW k \in DOMAIN c, j # k, NEW x, x \in PagesIn(c[j]), x \in PagesIn(c[k])
      PROVE  FALSE
  <2>1. CASE j \in DOMAIN u /\ c[j] = u[j] /\ k \in DOMAIN u /\ c[k] = u[k]
    BY <1>6, <2>1 DEF Separate
  <2>2. CASE /\ j - Len(u) \in DOMAIN v /\ c[j] = v[j - Len(u)] 
             /\ k - Len(u) \in DOMAIN v /\ c[k] = v[k - Len(u)]
    <3>1. j - Len(u) # k - Len(u)
      BY <1>1, <1>3, <1>6
    <3> QED BY <1>6, <2>2, <3>1 DEF Separate
  <2>3. CASE j \in DOMAIN u /\ c[j] = u[j] /\ k - Len(u) \in DOMAIN v /\ c[k] = v[k - Len(u)]
    BY <1>6, <2>3, CoverIs
  <2>4. CASE k \in DOMAIN u /\ c[k] = u[k] /\ j - Len(u) \in DOMAIN v /\ c[j] = v[j - Len(u)]
    BY <1>6, <2>4, CoverIs
  <2> QED BY <1>4, <2>1, <2>2, <2>3, <2>4
<1>7. Separate(c)
  BY <1>3, <1>6 DEF Separate
<1> QED BY <1>2, <1>5, <1>7

(* The first range and the others. *)
LEMMA SeparateTail ==
  ASSUME NEW u, Separate(u), u # <<>>
  PROVE  /\ Head(u) \in RangeSet /\ Separate(Tail(u))
         /\ PagesIn(Head(u)) \cap Cover(Tail(u)) = {}
         /\ Cover(u) = PagesIn(Head(u)) \cup Cover(Tail(u))
<1>1. u \in Seq(RangeSet)
  BY DEF Separate
<1>2. PICK t : t = Tail(u)
  OBVIOUS
<1>3. /\ t \in Seq(RangeSet) /\ Len(t) = Len(u) - 1 /\ \A i \in 1 .. Len(t) : t[i] = u[i + 1]
      /\ Len(u) \in Nat /\ Len(u) > 0 /\ Head(u) = u[1] /\ u[1] \in RangeSet
  BY <1>1, <1>2
<1>4. \A i \in DOMAIN t : i + 1 \in DOMAIN u /\ t[i] = u[i + 1] /\ i + 1 # 1
  BY <1>1, <1>3
<1>5. \A i \in DOMAIN u : i = 1 \/ (i - 1 \in DOMAIN t /\ t[i - 1] = u[i])
  BY <1>1, <1>3
<1>6. 1 \in DOMAIN u
  BY <1>1, <1>3
<1>7. ASSUME NEW x, x \in PagesIn(u[1]), x \in Cover(t) PROVE FALSE
  <2>1. PICK i \in DOMAIN t : x \in PagesIn(t[i])
    BY <1>7, CoverIs
  <2> QED BY <1>4, <1>6, <1>7, <2>1 DEF Separate
<1>8. \A x : x \in Cover(u) <=> x \in PagesIn(u[1]) \cup Cover(t)
  <2>1. ASSUME NEW x \in Cover(u) PROVE x \in PagesIn(u[1]) \cup Cover(t)
    <3>1. PICK i \in DOMAIN u : x \in PagesIn(u[i])
      BY CoverIs
    <3> QED BY <1>5, <3>1, CoverIs
  <2>2. ASSUME NEW x \in Cover(t) PROVE x \in Cover(u)
    <3>1. PICK i \in DOMAIN t : x \in PagesIn(t[i])
      BY CoverIs
    <3> QED BY <1>4, <3>1, CoverIs
  <2>3. ASSUME NEW x \in PagesIn(u[1]) PROVE x \in Cover(u)
    BY <1>6, CoverIs
  <2> QED BY <2>1, <2>2, <2>3
<1>9. Separate(t)
  <2>1. ASSUME NEW j \in DOMAIN t, NEW k \in DOMAIN t, j # k
        PROVE  PagesIn(t[j]) \cap PagesIn(t[k]) = {}
    <3>1. j + 1 # k + 1
      BY <1>3, <2>1
    <3> QED BY <1>4, <3>1 DEF Separate
  <2> QED BY <1>3, <2>1 DEF Separate
<1> QED BY <1>2, <1>3, <1>7, <1>8, <1>9

-----------------------------------------------------------------------------
(* Object pools                                                            *)

Pool == [free : Seq(Obj), pages : Seq(Nat), left : Nat]

\* The objects that were handed out at least once, and those that are in use.
Handed(p, m) ==
  {<<x, j>> : x \in Range(p.pages), j \in 0 .. m - 1}
    \ {<<Head(p.pages), j>> : j \in m - p.left .. m - 1}
Used(p, m) == Handed(p, m) \ Range(p.free)

PoolSound(p, m) ==
  /\ p \in Pool /\ IsInjective(p.pages) /\ p.left < m /\ (p.left > 0 => p.pages # <<>>)
  /\ IsInjective(p.free) /\ Range(p.free) \subseteq Handed(p, m)

LEMMA PoolIs ==
  ASSUME NEW p \in Pool
  PROVE  /\ p.free \in Seq(Obj) /\ p.pages \in Seq(Nat) /\ p.left \in Nat
         /\ Range(p.pages) \subseteq Nat
         /\ p = [free |-> p.free, pages |-> p.pages, left |-> p.left]
<1>1. p.free \in Seq(Obj) /\ p.pages \in Seq(Nat) /\ p.left \in Nat
  BY DEF Pool
<1>2. p = [free |-> p.free, pages |-> p.pages, left |-> p.left]
  BY DEF Pool
<1>3. Range(p.pages) \subseteq Nat
  BY <1>1 DEF Range
<1> QED BY <1>1, <1>2, <1>3

LEMMA HandedIs ==
  ASSUME NEW p, NEW m \in Nat, NEW x, NEW j
  PROVE  <<x, j>> \in Handed(p, m) <=> /\ x \in Range(p.pages) /\ j \in 0 .. m - 1
                                       /\ ~(x = Head(p.pages) /\ j \in m - p.left .. m - 1)
  BY DEF Handed

LEMMA HandedPairs ==
  ASSUME NEW p, NEW m \in Nat, NEW o \in Handed(p, m)
  PROVE  \E x \in Range(p.pages), j \in 0 .. m - 1 : o = <<x, j>>
  BY DEF Handed

LEMMA InUseIs ==
  ASSUME NEW s, NEW q
  PROVE  s.pool[q].pages \in Seq(Nat) => InUse(s, q) = Used(s.pool[q], PerPage[q])
<1> SUFFICES ASSUME s.pool[q].pages \in Seq(Nat) PROVE InUse(s, q) = Used(s.pool[q], PerPage[q])
  OBVIOUS
<1>1. PICK p, m : p = s.pool[q] /\ m = PerPage[q]
  OBVIOUS
<1> DEFINE all == {<<p.pages[k], j>> : k \in DOMAIN p.pages, j \in 0 .. m - 1}
           fresh == {<<Head(p.pages), j>> : j \in m - p.left .. m - 1}
<1>2. InUse(s, q) = IF p.pages = <<>> THEN {} ELSE (all \ fresh) \ Range(p.free)
  BY <1>1 DEF InUse
<1>3. all = {<<x, j>> : x \in Range(p.pages), j \in 0 .. m - 1}
  <2>1. \A x : x \in Range(p.pages) <=> \E k \in DOMAIN p.pages : x = p.pages[k]
    BY DEF Range
  <2>2. ASSUME NEW v \in all PROVE v \in {<<x, j>> : x \in Range(p.pages), j \in 0 .. m - 1}
    <3>1. PICK k \in DOMAIN p.pages, j \in 0 .. m - 1 : v = <<p.pages[k], j>>
      OBVIOUS
    <3>2. p.pages[k] \in Range(p.pages)
      BY <2>1
    <3> QED BY <3>1, <3>2
  <2>3. ASSUME NEW x \in Range(p.pages), NEW j \in 0 .. m - 1 PROVE <<x, j>> \in all
    <3>1. PICK k \in DOMAIN p.pages : x = p.pages[k]
      BY <2>1
    <3> QED BY <3>1
  <2> HIDE DEF all
  <2> QED BY <2>2, <2>3
<1>4. p.pages = <<>> => all = {}
  BY <1>1
<1>5. Used(p, m) = (all \ fresh) \ Range(p.free)
  <2> HIDE DEF all
  <2> QED BY <1>3 DEF Used, Handed
<1> HIDE DEF all, fresh
<1> QED BY <1>1, <1>2, <1>4, <1>5

\* p1 is p after object o was handed out.
Takes(p1, p, m, o) ==
  PoolSound(p1, m) /\ o \in Obj /\ o \notin Used(p, m) /\ Used(p1, m) = Used(p, m) \cup {o}

LEMMA TakeFree ==
  ASSUME NEW m \in Nat, NEW p, PoolSound(p, m), p.free # <<>>,
         NEW p1, p1 = [free |-> Tail(p.free), pages |-> p.pages, left |-> p.left]
  PROVE  Takes(p1, p, m, Head(p.free))
<1>1. /\ p \in Pool /\ IsInjective(p.pages) /\ p.left < m /\ (p.left > 0 => p.pages # <<>>)
      /\ IsInjective(p.free) /\ Range(p.free) \subseteq Handed(p, m)
  BY DEF PoolSound
<1>2. p.free \in Seq(Obj) /\ p.pages \in Seq(Nat) /\ p.left \in Nat
  BY <1>1, PoolIs
<1>3. /\ Tail(p.free) \in Seq(Obj) /\ Head(p.free) \in Obj /\ Head(p.free) \in Range(p.free)
      /\ IsInjective(Tail(p.free)) /\ Range(Tail(p.free)) = Range(p.free) \ {Head(p.free)}
  BY <1>1, <1>2, TailDistinct
<1>4. p1.free = Tail(p.free) /\ p1.pages = p.pages /\ p1.left = p.left /\ p1 \in Pool
  BY <1>2, <1>3 DEF Pool
<1>5. Handed(p1, m) = Handed(p, m)
  BY <1>4 DEF Handed
<1>6. PoolSound(p1, m)
  BY <1>1, <1>3, <1>4, <1>5 DEF PoolSound
<1>7. Used(p1, m) = Used(p, m) \cup {Head(p.free)}
  BY <1>1, <1>3, <1>4, <1>5 DEF Used
<1>8. Head(p.free) \notin Used(p, m)
  BY <1>3 DEF Used
<1> QED BY <1>3, <1>6, <1>7, <1>8 DEF Takes

LEMMA TakeNext ==
  ASSUME NEW m \in Nat, NEW p, PoolSound(p, m), p.free = <<>>, p.left # 0,
         NEW p1, p1 = [free |-> p.free, pages |-> p.pages, left |-> p.left - 1]
  PROVE  Takes(p1, p, m, <<Head(p.pages), m - p.left>>)
<1>1. /\ p \in Pool /\ IsInjective(p.pages) /\ p.left < m /\ (p.left > 0 => p.pages # <<>>)
      /\ IsInjective(p.free) /\ Range(p.free) \subseteq Handed(p, m)
  BY DEF PoolSound
<1>2. p.free \in Seq(Obj) /\ p.pages \in Seq(Nat) /\ p.left \in Nat /\ Range(p.pages) \subseteq Nat
  BY <1>1, PoolIs
<1>3. PICK h, l \in Nat : h = Head(p.pages) /\ l = p.left /\ l > 0 /\ l < m
  BY <1>1, <1>2
<1>4. h \in Range(p.pages) /\ h \in Nat
  <2>1. p.pages # <<>>
    BY <1>1, <1>3
  <2>2. Head(p.pages) \in Range(p.pages)
    BY <1>1, <1>2, <2>1, TailDistinct
  <2> QED BY <1>2, <1>3, <2>2
<1>5. p1.free = <<>> /\ p1.pages = p.pages /\ p1.left = l - 1 /\ p1 \in Pool
  BY <1>2, <1>3 DEF Pool
<1>6. PICK o : o = <<h, m - l>>
  OBVIOUS
<1>7. o \in Obj
  BY <1>3, <1>4, <1>6 DEF Obj
<1>8. Range(<<>>) = {} /\ IsInjective(<<>>)
  BY DEF Range, IsInjective
<1>9. ASSUME NEW x \in Range(p.pages), NEW j \in 0 .. m - 1
      PROVE  <<x, j>> \in Handed(p1, m) <=> <<x, j>> \in Handed(p, m) \/ <<x, j>> = o
  <2>1. <<x, j>> \in Handed(p, m) <=> ~(x = h /\ j \in m - l .. m - 1)
    BY <1>3, HandedIs
  <2>2. <<x, j>> \in Handed(p1, m) <=> ~(x = h /\ j \in m - (l - 1) .. m - 1)
    BY <1>3, <1>5, HandedIs
  <2>3. <<x, j>> = o <=> x = h /\ j = m - l
    BY <1>6
  <2>4. j \in m - (l - 1) .. m - 1 <=> j \in m - l .. m - 1 /\ j # m - l
    BY <1>3
  <2>5. m - l \in m - l .. m - 1
    BY <1>3
  <2> QED BY <2>1, <2>2, <2>3, <2>4, <2>5
<1>10. Handed(p1, m) = Handed(p, m) \cup {o}
  <2>1. ASSUME NEW v \in Handed(p1, m) PROVE v \in Handed(p, m) \cup {o}
    <3>1. PICK x \in Range(p.pages), j \in 0 .. m - 1 : v = <<x, j>>
      BY <1>5, HandedPairs
    <3> QED BY <1>9, <3>1
  <2>2. ASSUME NEW v \in Handed(p, m) PROVE v \in Handed(p1, m)
    <3>1. PICK x \in Range(p.pages), j \in 0 .. m - 1 : v = <<x, j>>
      BY HandedPairs
    <3> QED BY <1>9, <3>1
  <2>3. o \in Handed(p1, m)
    <3>1. m - l \in 0 .. m - 1
      BY <1>3
    <3> QED BY <1>4, <1>6, <1>9, <3>1
  <2> QED BY <2>1, <2>2, <2>3
<1>11. o \notin Handed(p, m)
  <2>1. m - l \in m - l .. m - 1
    BY <1>3
  <2> QED BY <1>3, <1>6, <2>1, HandedIs
<1>12. PoolSound(p1, m)
  <2>1. p1.left < m /\ (p1.left > 0 => p1.pages # <<>>)
    BY <1>1, <1>3, <1>5
  <2> QED BY <1>1, <1>5, <1>8, <2>1 DEF PoolSound
<1>13. Used(p1, m) = Used(p, m) \cup {o} /\ o \notin Used(p, m)
  BY <1>5, <1>8, <1>10, <1>11 DEF Used
<1>14. o = <<Head(p.pages), m - p.left>>
  BY <1>3, <1>6
<1> QED BY <1>7, <1>12, <1>13, <1>14 DEF Takes

LEMMA TakePageFor ==
  ASSUME NEW m \in Nat, NEW p, PoolSound(p, m), p.free = <<>>, p.left = 0,
         NEW y \in Nat, y \notin Range(p.pages), NEW c \in Seq(Nat), c # <<>>, Head(c) = y,
         IsInjective(c), Range(c) = Range(p.pages) \cup {y},
         NEW p1, p1 = [free |-> p.free, pages |-> c, left |-> m - 1]
  PROVE  Takes(p1, p, m, <<y, 0>>)
<1>1. p \in Pool /\ IsInjective(p.pages) /\ 0 < m
  BY DEF PoolSound
<1>2. p.pages \in Seq(Nat) /\ Range(p.pages) \subseteq Nat
  BY <1>1, PoolIs
<1>4. c \in Seq(Nat) /\ IsInjective(c) /\ Range(c) = Range(p.pages) \cup {y}
  OBVIOUS
<1>5. c # <<>> /\ Head(c) = y
  OBVIOUS
<1>6. p1.free = <<>> /\ p1.pages = c /\ p1.left = m - 1 /\ p1 \in Pool
  BY <1>1 DEF Pool
<1>7. PICK o : o = <<y, 0>>
  OBVIOUS
<1>8. o \in Obj
  BY <1>7 DEF Obj
<1>9. Range(<<>>) = {} /\ IsInjective(<<>>)
  BY DEF Range, IsInjective
<1>10. ASSUME NEW x \in Range(c), NEW j \in 0 .. m - 1
       PROVE  <<x, j>> \in Handed(p1, m) <=> <<x, j>> \in Handed(p, m) \/ <<x, j>> = o
  <2>1. <<x, j>> \in Handed(p, m) <=> x \in Range(p.pages)
    <3>1. ~(j \in m - p.left .. m - 1)
      OBVIOUS
    <3> QED BY <3>1, HandedIs
  <2>2. <<x, j>> \in Handed(p1, m) <=> ~(x = y /\ j \in m - (m - 1) .. m - 1)
    BY <1>5, <1>6, HandedIs
  <2>3. <<x, j>> = o <=> x = y /\ j = 0
    BY <1>7
  <2>4. j \in m - (m - 1) .. m - 1 <=> j # 0
    BY <1>1
  <2> QED BY <1>4, <2>1, <2>2, <2>3, <2>4
<1>11. Handed(p1, m) = Handed(p, m) \cup {o}
  <2>1. ASSUME NEW v \in Handed(p1, m) PROVE v \in Handed(p, m) \cup {o}
    <3>0. PICK x \in Range(p1.pages), j \in 0 .. m - 1 : v = <<x, j>>
      BY HandedPairs
    <3>1. x \in Range(c) /\ v = <<x, j>>
      BY <1>6, <3>0
    <3>2. <<x, j>> \in Handed(p1, m)
      BY <2>1, <3>1
    <3>3. <<x, j>> \in Handed(p, m) \/ <<x, j>> = o
      BY <1>10, <3>2
    <3> QED BY <3>1, <3>3
  <2>2. ASSUME NEW v \in Handed(p, m) PROVE v \in Handed(p1, m)
    <3>1. PICK x \in Range(p.pages), j \in 0 .. m - 1 : v = <<x, j>>
      BY HandedPairs
    <3> QED BY <1>4, <1>10, <3>1
  <2>3. o \in Handed(p1, m)
    <3>1. 0 \in 0 .. m - 1 /\ y \in Range(c)
      BY <1>1, <1>4
    <3> QED BY <1>7, <1>10, <3>1
  <2> QED BY <2>1, <2>2, <2>3
<1>12. o \notin Handed(p, m)
  BY <1>7, HandedIs
<1>13. PoolSound(p1, m)
  <2>1. p1.left < m /\ p1.pages # <<>>
    BY <1>1, <1>5, <1>6
  <2> QED BY <1>4, <1>6, <1>9, <2>1 DEF PoolSound
<1>14. Used(p1, m) = Used(p, m) \cup {o} /\ o \notin Used(p, m)
  BY <1>6, <1>9, <1>11, <1>12 DEF Used
<1> QED BY <1>4, <1>6, <1>7, <1>8, <1>13, <1>14 DEF Takes

\* p1 is p with o at the head of its free list.
Given(p1, p, o) == p1 = [free |-> <<o>> \o p.free, pages |-> p.pages, left |-> p.left]

LEMMA GiveFree ==
  ASSUME NEW m \in Nat, NEW p, PoolSound(p, m), NEW o \in Used(p, m), NEW p1, Given(p1, p, o)
  PROVE  PoolSound(p1, m) /\ Used(p1, m) = Used(p, m) \ {o}
<1>1. /\ p \in Pool /\ IsInjective(p.pages) /\ p.left < m /\ (p.left > 0 => p.pages # <<>>)
      /\ IsInjective(p.free) /\ Range(p.free) \subseteq Handed(p, m)
  BY DEF PoolSound
<1>2. p.free \in Seq(Obj) /\ p.pages \in Seq(Nat) /\ p.left \in Nat /\ Range(p.pages) \subseteq Nat
  BY <1>1, PoolIs
<1>3. o \in Handed(p, m) /\ o \notin Range(p.free)
  BY DEF Used
<1>4. o \in Obj
  <2>1. PICK x \in Range(p.pages), j \in 0 .. m - 1 : o = <<x, j>>
    BY <1>3, HandedPairs
  <2>2. x \in Nat /\ j \in Nat
    BY <1>2
  <2> QED BY <2>1, <2>2 DEF Obj
<1>5. PICK c : c = <<o>> \o p.free
  OBVIOUS
<1>6. c \in Seq(Obj) /\ IsInjective(c) /\ Range(c) = Range(p.free) \cup {o}
  BY <1>1, <1>2, <1>3, <1>4, <1>5, PrependDistinct
<1>7. p1.free = c /\ p1.pages = p.pages /\ p1.left = p.left /\ p1 \in Pool
  BY <1>2, <1>5, <1>6 DEF Pool, Given
<1>8. Handed(p1, m) = Handed(p, m)
  BY <1>7 DEF Handed
<1>9. PoolSound(p1, m)
  BY <1>1, <1>3, <1>6, <1>7, <1>8 DEF PoolSound
<1>10. Used(p1, m) = Used(p, m) \ {o}
  BY <1>6, <1>7, <1>8 DEF Used
<1> QED BY <1>9, <1>10

-----------------------------------------------------------------------------
(* The page allocator                                                      *)

Store == [head : Seq(Nat), usable : Seq(RangeSet), pool : [PoolName -> Pool], crashed : {FALSE}]

FreeSet(z) == Range(z.head) \cup Cover(z.usable)
PoolSet(z, q) == Range(z.pool[q].pages)
Owned(z) == FreeSet(z) \cup UNION {PoolSet(z, q) : q \in PoolName}

\* No page is twice in the allocator's lists, and none is under two pools.
Orderly(z) ==
  /\ z \in Store
  /\ IsInjective(z.head) /\ Separate(z.usable) /\ Range(z.head) \cap Cover(z.usable) = {}
  /\ \A q \in PoolName : PoolSound(z.pool[q], PerPage[q])
  /\ \A q \in PoolName : PoolSet(z, q) \cap FreeSet(z) = {}
  /\ \A q, t \in PoolName : q # t => PoolSet(z, q) \cap PoolSet(z, t) = {}

\* The null pointer was followed.
Dead(z) ==
  /\ z = [head |-> z.head, usable |-> z.usable, pool |-> z.pool, crashed |-> z.crashed]
  /\ z.crashed = TRUE

LEMMA PerPageIs == \A q \in PoolName : PerPage[q] \in Nat /\ PerPage[q] > 0
  BY FramesAssumption

LEMMA OwnedIs ==
  ASSUME NEW z, NEW x
  PROVE  x \in Owned(z) <=> x \in FreeSet(z) \/ \E q \in PoolName : x \in PoolSet(z, q)
  BY DEF Owned

LEMMA StoreIs ==
  ASSUME NEW z \in Store
  PROVE  /\ z.head \in Seq(Nat) /\ z.usable \in Seq(RangeSet) /\ z.pool \in [PoolName -> Pool]
         /\ z.crashed = FALSE
         /\ z = [head |-> z.head, usable |-> z.usable, pool |-> z.pool, crashed |-> z.crashed]
<1>1. /\ z.head \in Seq(Nat) /\ z.usable \in Seq(RangeSet) /\ z.pool \in [PoolName -> Pool]
      /\ z.crashed = FALSE
  BY DEF Store
<1>2. z = [head |-> z.head, usable |-> z.usable, pool |-> z.pool, crashed |-> z.crashed]
  BY DEF Store
<1> QED BY <1>1, <1>2

LEMMA OwnedNat ==
  ASSUME NEW z, Orderly(z)
  PROVE  FreeSet(z) \subseteq Nat /\ Owned(z) \subseteq Nat
<1>1. z \in Store /\ z.head \in Seq(Nat) /\ z.usable \in Seq(RangeSet) /\ z.pool \in [PoolName -> Pool]
  BY StoreIs DEF Orderly
<1>2. Range(z.head) \subseteq Nat
  BY <1>1 DEF Range
<1>3. Cover(z.usable) \subseteq Nat
  <2> SUFFICES ASSUME NEW x \in Cover(z.usable) PROVE x \in Nat
    OBVIOUS
  <2>1. PICK k \in DOMAIN z.usable : x \in PagesIn(z.usable[k])
    BY CoverIs
  <2>2. PICK r \in RangeSet : r = z.usable[k]
    BY <1>1
  <2>3. r.base \in Nat /\ r.length \in Nat
    BY DEF RangeSet
  <2>4. x \in r.base .. r.base + r.length - 1
    BY <2>1, <2>2 DEF PagesIn
  <2> QED BY <2>3, <2>4
<1>4. \A q \in PoolName : PoolSet(z, q) \subseteq Nat
  BY <1>1, PoolIs DEF PoolSet
<1> QED BY <1>2, <1>3, <1>4, OwnedIs DEF FreeSet

\* z1 is z with p1 for pool q.
Swapped(z1, z, q, p1) ==
  z1 = [head |-> z.head, usable |-> z.usable, pool |-> [z.pool EXCEPT ![q] = p1], crashed |-> FALSE]

Swaps(z1, z, q, p1, extra) ==
  /\ Orderly(z1) /\ Owned(z1) = Owned(z) \cup extra
  /\ z1.pool[q] = p1 /\ \A t \in PoolName \ {q} : z1.pool[t] = z.pool[t]

\* The pages that a pool gets.
Widened(p1, z, q, extra) ==
  /\ PoolSound(p1, PerPage[q]) /\ extra \cap Owned(z) = {}
  /\ Range(p1.pages) = PoolSet(z, q) \cup extra

(* A pool changes, and may get pages. *)
LEMMA SetPool ==
  ASSUME NEW z, Orderly(z), NEW q \in PoolName, NEW p1, NEW extra, Widened(p1, z, q, extra),
         NEW z1, Swapped(z1, z, q, p1)
  PROVE  Swaps(z1, z, q, p1, extra)
<1>0. /\ PoolSound(p1, PerPage[q]) /\ extra \cap Owned(z) = {}
      /\ Range(p1.pages) = PoolSet(z, q) \cup extra
  BY DEF Widened
<1>1. z \in Store /\ z.head \in Seq(Nat) /\ z.usable \in Seq(RangeSet) /\ z.pool \in [PoolName -> Pool]
  BY StoreIs DEF Orderly
<1>2. p1 \in Pool
  BY <1>0 DEF PoolSound
<1>3. /\ z1.head = z.head /\ z1.usable = z.usable /\ z1.pool = [z.pool EXCEPT ![q] = p1]
      /\ z1 \in Store
  <2>1. [z.pool EXCEPT ![q] = p1] \in [PoolName -> Pool]
    BY <1>1, <1>2
  <2> QED BY <1>1, <2>1 DEF Store, Swapped
<1>4. z1.pool[q] = p1 /\ \A t \in PoolName \ {q} : z1.pool[t] = z.pool[t]
  BY <1>1, <1>3
<1>5. FreeSet(z1) = FreeSet(z)
  BY <1>3 DEF FreeSet
<1>6. PoolSet(z1, q) = PoolSet(z, q) \cup extra /\ \A t \in PoolName \ {q} : PoolSet(z1, t) = PoolSet(z, t)
  BY <1>0, <1>4 DEF PoolSet
<1>7. /\ extra \cap FreeSet(z) = {}
      /\ \A t \in PoolName : extra \cap PoolSet(z, t) = {}
  BY <1>0, OwnedIs
<1>8. \A t \in PoolName : PoolSound(z1.pool[t], PerPage[t])
  BY <1>0, <1>4 DEF Orderly
<1>9. \A t \in PoolName : PoolSet(z1, t) \cap FreeSet(z1) = {}
  BY <1>5, <1>6, <1>7 DEF Orderly
<1>10. \A s, t \in PoolName : s # t => PoolSet(z1, s) \cap PoolSet(z1, t) = {}
  <2> SUFFICES ASSUME NEW s \in PoolName, NEW t \in PoolName, s # t
               PROVE  PoolSet(z1, s) \cap PoolSet(z1, t) = {}
    OBVIOUS
  <2>1. PoolSet(z, s) \cap PoolSet(z, t) = {}
    BY DEF Orderly
  <2> QED BY <1>6, <1>7, <2>1
<1>11. Orderly(z1)
  <2>1. IsInjective(z1.head) /\ Separate(z1.usable) /\ Range(z1.head) \cap Cover(z1.usable) = {}
    BY <1>3 DEF Orderly
  <2> QED BY <1>3, <1>8, <1>9, <1>10, <2>1 DEF Orderly
<1>12. Owned(z1) = Owned(z) \cup extra
  <2>1. ASSUME NEW x PROVE x \in Owned(z1) <=> x \in Owned(z) \/ x \in extra
    <3>1. (\E t \in PoolName : x \in PoolSet(z1, t)) <=> (\E t \in PoolName : x \in PoolSet(z, t)) \/ x \in extra
      BY <1>6
    <3> QED BY <1>5, <3>1, OwnedIs
  <2> QED BY <2>1
<1> QED BY <1>4, <1>11, <1>12 DEF Swaps

(* The free pages change. *)
LEMMA SetFree ==
  ASSUME NEW z, Orderly(z), NEW h \in Seq(Nat), NEW u, IsInjective(h), Separate(u),
         Range(h) \cap Cover(u) = {},
         \A q \in PoolName : PoolSet(z, q) \cap (Range(h) \cup Cover(u)) = {},
         NEW z1, z1 = [head |-> h, usable |-> u, pool |-> z.pool, crashed |-> FALSE]
  PROVE  Orderly(z1) /\ FreeSet(z1) = Range(h) \cup Cover(u)
<1>1. z \in Store /\ z.pool \in [PoolName -> Pool]
  BY StoreIs DEF Orderly
<1>2. u \in Seq(RangeSet)
  BY DEF Separate
<1>3. z1.head = h /\ z1.usable = u /\ z1.pool = z.pool /\ z1 \in Store
  BY <1>1, <1>2 DEF Store
<1>4. FreeSet(z1) = Range(h) \cup Cover(u) /\ \A q \in PoolName : PoolSet(z1, q) = PoolSet(z, q)
  BY <1>3 DEF FreeSet, PoolSet
<1> QED BY <1>3, <1>4 DEF Orderly

(* One field changes. *)
LEMMA StoreWith ==
  ASSUME NEW z,
         z = [head |-> z.head, usable |-> z.usable, pool |-> z.pool, crashed |-> z.crashed], NEW v
  PROVE  /\ [z EXCEPT !.head = v]
              = [head |-> v, usable |-> z.usable, pool |-> z.pool, crashed |-> z.crashed]
         /\ [z EXCEPT !.usable = v]
              = [head |-> z.head, usable |-> v, pool |-> z.pool, crashed |-> z.crashed]
         /\ [z EXCEPT !.pool = v]
              = [head |-> z.head, usable |-> z.usable, pool |-> v, crashed |-> z.crashed]
         /\ [z EXCEPT !.crashed = v]
              = [head |-> z.head, usable |-> z.usable, pool |-> z.pool, crashed |-> v]
<1>1. [z EXCEPT !.head = v]
        = [head |-> v, usable |-> z.usable, pool |-> z.pool, crashed |-> z.crashed]
  OBVIOUS
<1>2. [z EXCEPT !.usable = v]
        = [head |-> z.head, usable |-> v, pool |-> z.pool, crashed |-> z.crashed]
  OBVIOUS
<1>3. [z EXCEPT !.pool = v]
        = [head |-> z.head, usable |-> z.usable, pool |-> v, crashed |-> z.crashed]
  OBVIOUS
<1>4. [z EXCEPT !.crashed = v]
        = [head |-> z.head, usable |-> z.usable, pool |-> z.pool, crashed |-> v]
  OBVIOUS
<1> QED BY <1>1, <1>2, <1>3, <1>4

\* g has a page of z.
Gets(g, z) ==
  /\ Orderly(g.s) /\ g.page \in FreeSet(z) /\ g.page \in Nat /\ g.s.pool = z.pool
  /\ g.page \notin Owned(g.s) /\ Owned(z) = Owned(g.s) \cup {g.page}

(* get_page takes a free page, or follows the null pointer. *)
LEMMA GetPageIs ==
  ASSUME NEW z, Orderly(z), NEW g, g = GetPage(z)
  PROVE  Dead(g.s) \/ Gets(g, z)
<1>1. /\ z \in Store /\ z.head \in Seq(Nat) /\ z.usable \in Seq(RangeSet)
      /\ z.pool \in [PoolName -> Pool] /\ z.crashed = FALSE
      /\ z = [head |-> z.head, usable |-> z.usable, pool |-> z.pool, crashed |-> z.crashed]
  BY StoreIs DEF Orderly
<1>2. /\ IsInjective(z.head) /\ Separate(z.usable) /\ Range(z.head) \cap Cover(z.usable) = {}
      /\ \A q \in PoolName : PoolSet(z, q) \cap FreeSet(z) = {}
  BY DEF Orderly
<1>3. ASSUME NEW h \in Seq(Nat), NEW u, IsInjective(h), Separate(u), Range(h) \cap Cover(u) = {},
             NEW y \in Nat, FreeSet(z) = Range(h) \cup Cover(u) \cup {y}, y \notin Range(h) \cup Cover(u),
             g.page = y,
             g.s = [head |-> h, usable |-> u, pool |-> z.pool, crashed |-> FALSE]
      PROVE  Gets(g, z)
  <2>1. Orderly(g.s) /\ FreeSet(g.s) = Range(h) \cup Cover(u)
    <3>1. \A q \in PoolName : PoolSet(z, q) \cap (Range(h) \cup Cover(u)) = {}
      BY <1>2, <1>3
    <3> QED BY <1>3, <3>1, SetFree
  <2>2. g.s.pool = z.pool
    BY <1>3
  <2>3. \A q \in PoolName : PoolSet(g.s, q) = PoolSet(z, q) /\ y \notin PoolSet(z, q)
    BY <1>2, <1>3, <2>2 DEF PoolSet
  <2>4. y \notin Owned(g.s)
    BY <1>3, <2>1, <2>3, OwnedIs
  <2>5. Owned(z) = Owned(g.s) \cup {y}
    <3>1. ASSUME NEW x PROVE x \in Owned(z) <=> x \in Owned(g.s) \/ x = y
      <4>1. x \in FreeSet(z) <=> x \in FreeSet(g.s) \/ x = y
        BY <1>3, <2>1
      <4> QED BY <2>3, <4>1, OwnedIs
    <3> QED BY <3>1
  <2> QED BY <1>3, <2>1, <2>2, <2>4, <2>5 DEF Gets
<1>4. CASE z.head # <<>>
  <2>4. PICK h, y : h = Tail(z.head) /\ y = Head(z.head)
    OBVIOUS
  <2>1. g = [page |-> y, s |-> [z EXCEPT !.head = h]]
    BY <1>4, <2>4 DEF GetPage
  <2>2. [z EXCEPT !.head = h]
          = [head |-> h, usable |-> z.usable, pool |-> z.pool, crashed |-> FALSE]
    <3>1. z = [head |-> z.head, usable |-> z.usable, pool |-> z.pool, crashed |-> z.crashed]
      BY <1>1
    <3>2. [z EXCEPT !.head = h]
            = [head |-> h, usable |-> z.usable, pool |-> z.pool, crashed |-> z.crashed]
      BY <3>1, StoreWith
    <3> QED BY <1>1, <3>2
  <2>3. /\ Tail(z.head) \in Seq(Nat) /\ Head(z.head) \in Nat /\ Head(z.head) \in Range(z.head)
        /\ IsInjective(Tail(z.head)) /\ Range(Tail(z.head)) = Range(z.head) \ {Head(z.head)}
    BY <1>1, <1>2, <1>4, TailDistinct
  <2>5. /\ h \in Seq(Nat) /\ IsInjective(h) /\ Range(h) = Range(z.head) \ {y} /\ y \in Nat
        /\ y \in Range(z.head)
    BY <2>3, <2>4
  <2>6. g.page = y /\ g.s = [head |-> h, usable |-> z.usable, pool |-> z.pool, crashed |-> FALSE]
    BY <2>1, <2>2, <2>4
  <2>7. Range(h) \cap Cover(z.usable) = {} /\ y \notin Range(h) \cup Cover(z.usable)
    BY <1>2, <2>5
  <2>8. FreeSet(z) = Range(h) \cup Cover(z.usable) \cup {y}
    BY <2>5 DEF FreeSet
  <2> QED BY <1>2, <1>3, <2>5, <2>6, <2>7, <2>8
<1>5. CASE z.head = <<>> /\ z.usable = <<>>
  <2>1. g = [page |-> None, s |-> [z EXCEPT !.crashed = TRUE]]
    BY <1>5 DEF GetPage
  <2>2. [z EXCEPT !.crashed = TRUE]
          = [head |-> z.head, usable |-> z.usable, pool |-> z.pool, crashed |-> TRUE]
    BY <1>1, StoreWith
  <2>3. g.s = [head |-> z.head, usable |-> z.usable, pool |-> z.pool, crashed |-> TRUE]
    BY <2>1, <2>2
  <2>4. PICK d : d = g.s
    OBVIOUS
  <2>5. Dead(d)
    BY <2>3, <2>4 DEF Dead
  <2> QED BY <2>4, <2>5
<1>6. CASE z.head = <<>> /\ z.usable # <<>>
  <2>1. PICK r, t, h : r = Head(z.usable) /\ t = Tail(z.usable) /\ h = z.head
    OBVIOUS
  <2>2. /\ r \in RangeSet /\ Separate(t) /\ PagesIn(r) \cap Cover(t) = {}
        /\ Cover(z.usable) = PagesIn(r) \cup Cover(t)
    BY <1>2, <1>6, <2>1, SeparateTail
  <2>3. r.base \in Nat /\ r.length \in Nat \ {0}
    BY <2>2 DEF RangeSet
  <2>4. PICK b \in Nat, l \in Nat \ {0} : b = r.base /\ l = r.length /\ PagesIn(r) = b .. b + l - 1
    BY <2>3 DEF PagesIn
  <2> DEFINE u == IF l = 1 THEN t ELSE <<[base |-> b + 1, length |-> l - 1]>> \o t
  <2>5. Separate(u) /\ Cover(u) = Cover(z.usable) \ {b} /\ b \in Cover(z.usable)
    <3>1. b \in PagesIn(r)
      BY <2>4
    <3>2. CASE l = 1
      <4>1. PagesIn(r) = {b}
        BY <2>4, <3>2
      <4> QED BY <2>2, <3>2, <4>1
    <3>3. CASE l # 1
      <4>1. PICK v : v = [base |-> b + 1, length |-> l - 1]
        OBVIOUS
      <4>2. v \in RangeSet
        BY <3>3, <4>1 DEF RangeSet
      <4>3. PagesIn(v) = PagesIn(r) \ {b}
        <5>1. PagesIn(v) = b + 1 .. (b + 1) + (l - 1) - 1
          BY <4>1 DEF PagesIn
        <5> QED BY <2>4, <3>3, <5>1
      <4>4. Separate(<<v>>) /\ Cover(<<v>>) = PagesIn(v)
        BY <4>2, SeparateOne
      <4>5. Cover(<<v>>) \cap Cover(t) = {}
        BY <2>2, <4>3, <4>4
      <4>6. Separate(<<v>> \o t) /\ Cover(<<v>> \o t) = Cover(<<v>>) \cup Cover(t)
        BY <2>2, <4>4, <4>5, SeparateJoin
      <4>7. u = <<v>> \o t
        BY <3>3, <4>1
      <4>8. Cover(u) = Cover(z.usable) \ {b}
        BY <2>2, <3>1, <4>3, <4>4, <4>6, <4>7
      <4> QED BY <2>2, <3>1, <4>6, <4>7, <4>8
    <3> QED BY <3>2, <3>3
  <2>6. g.page = b /\ g.s = [head |-> h, usable |-> u, pool |-> z.pool, crashed |-> FALSE]
    <3>1. g = [page |-> b, s |-> [z EXCEPT !.usable = u]]
      BY <1>6, <2>1, <2>4 DEF GetPage
    <3> HIDE DEF u
    <3>2. [z EXCEPT !.usable = u]
            = [head |-> z.head, usable |-> u, pool |-> z.pool, crashed |-> FALSE]
      BY <1>1, StoreWith
    <3> QED BY <2>1, <3>1, <3>2
  <2> HIDE DEF u
  <2>7. h \in Seq(Nat) /\ IsInjective(h) /\ Range(h) = {}
    BY <1>1, <1>2, <1>6, <2>1 DEF Range
  <2>8. FreeSet(z) = Range(h) \cup Cover(u) \cup {b} /\ b \notin Range(h) \cup Cover(u)
    BY <2>1, <2>5, <2>7 DEF FreeSet
  <2> QED BY <1>3, <2>5, <2>6, <2>7, <2>8
<1> QED BY <1>4, <1>5, <1>6

(* drop_page. *)
LEMMA DropPageIs ==
  ASSUME NEW z, Orderly(z), NEW y \in Nat, y \notin Owned(z), NEW z1, z1 = DropPage(z, y)
  PROVE  Orderly(z1) /\ Owned(z1) = Owned(z) \cup {y} /\ z1.pool = z.pool
<1>1. /\ z \in Store /\ z.head \in Seq(Nat) /\ z.pool \in [PoolName -> Pool] /\ z.crashed = FALSE
      /\ z = [head |-> z.head, usable |-> z.usable, pool |-> z.pool, crashed |-> z.crashed]
  BY StoreIs DEF Orderly
<1>2. /\ IsInjective(z.head) /\ Separate(z.usable) /\ Range(z.head) \cap Cover(z.usable) = {}
      /\ \A q \in PoolName : PoolSet(z, q) \cap FreeSet(z) = {}
  BY DEF Orderly
<1>3. y \notin FreeSet(z) /\ \A q \in PoolName : y \notin PoolSet(z, q)
  BY OwnedIs
<1>4. PICK h : h = <<y>> \o z.head
  OBVIOUS
<1>5. h \in Seq(Nat) /\ IsInjective(h) /\ Range(h) = Range(z.head) \cup {y}
  BY <1>1, <1>2, <1>3, <1>4, PrependDistinct DEF FreeSet
<1>6. z1 = [head |-> h, usable |-> z.usable, pool |-> z.pool, crashed |-> FALSE]
  BY <1>1, <1>4 DEF DropPage
<1>7. Range(h) \cap Cover(z.usable) = {} /\ \A q \in PoolName : PoolSet(z, q) \cap (Range(h) \cup Cover(z.usable)) = {}
  BY <1>2, <1>3, <1>5 DEF FreeSet
<1>8. Orderly(z1) /\ FreeSet(z1) = Range(h) \cup Cover(z.usable)
  BY <1>2, <1>5, <1>6, <1>7, SetFree
<1>9. z1.pool = z.pool /\ FreeSet(z1) = FreeSet(z) \cup {y}
  <2>1. z1.pool = z.pool
    BY <1>6
  <2> QED BY <1>5, <1>8, <2>1 DEF FreeSet
<1>10. \A q \in PoolName : PoolSet(z1, q) = PoolSet(z, q)
  BY <1>9 DEF PoolSet
<1>11. Owned(z1) = Owned(z) \cup {y}
  <2>1. \A x : x \in Owned(z1) <=> x \in Owned(z) \/ x = y
    BY <1>9, <1>10, OwnedIs
  <2> QED BY <2>1
<1> QED BY <1>8, <1>9, <1>11

(* One field of a pool changes. *)
LEMMA PoolWith ==
  ASSUME NEW z,
         z = [head |-> z.head, usable |-> z.usable, pool |-> z.pool, crashed |-> z.crashed],
         NEW q \in DOMAIN z.pool, NEW p, p = z.pool[q],
         p = [free |-> p.free, pages |-> p.pages, left |-> p.left], NEW v
  PROVE  /\ [z EXCEPT !.pool[q].free = v]
              = [head |-> z.head, usable |-> z.usable,
                 pool |-> [z.pool EXCEPT ![q] = [free |-> v, pages |-> p.pages, left |-> p.left]],
                 crashed |-> z.crashed]
         /\ [z EXCEPT !.pool[q].left = v]
              = [head |-> z.head, usable |-> z.usable,
                 pool |-> [z.pool EXCEPT ![q] = [free |-> p.free, pages |-> p.pages, left |-> v]],
                 crashed |-> z.crashed]
         /\ [z EXCEPT !.pool[q] = v]
              = [head |-> z.head, usable |-> z.usable, pool |-> [z.pool EXCEPT ![q] = v],
                 crashed |-> z.crashed]
<1>1. PICK w : w = z.pool
  OBVIOUS
<1>2. /\ [p EXCEPT !.free = v] = [free |-> v, pages |-> p.pages, left |-> p.left]
      /\ [p EXCEPT !.left = v] = [free |-> p.free, pages |-> p.pages, left |-> v]
  OBVIOUS
<1>3. /\ [w EXCEPT ![q].free = v] = [w EXCEPT ![q] = [p EXCEPT !.free = v]]
      /\ [w EXCEPT ![q].left = v] = [w EXCEPT ![q] = [p EXCEPT !.left = v]]
  BY <1>1
<1>4. /\ [z EXCEPT !.pool[q].free = v] = [z EXCEPT !.pool = [w EXCEPT ![q].free = v]]
      /\ [z EXCEPT !.pool[q].left = v] = [z EXCEPT !.pool = [w EXCEPT ![q].left = v]]
      /\ [z EXCEPT !.pool[q] = v] = [z EXCEPT !.pool = [w EXCEPT ![q] = v]]
  BY <1>1
<1>5. PICK w1, w2, w3 : /\ w1 = [w EXCEPT ![q] = [p EXCEPT !.free = v]]
                        /\ w2 = [w EXCEPT ![q] = [p EXCEPT !.left = v]]
                        /\ w3 = [w EXCEPT ![q] = v]
  OBVIOUS
<1>6. /\ [z EXCEPT !.pool = w1]
           = [head |-> z.head, usable |-> z.usable, pool |-> w1, crashed |-> z.crashed]
      /\ [z EXCEPT !.pool = w2]
           = [head |-> z.head, usable |-> z.usable, pool |-> w2, crashed |-> z.crashed]
      /\ [z EXCEPT !.pool = w3]
           = [head |-> z.head, usable |-> z.usable, pool |-> w3, crashed |-> z.crashed]
  BY StoreWith
<1> QED BY <1>1, <1>2, <1>3, <1>4, <1>5, <1>6

LEMMA InUseSame ==
  ASSUME NEW s, NEW z, NEW q, s.pool[q] = z.pool[q]
  PROVE  InUse(s, q) = InUse(z, q)
  BY DEF InUse

LEMMA OrderlyPool ==
  ASSUME NEW z, Orderly(z), NEW q \in PoolName
  PROVE  /\ q \in DOMAIN z.pool /\ z.pool[q] \in Pool /\ PoolSound(z.pool[q], PerPage[q])
         /\ z = [head |-> z.head, usable |-> z.usable, pool |-> z.pool, crashed |-> z.crashed]
         /\ z.crashed = FALSE
         /\ InUse(z, q) = Used(z.pool[q], PerPage[q])
         /\ z.pool[q] = [free |-> z.pool[q].free, pages |-> z.pool[q].pages, left |-> z.pool[q].left]
<1>1. z \in Store
  BY DEF Orderly
<1>2. /\ z.pool \in [PoolName -> Pool] /\ z.crashed = FALSE
      /\ z = [head |-> z.head, usable |-> z.usable, pool |-> z.pool, crashed |-> z.crashed]
  BY <1>1, StoreIs
<1>3. z.pool[q] \in Pool /\ q \in DOMAIN z.pool
  BY <1>2
<1>4. PoolSound(z.pool[q], PerPage[q])
  BY DEF Orderly
<1>5. z.pool[q].pages \in Seq(Nat)
  BY <1>3, PoolIs
<1>6. InUse(z, q) = Used(z.pool[q], PerPage[q])
  BY <1>5, InUseIs
<1>7. z.pool[q] = [free |-> z.pool[q].free, pages |-> z.pool[q].pages, left |-> z.pool[q].left]
  BY <1>3, PoolIs
<1> QED BY <1>2, <1>3, <1>4, <1>6, <1>7

\* a has an object of pool q.
Allots(a, z, q) ==
  /\ Orderly(a.s) /\ a.obj \in Obj /\ a.obj \notin InUse(z, q)
  /\ InUse(a.s, q) = InUse(z, q) \cup {a.obj}
  /\ Owned(a.s) = Owned(z) /\ \A t \in PoolName \ {q} : a.s.pool[t] = z.pool[t]

(* The state in which pool q has become p1. *)
LEMMA AllotsFrom ==
  ASSUME NEW z, Orderly(z), NEW q \in PoolName, NEW g, Orderly(g), g.pool = z.pool,
         NEW extra, extra \cap Owned(g) = {}, Owned(z) = Owned(g) \cup extra,
         NEW a, NEW p1, Takes(p1, z.pool[q], PerPage[q], a.obj),
         Range(p1.pages) = PoolSet(z, q) \cup extra,
         Swapped(a.s, g, q, p1)
  PROVE  Allots(a, z, q)
<1>1. /\ PoolSound(p1, PerPage[q]) /\ a.obj \in Obj /\ a.obj \notin Used(z.pool[q], PerPage[q])
      /\ Used(p1, PerPage[q]) = Used(z.pool[q], PerPage[q]) \cup {a.obj}
  BY DEF Takes
<1>2. PoolSet(g, q) = PoolSet(z, q)
  BY DEF PoolSet
<1>3. /\ Orderly(a.s) /\ Owned(a.s) = Owned(g) \cup extra
      /\ a.s.pool[q] = p1 /\ \A t \in PoolName \ {q} : a.s.pool[t] = g.pool[t]
  <2>1. Range(p1.pages) = PoolSet(g, q) \cup extra
    BY <1>2
  <2>2. Widened(p1, g, q, extra)
    BY <1>1, <2>1 DEF Widened
  <2>3. Swaps(a.s, g, q, p1, extra)
    BY <2>2, SetPool
  <2> QED BY <2>3 DEF Swaps
<1>4. InUse(a.s, q) = Used(p1, PerPage[q]) /\ InUse(z, q) = Used(z.pool[q], PerPage[q])
  BY <1>3, OrderlyPool
<1> QED BY <1>1, <1>3, <1>4 DEF Allots

(* obj_pool_alloc hands out an object that is not in use, or crashes. *)
LEMMA ObjAllocIs ==
  ASSUME NEW z, Orderly(z), NEW q \in PoolName, NEW a, a = ObjAlloc(z, q)
  PROVE  Dead(a.s) \/ Allots(a, z, q)
<1>1. PICK p, m : p = z.pool[q] /\ m = PerPage[q]
  OBVIOUS
<1>2. /\ q \in DOMAIN z.pool /\ p \in Pool /\ PoolSound(p, m)
      /\ z = [head |-> z.head, usable |-> z.usable, pool |-> z.pool, crashed |-> z.crashed]
      /\ z.crashed = FALSE /\ p = [free |-> p.free, pages |-> p.pages, left |-> p.left]
  BY <1>1, OrderlyPool
<1>3. m \in Nat /\ m > 0
  BY <1>1, PerPageIs
<1>4. Range(p.pages) = PoolSet(z, q) \cup {} /\ {} \cap Owned(z) = {} /\ Owned(z) = Owned(z) \cup {}
  BY <1>1 DEF PoolSet
<1>5. CASE p.free # <<>>
  <2>1. PICK h, f : h = Head(p.free) /\ f = Tail(p.free)
    OBVIOUS
  <2>0. PICK d : d = [z EXCEPT !.pool[q].free = f]
    OBVIOUS
  <2>2. a = [obj |-> h, s |-> d]
    BY <2>0, <1>1, <1>5, <2>1 DEF ObjAlloc
  <2>3. PICK p1 : p1 = [free |-> f, pages |-> p.pages, left |-> p.left]
    OBVIOUS
  <2>4. Takes(p1, p, m, h)
    BY <1>2, <1>3, <1>5, <2>1, <2>3, TakeFree
  <2>5. d = [head |-> z.head, usable |-> z.usable, pool |-> [z.pool EXCEPT ![q] = p1],
             crashed |-> z.crashed]
    BY <1>1, <1>2, <2>0, <2>3, PoolWith
  <2>6. a.obj = h /\ Swapped(a.s, z, q, p1)
    <3>1. Swapped(d, z, q, p1)
      BY <1>2, <2>5 DEF Swapped
    <3> QED BY <2>2, <3>1
  <2>7. Range(p1.pages) = PoolSet(z, q) \cup {}
    BY <1>4, <2>3
  <2> QED BY <1>1, <1>4, <2>4, <2>6, <2>7, AllotsFrom
<1>6. CASE p.free = <<>> /\ p.left # 0
  <2>1. PICK l : l = p.left - 1
    OBVIOUS
  <2>0. PICK d : d = [z EXCEPT !.pool[q].left = l]
    OBVIOUS
  <2>2. a = [obj |-> <<Head(p.pages), m - p.left>>, s |-> d]
    BY <2>0, <1>1, <1>6, <2>1 DEF ObjAlloc
  <2>3. PICK p1 : p1 = [free |-> p.free, pages |-> p.pages, left |-> l]
    OBVIOUS
  <2>4. Takes(p1, p, m, <<Head(p.pages), m - p.left>>)
    BY <1>2, <1>3, <1>6, <2>1, <2>3, TakeNext
  <2>5. d = [head |-> z.head, usable |-> z.usable, pool |-> [z.pool EXCEPT ![q] = p1],
             crashed |-> z.crashed]
    BY <1>1, <1>2, <2>0, <2>3, PoolWith
  <2>6. a.obj = <<Head(p.pages), m - p.left>> /\ Swapped(a.s, z, q, p1)
    <3>1. Swapped(d, z, q, p1)
      BY <1>2, <2>5 DEF Swapped
    <3> QED BY <2>2, <3>1
  <2>7. Range(p1.pages) = PoolSet(z, q) \cup {}
    BY <1>4, <2>3
  <2>8. Takes(p1, p, m, a.obj)
    BY <2>4, <2>6
  <2> QED BY <1>1, <1>4, <2>6, <2>7, <2>8, AllotsFrom
<1>7. CASE p.free = <<>> /\ p.left = 0
  <2>1. PICK g, c, y : g = GetPage(z) /\ y = g.page /\ c = <<y>> \o p.pages
    OBVIOUS
  <2>2. PICK p1 : p1 = [free |-> p.free, pages |-> c, left |-> m - 1]
    OBVIOUS
  <2>3. a = [obj |-> <<y, 0>>, s |-> [g.s EXCEPT !.pool[q] = p1]]
    BY <1>1, <1>7, <2>1, <2>2 DEF ObjAlloc
  <2>4. CASE Dead(g.s)
    <3>1. PICK d : d = g.s
      OBVIOUS
    <3>2. /\ d = [head |-> d.head, usable |-> d.usable, pool |-> d.pool, crashed |-> d.crashed]
          /\ d.crashed = TRUE
      BY <2>4, <3>1 DEF Dead
    <3>3. PICK w : w = [d.pool EXCEPT ![q] = p1]
      OBVIOUS
    <3>4. [d EXCEPT !.pool[q] = p1] = [d EXCEPT !.pool = w]
      BY <3>3
    <3>5. [d EXCEPT !.pool = w]
            = [head |-> d.head, usable |-> d.usable, pool |-> w, crashed |-> d.crashed]
      BY <3>2, StoreWith
    <3>6. PICK b : b = a.s
      OBVIOUS
    <3>7. b = [head |-> d.head, usable |-> d.usable, pool |-> w, crashed |-> TRUE]
      <4>1. PICK k : k = [d EXCEPT !.pool[q] = p1]
        OBVIOUS
      <4>2. a = [obj |-> <<y, 0>>, s |-> k]
        BY <2>3, <3>1, <4>1
      <4>3. b = k
        BY <3>6, <4>2
      <4> QED BY <3>2, <3>4, <3>5, <4>1, <4>3
    <3>8. Dead(b)
      BY <3>7 DEF Dead
    <3> QED BY <3>6, <3>8
  <2>5. CASE Gets(g, z)
    <3>1. /\ Orderly(g.s) /\ y \in Nat /\ g.s.pool = z.pool /\ y \in FreeSet(z)
          /\ y \notin Owned(g.s) /\ Owned(z) = Owned(g.s) \cup {y}
      BY <2>1, <2>5 DEF Gets
    <3>2. y \notin Range(p.pages)
      <4>1. PoolSet(z, q) \cap FreeSet(z) = {}
        BY DEF Orderly
      <4> QED BY <1>1, <3>1, <4>1 DEF PoolSet
    <3>3. p.pages \in Seq(Nat) /\ IsInjective(p.pages)
      BY <1>2, PoolIs DEF PoolSound
    <3>4. c \in Seq(Nat) /\ IsInjective(c) /\ Range(c) = Range(p.pages) \cup {y}
      BY <2>1, <3>1, <3>2, <3>3, PrependDistinct
    <3>5. c # <<>> /\ Head(c) = y
      BY <2>1, <3>1, <3>3
    <3>6. Takes(p1, p, m, <<y, 0>>)
      BY <1>2, <1>3, <1>7, <2>2, <3>1, <3>2, <3>4, <3>5, TakePageFor
    <3>7. PICK d : d = g.s
      OBVIOUS
    <3>8. /\ q \in DOMAIN d.pool /\ d.crashed = FALSE
          /\ d = [head |-> d.head, usable |-> d.usable, pool |-> d.pool, crashed |-> d.crashed]
      BY <3>1, <3>7, OrderlyPool
    <3>9. [d EXCEPT !.pool[q] = p1]
            = [head |-> d.head, usable |-> d.usable, pool |-> [d.pool EXCEPT ![q] = p1],
               crashed |-> d.crashed]
      <4>1. d.pool[q] = p
        BY <1>1, <3>1, <3>7
      <4> QED BY <1>2, <3>8, <4>1, PoolWith
    <3>10. a.obj = <<y, 0>> /\ Swapped(a.s, d, q, p1)
      <4>1. PICK k : k = [d EXCEPT !.pool[q] = p1]
        OBVIOUS
      <4>2. a = [obj |-> <<y, 0>>, s |-> k]
        BY <2>3, <3>7, <4>1
      <4>3. a.s = k /\ a.obj = <<y, 0>>
        BY <4>2
      <4>4. Swapped(k, d, q, p1)
        BY <3>8, <3>9, <4>1 DEF Swapped
      <4> QED BY <4>3, <4>4
    <3>11. Range(p1.pages) = PoolSet(z, q) \cup {y}
      BY <1>4, <2>2, <3>4
    <3>12. Takes(p1, p, m, a.obj)
      BY <3>6, <3>10
    <3>13. {y} \cap Owned(d) = {} /\ Orderly(d) /\ d.pool = z.pool /\ Owned(z) = Owned(d) \cup {y}
      BY <3>1, <3>7
    <3> QED BY <1>1, <3>10, <3>11, <3>12, <3>13, AllotsFrom
  <2> QED BY <2>1, <2>4, <2>5, GetPageIs
<1> QED BY <1>5, <1>6, <1>7

(* Nothing is alive again after a crash. *)
LEMMA DeadWith ==
  ASSUME NEW z, Dead(z), NEW v, NEW q
  PROVE  /\ Dead([z EXCEPT !.head = v]) /\ Dead([z EXCEPT !.usable = v])
         /\ Dead([z EXCEPT !.pool = v]) /\ Dead([z EXCEPT !.crashed = TRUE])
<1>1. /\ z = [head |-> z.head, usable |-> z.usable, pool |-> z.pool, crashed |-> z.crashed]
      /\ z.crashed = TRUE
  BY DEF Dead
<1>2. PICK a, b, c, d : /\ a = [z EXCEPT !.head = v] /\ b = [z EXCEPT !.usable = v]
                        /\ c = [z EXCEPT !.pool = v] /\ d = [z EXCEPT !.crashed = TRUE]
  OBVIOUS
<1>3. a = [head |-> v, usable |-> z.usable, pool |-> z.pool, crashed |-> z.crashed]
  BY <1>1, <1>2, StoreWith
<1>4. b = [head |-> z.head, usable |-> v, pool |-> z.pool, crashed |-> z.crashed]
  BY <1>1, <1>2, StoreWith
<1>5. c = [head |-> z.head, usable |-> z.usable, pool |-> v, crashed |-> z.crashed]
  BY <1>1, <1>2, StoreWith
<1>6. d = [head |-> z.head, usable |-> z.usable, pool |-> z.pool, crashed |-> TRUE]
  BY <1>1, <1>2, StoreWith
<1>7. Dead(a) /\ Dead(b) /\ Dead(c) /\ Dead(d)
  <2>1. Dead(a)
    BY <1>1, <1>3 DEF Dead
  <2>2. Dead(b)
    BY <1>1, <1>4 DEF Dead
  <2>3. Dead(c)
    BY <1>1, <1>5 DEF Dead
  <2>4. Dead(d)
    BY <1>6 DEF Dead
  <2> QED BY <2>1, <2>2, <2>3, <2>4
<1> QED BY <1>2, <1>7

LEMMA DeadAlloc ==
  ASSUME NEW z, Dead(z), NEW q
  PROVE  Dead(ObjAlloc(z, q).s)
<1>1. PICK g, p, a : g = GetPage(z) /\ p = z.pool[q] /\ a = ObjAlloc(z, q)
  OBVIOUS
<1>2. Dead(g.s)
  <2>1. PICK h, u, r : /\ h = Tail(z.head) /\ r = Head(z.usable)
                       /\ u = IF r.length = 1 THEN Tail(z.usable)
                              ELSE <<[base |-> r.base + 1, length |-> r.length - 1]>> \o Tail(z.usable)
    OBVIOUS
  <2>2. PICK a1, a2, a3 : a1 = [z EXCEPT !.head = h] /\ a2 = [z EXCEPT !.usable = u] /\ a3 = [z EXCEPT !.crashed = TRUE]
    OBVIOUS
  <2>3. Dead(a1) /\ Dead(a2) /\ Dead(a3)
    BY <2>2, DeadWith
  <2>4. \/ g = [page |-> Head(z.head), s |-> a1]
        \/ g = [page |-> None, s |-> a3]
        \/ g = [page |-> r.base, s |-> a2]
    BY <1>1, <2>1, <2>2 DEF GetPage
  <2> QED BY <2>3, <2>4
<1>3. PICK f, l, p1, w1, w2, w3 :
        /\ f = Tail(p.free) /\ l = p.left - 1
        /\ p1 = [free |-> <<>>, pages |-> <<g.page>> \o p.pages, left |-> PerPage[q] - 1]
        /\ w1 = [z.pool EXCEPT ![q].free = f] /\ w2 = [z.pool EXCEPT ![q].left = l]
        /\ w3 = [g.s.pool EXCEPT ![q] = p1]
  OBVIOUS
<1>4. PICK a1, a2, a3 : /\ a1 = [z EXCEPT !.pool = w1] /\ a2 = [z EXCEPT !.pool = w2]
                        /\ a3 = [g.s EXCEPT !.pool = w3]
  OBVIOUS
<1>5. Dead(a1) /\ Dead(a2) /\ Dead(a3)
  BY <1>2, <1>4, DeadWith
<1>6. /\ [z EXCEPT !.pool[q].free = f] = a1 /\ [z EXCEPT !.pool[q].left = l] = a2
      /\ [g.s EXCEPT !.pool[q] = p1] = a3
  BY <1>3, <1>4
<1>7. \/ a = [obj |-> Head(p.free), s |-> [z EXCEPT !.pool[q].free = f]]
      \/ a = [obj |-> <<g.page, 0>>, s |-> [g.s EXCEPT !.pool[q] = p1]]
      \/ a = [obj |-> <<Head(p.pages), PerPage[q] - p.left>>, s |-> [z EXCEPT !.pool[q].left = l]]
  BY <1>1, <1>3 DEF ObjAlloc
<1>8. \/ a = [obj |-> Head(p.free), s |-> a1]
      \/ a = [obj |-> <<g.page, 0>>, s |-> a3]
      \/ a = [obj |-> <<Head(p.pages), PerPage[q] - p.left>>, s |-> a2]
  BY <1>6, <1>7
<1>9. a.s = a1 \/ a.s = a2 \/ a.s = a3
  BY <1>8
<1> QED BY <1>1, <1>5, <1>9

\* z1 has object o of pool q back.
TakesBack(z1, z, q, o) ==
  /\ Orderly(z1) /\ InUse(z1, q) = InUse(z, q) \ {o} /\ Owned(z1) = Owned(z)
  /\ \A t \in PoolName \ {q} : z1.pool[t] = z.pool[t]

(* obj_pool_free. *)
LEMMA ObjFreeIs ==
  ASSUME NEW z, Orderly(z), NEW q \in PoolName, NEW o \in InUse(z, q), NEW z1, z1 = ObjFree(z, q, o)
  PROVE  TakesBack(z1, z, q, o)
<1>1. PICK p, m : p = z.pool[q] /\ m = PerPage[q]
  OBVIOUS
<1>2. /\ q \in DOMAIN z.pool /\ p \in Pool /\ PoolSound(p, m) /\ InUse(z, q) = Used(p, m)
      /\ z = [head |-> z.head, usable |-> z.usable, pool |-> z.pool, crashed |-> z.crashed]
      /\ z.crashed = FALSE /\ p = [free |-> p.free, pages |-> p.pages, left |-> p.left]
  BY <1>1, OrderlyPool
<1>3. m \in Nat /\ m > 0
  BY <1>1, PerPageIs
<1>4. PICK f : f = <<o>> \o p.free
  OBVIOUS
<1>5. PICK p1 : p1 = [free |-> f, pages |-> p.pages, left |-> p.left]
  OBVIOUS
<1>6. PoolSound(p1, m) /\ Used(p1, m) = Used(p, m) \ {o}
  <2>1. Given(p1, p, o)
    BY <1>4, <1>5 DEF Given
  <2>2. o \in Used(p, m)
    BY <1>2
  <2> QED BY <1>2, <1>3, <2>1, <2>2, GiveFree
<1>7. z1 = [z EXCEPT !.pool[q].free = f]
  BY <1>1, <1>4 DEF ObjFree
<1>8. [z EXCEPT !.pool[q].free = f]
        = [head |-> z.head, usable |-> z.usable, pool |-> [z.pool EXCEPT ![q] = p1],
           crashed |-> z.crashed]
  BY <1>1, <1>2, <1>5, PoolWith
<1>9. Swapped(z1, z, q, p1)
  BY <1>2, <1>7, <1>8 DEF Swapped
<1>10. PICK extra : extra = {}
  OBVIOUS
<1>11. /\ Orderly(z1) /\ Owned(z1) = Owned(z)
       /\ z1.pool[q] = p1 /\ \A t \in PoolName \ {q} : z1.pool[t] = z.pool[t]
  <2>1. Range(p1.pages) = PoolSet(z, q) \cup extra /\ extra \cap Owned(z) = {}
    BY <1>1, <1>5, <1>10 DEF PoolSet
  <2>2. PoolSound(p1, PerPage[q])
    BY <1>1, <1>6
  <2>3. Widened(p1, z, q, extra)
    BY <2>1, <2>2 DEF Widened
  <2>4. Swaps(z1, z, q, p1, extra)
    BY <1>9, <2>3, SetPool
  <2> QED BY <1>10, <2>4 DEF Swaps
<1>12. InUse(z1, q) = Used(p1, m)
  BY <1>1, <1>11, OrderlyPool
<1> QED BY <1>2, <1>6, <1>11, <1>12 DEF TakesBack

LEMMA EmptyPoolIs ==
  ASSUME NEW m \in Nat, m > 0
  PROVE  PoolSound(EmptyPool, m) /\ Used(EmptyPool, m) = {} /\ Range(EmptyPool.pages) = {}
<1>1. EmptyPool \in Pool
  BY DEF EmptyPool, Pool
<1>2. EmptyPool.free = <<>> /\ EmptyPool.pages = <<>> /\ EmptyPool.left = 0
  BY DEF EmptyPool
<1>3. Range(<<>>) = {} /\ IsInjective(<<>>)
  BY DEF Range, IsInjective
<1>4. Handed(EmptyPool, m) = {}
  BY <1>2, <1>3 DEF Handed
<1> QED BY <1>1, <1>2, <1>3, <1>4 DEF PoolSound, Used

(* obj_pool_create of a pool that is not there. *)
LEMMA PoolCreateIs ==
  ASSUME NEW z, Orderly(z), NEW q \in PoolName, q # "meta", z.pool[q] = EmptyPool,
         NEW c, c = PoolCreate(z, q)
  PROVE  Dead(c.s) \/ Allots(c, z, "meta")
<1>1. PICK a, s : a = ObjAlloc(z, "meta") /\ s = a.s
  OBVIOUS
<1>2. PICK d : d = [s EXCEPT !.pool[q] = EmptyPool]
  OBVIOUS
<1>3. c = [obj |-> a.obj, s |-> d]
  BY <1>1, <1>2 DEF PoolCreate
<1>4. "meta" \in PoolName
  BY DEF PoolName
<1>5. CASE Dead(s)
  <2>1. PICK w : w = [s.pool EXCEPT ![q] = EmptyPool]
    OBVIOUS
  <2>2. d = [s EXCEPT !.pool = w]
    BY <1>2, <2>1
  <2>3. Dead(d)
    BY <1>5, <2>2, DeadWith
  <2> QED BY <1>3, <2>3
<1>6. CASE Allots(a, z, "meta")
  <2>1. /\ Orderly(s) /\ s.pool[q] = EmptyPool
    BY <1>1, <1>6 DEF Allots
  <2>2. /\ q \in DOMAIN s.pool
        /\ s = [head |-> s.head, usable |-> s.usable, pool |-> s.pool, crashed |-> s.crashed]
    BY <2>1, OrderlyPool
  <2>3. s \in Store
    BY <2>1 DEF Orderly
  <2>4. s.pool \in [PoolName -> Pool]
    BY <2>3, StoreIs
  <2>5. [s.pool EXCEPT ![q] = EmptyPool] = s.pool
    BY <2>1, <2>4
  <2>6. PICK w : w = s.pool
    OBVIOUS
  <2>7. d = [s EXCEPT !.pool = w]
    BY <1>2, <2>5, <2>6
  <2>8. d = [head |-> s.head, usable |-> s.usable, pool |-> w, crashed |-> s.crashed]
    BY <2>2, <2>7, StoreWith
  <2>9. d = s
    BY <2>2, <2>6, <2>8
  <2>10. c.s = a.s /\ c.obj = a.obj
    BY <1>1, <1>3, <2>9
  <2> QED BY <1>6, <2>10 DEF Allots
<1> QED BY <1>1, <1>4, <1>5, <1>6, ObjAllocIs

LEMMA ReverseDistinct ==
  ASSUME NEW S, NEW q \in Seq(S), IsInjective(q)
  PROVE  Reverse(q) \in Seq(S) /\ IsInjective(Reverse(q)) /\ Range(Reverse(q)) = Range(q)
<1>1. PICK n \in Nat : n = Len(q) /\ DOMAIN q = 1 .. n /\ \A i \in 1 .. n : q[i] \in S
  OBVIOUS
<1>2. PICK r : r = Reverse(q)
  OBVIOUS
<1>3. r = [i \in 1 .. n |-> q[(n - i) + 1]]
  BY <1>1, <1>2 DEF Reverse
<1>4. \A i \in 1 .. n : (n - i) + 1 \in 1 .. n /\ (n - ((n - i) + 1)) + 1 = i
  OBVIOUS
<1>5. DOMAIN r = 1 .. n /\ \A i \in 1 .. n : r[i] = q[(n - i) + 1] /\ r[i] \in S
  BY <1>1, <1>3, <1>4
<1>6. r \in Seq(S)
  <2>1. r \in [1 .. n -> S]
    BY <1>3, <1>5
  <2> QED BY <2>1
<1>7. IsInjective(r)
  <2> SUFFICES ASSUME NEW i \in 1 .. n, NEW j \in 1 .. n, r[i] = r[j] PROVE i = j
    BY <1>5 DEF IsInjective
  <2>1. PICK a \in 1 .. n, b \in 1 .. n : a = (n - i) + 1 /\ b = (n - j) + 1
    BY <1>4
  <2>2. q[a] = q[b]
    BY <1>5, <2>1
  <2>3. a = b
    BY <1>1, <2>2 DEF IsInjective
  <2> QED BY <2>1, <2>3
<1>8. Range(r) = Range(q)
  <2>1. \A x : x \in Range(r) <=> \E i \in 1 .. n : x = r[i]
    BY <1>5 DEF Range
  <2>2. \A x : x \in Range(q) <=> \E i \in 1 .. n : x = q[i]
    BY <1>1 DEF Range
  <2>3. ASSUME NEW i \in 1 .. n PROVE r[i] \in Range(q) /\ q[i] \in Range(r)
    <3>1. (n - i) + 1 \in 1 .. n /\ r[(n - i) + 1] = q[i]
      BY <1>4, <1>5
    <3> QED BY <1>5, <2>1, <2>2, <3>1
  <2> QED BY <2>1, <2>2, <2>3
<1> QED BY <1>2, <1>6, <1>7, <1>8

\* Pool q is gone, with object o of the pool meta.
Frees(z1, z, q, o) ==
  /\ Orderly(z1) /\ Owned(z1) = Owned(z) /\ z1.pool[q] = EmptyPool
  /\ InUse(z1, "meta") = InUse(z, "meta") \ {o}
  /\ \A t \in PoolName \ {q, "meta"} : z1.pool[t] = z.pool[t]

(* obj_pool_destroy. *)
LEMMA PoolDestroyIs ==
  ASSUME NEW z, Orderly(z), NEW q \in PoolName, q # "meta", NEW o \in InUse(z, "meta"),
         NEW z1, z1 = PoolDestroy(z, q, o)
  PROVE  Frees(z1, z, q, o)
<1>1. /\ z \in Store /\ z.head \in Seq(Nat) /\ z.usable \in Seq(RangeSet)
      /\ z.pool \in [PoolName -> Pool] /\ z.crashed = FALSE
      /\ z = [head |-> z.head, usable |-> z.usable, pool |-> z.pool, crashed |-> z.crashed]
  BY StoreIs DEF Orderly
<1>2. /\ IsInjective(z.head) /\ Separate(z.usable) /\ Range(z.head) \cap Cover(z.usable) = {}
      /\ \A t \in PoolName : PoolSound(z.pool[t], PerPage[t]) /\ PoolSet(z, t) \cap FreeSet(z) = {}
      /\ \A s, t \in PoolName : s # t => PoolSet(z, s) \cap PoolSet(z, t) = {}
  BY DEF Orderly
<1>3. PICK p, r, h, w : /\ p = z.pool[q].pages /\ r = Reverse(p) /\ h = r \o z.head
                        /\ w = [z.pool EXCEPT ![q] = EmptyPool]
  OBVIOUS
<1>4. p \in Seq(Nat) /\ IsInjective(p) /\ PoolSet(z, q) = Range(p)
  BY <1>1, <1>2, <1>3, PoolIs DEF PoolSound, PoolSet
<1>5. r \in Seq(Nat) /\ IsInjective(r) /\ Range(r) = Range(p)
  BY <1>3, <1>4, ReverseDistinct
<1>6. Range(r) \cap FreeSet(z) = {}
  BY <1>2, <1>4, <1>5
<1>7. h \in Seq(Nat) /\ IsInjective(h) /\ Range(h) = Range(r) \cup Range(z.head)
  BY <1>1, <1>2, <1>3, <1>5, <1>6, ConcatDistinct DEF FreeSet
<1>8. PICK y : y = [head |-> h, usable |-> z.usable, pool |-> w, crashed |-> FALSE]
  OBVIOUS
<1>9. z1 = ObjFree(y, "meta", o)
  <2>1. [z EXCEPT !.head = h, !.pool[q] = EmptyPool]
          = [[z EXCEPT !.head = h] EXCEPT !.pool = [z.pool EXCEPT ![q] = EmptyPool]]
    BY <1>1
  <2>2. PICK x : x = [z EXCEPT !.head = h]
    OBVIOUS
  <2>3. x = [head |-> h, usable |-> z.usable, pool |-> z.pool, crashed |-> z.crashed]
    BY <1>1, <2>2, StoreWith
  <2>4. x = [head |-> x.head, usable |-> x.usable, pool |-> x.pool, crashed |-> x.crashed]
        /\ x.head = h /\ x.usable = z.usable /\ x.crashed = FALSE
    BY <1>1, <2>3
  <2>5. [x EXCEPT !.pool = w] = [head |-> x.head, usable |-> x.usable, pool |-> w, crashed |-> x.crashed]
    BY <2>4, StoreWith
  <2>6. [x EXCEPT !.pool = w] = y
    BY <1>8, <2>4, <2>5
  <2>7. z1 = ObjFree([z EXCEPT !.head = h, !.pool[q] = EmptyPool], "meta", o)
    BY <1>3 DEF PoolDestroy
  <2> QED BY <1>3, <2>1, <2>2, <2>6, <2>7
<1>10. /\ EmptyPool \in Pool /\ PoolSound(EmptyPool, PerPage[q]) /\ Range(EmptyPool.pages) = {}
  BY PerPageIs, EmptyPoolIs DEF PoolSound
<1>11. /\ w \in [PoolName -> Pool] /\ w[q] = EmptyPool
       /\ \A t \in PoolName \ {q} : w[t] = z.pool[t]
  BY <1>1, <1>3, <1>10
<1>12. y.head = h /\ y.usable = z.usable /\ y.pool = w /\ y \in Store
  BY <1>1, <1>7, <1>8, <1>11 DEF Store
<1>13. FreeSet(y) = FreeSet(z) \cup PoolSet(z, q)
  BY <1>4, <1>5, <1>7, <1>12 DEF FreeSet
<1>14. PoolSet(y, q) = {} /\ \A t \in PoolName \ {q} : PoolSet(y, t) = PoolSet(z, t)
  BY <1>10, <1>11, <1>12 DEF PoolSet
<1>15. Orderly(y)
  <2>1. Range(y.head) \cap Cover(y.usable) = {}
    BY <1>2, <1>6, <1>7, <1>12 DEF FreeSet
  <2>2. \A t \in PoolName : PoolSound(y.pool[t], PerPage[t])
    BY <1>2, <1>10, <1>11, <1>12
  <2>3. \A t \in PoolName : PoolSet(y, t) \cap FreeSet(y) = {}
    BY <1>2, <1>13, <1>14
  <2>4. \A s, t \in PoolName : s # t => PoolSet(y, s) \cap PoolSet(y, t) = {}
    BY <1>2, <1>14
  <2> QED BY <1>2, <1>7, <1>12, <2>1, <2>2, <2>3, <2>4 DEF Orderly
<1>16. Owned(y) = Owned(z)
  <2>1. ASSUME NEW x PROVE x \in Owned(y) <=> x \in Owned(z)
    <3>1. x \in Owned(y) <=> x \in FreeSet(z) \/ x \in PoolSet(z, q) \/ \E t \in PoolName \ {q} : x \in PoolSet(z, t)
      BY <1>13, <1>14, OwnedIs
    <3> QED BY <3>1, OwnedIs
  <2> QED BY <2>1
<1>17. "meta" \in PoolName /\ y.pool["meta"] = z.pool["meta"]
  BY <1>11, <1>12 DEF PoolName
<1>18. InUse(y, "meta") = InUse(z, "meta")
  BY <1>17, InUseSame
<1>19. TakesBack(z1, y, "meta", o)
  BY <1>9, <1>15, <1>17, <1>18, ObjFreeIs
<1>20. /\ Orderly(z1) /\ InUse(z1, "meta") = InUse(z, "meta") \ {o} /\ Owned(z1) = Owned(z)
       /\ \A t \in PoolName \ {"meta"} : z1.pool[t] = y.pool[t]
  BY <1>16, <1>18, <1>19 DEF TakesBack
<1>21. z1.pool[q] = EmptyPool /\ \A t \in PoolName \ {q, "meta"} : z1.pool[t] = z.pool[t]
  BY <1>11, <1>12, <1>20
<1> QED BY <1>20, <1>21 DEF Frees

-----------------------------------------------------------------------------
(* The page allocator at boot                                              *)

EntrySet == [base : Nat, length : Nat \ {0}, type : Nat]

MapSound(t) ==
  /\ t \in Seq(EntrySet)
  /\ \A j, k \in DOMAIN t : j # k => PagesIn(t[j]) \cap PagesIn(t[k]) = {}

\* The pages of a map that are memory, and those that memory_init keeps.
Memory(t) == UNION {PagesIn(t[k]) : k \in {j \in DOMAIN t : t[j].type = 1}}
LowPart(t) == IF t[1].base = 0 THEN 0 .. Min({LowTop, t[1].length}) - 1 ELSE {}

LEMMA MemoryIs ==
  ASSUME NEW t, NEW x
  PROVE  x \in Memory(t) <=> \E k \in DOMAIN t : t[k].type = 1 /\ x \in PagesIn(t[k])
  BY DEF Memory

LEMMA TrimIs ==
  ASSUME NEW map, MapSound(map), map # <<>>, NEW t, t = TrimLow(map)
  PROVE  MapSound(t) /\ Memory(t) = Memory(map) \ LowPart(map)
<1>1. /\ map \in Seq(EntrySet)
      /\ \A j, k \in DOMAIN map : j # k => PagesIn(map[j]) \cap PagesIn(map[k]) = {}
  BY DEF MapSound
<1>2. PICK n \in Nat : n = Len(map) /\ n > 0 /\ DOMAIN map = 1 .. n /\ \A k \in 1 .. n : map[k] \in EntrySet
  BY <1>1
<1>3. PICK r : r = map[1] /\ r \in EntrySet
  BY <1>2
<1>4. PICK l \in Nat \ {0} : l = r.length
  BY <1>3 DEF EntrySet
<1>5. r.base \in Nat /\ r.type \in Nat /\ r = [base |-> r.base, length |-> r.length, type |-> r.type]
  BY <1>3 DEF EntrySet
<1>6. PICK top : top = Min({LowTop, l}) /\ top \in Nat /\ top <= l
  <2>1. {LowTop, l} \in SUBSET Nat /\ {LowTop, l} # {}
    BY FramesAssumption
  <2>2. PICK S : S = {LowTop, l}
    OBVIOUS
  <2>3. Min(S) \in S /\ \A i \in S : Min(S) <= i
    BY <2>1, <2>2, MinMember
  <2> QED BY <2>1, <2>2, <2>3
<1>7. PagesIn(r) = r.base .. r.base + l - 1
  BY <1>4 DEF PagesIn
<1>8. t = IF r.base # 0 THEN map
          ELSE IF l > top
          THEN <<[r EXCEPT !.base = top, !.length = @ - top]>> \o Tail(map)
          ELSE Tail(map)
  BY <1>3, <1>4, <1>6 DEF TrimLow
<1>9. LowPart(map) = IF r.base = 0 THEN 0 .. top - 1 ELSE {}
  BY <1>3, <1>4, <1>6 DEF LowPart
<1>10. CASE r.base # 0
  BY <1>8, <1>9, <1>10
<1>11. CASE r.base = 0 /\ l > top
  <2>1. PICK v : v = [base |-> top, length |-> l - top, type |-> r.type]
    OBVIOUS
  <2>2. [r EXCEPT !.base = top, !.length = @ - top] = v
    <3>1. PICK x : x = [r EXCEPT !.base = top]
      OBVIOUS
    <3>2. x = [base |-> top, length |-> r.length, type |-> r.type]
      BY <1>5, <3>1
    <3>3. PICK d : d = l - top
      OBVIOUS
    <3>4. [x EXCEPT !.length = d] = [base |-> top, length |-> d, type |-> r.type]
      BY <3>2
    <3>5. [r EXCEPT !.base = top, !.length = d] = [x EXCEPT !.length = d]
      BY <3>1
    <3> QED BY <1>4, <2>1, <3>3, <3>4, <3>5
  <2>3. v \in EntrySet /\ v.type = r.type
    BY <1>5, <1>6, <1>11, <2>1 DEF EntrySet
  <2>4. PagesIn(v) = PagesIn(r) \ LowPart(map)
    <3>1. PagesIn(v) = top .. top + (l - top) - 1
      BY <2>1 DEF PagesIn
    <3> QED BY <1>6, <1>7, <1>9, <1>11, <3>1
  <2>5. /\ t \in Seq(EntrySet) /\ DOMAIN t = 1 .. n /\ t[1] = v /\ \A k \in 2 .. n : t[k] = map[k]
    <3>1. t = <<v>> \o Tail(map)
      BY <1>8, <1>11, <2>2
    <3>2. Tail(map) \in Seq(EntrySet) /\ Len(Tail(map)) = n - 1 /\ \A k \in 1 .. n - 1 : Tail(map)[k] = map[k + 1]
      BY <1>1, <1>2
    <3>3. PICK m : m = Tail(map)
      OBVIOUS
    <3>4. <<v>> \o m \in Seq(EntrySet) /\ Len(<<v>> \o m) = n /\ (<<v>> \o m)[1] = v
          /\ \A k \in 2 .. n : (<<v>> \o m)[k] = m[k - 1]
      BY <1>2, <2>3, <3>2, <3>3
    <3>5. \A k \in 2 .. n : k - 1 \in 1 .. n - 1 /\ (k - 1) + 1 = k
      BY <1>2
    <3> QED BY <3>1, <3>2, <3>3, <3>4, <3>5
  <2>6. \A k \in 1 .. n : PagesIn(t[k]) \subseteq PagesIn(map[k]) /\ t[k].type = map[k].type
    BY <1>2, <1>3, <2>3, <2>4, <2>5
  <2>7. MapSound(t)
    <3>1. \A j, k \in DOMAIN t : j # k => PagesIn(t[j]) \cap PagesIn(t[k]) = {}
      BY <1>1, <1>2, <2>5, <2>6
    <3> QED BY <2>5, <3>1 DEF MapSound
  <2>8. \A k \in 1 .. n : \A x : x \in PagesIn(t[k]) <=> x \in PagesIn(map[k]) /\ x \notin LowPart(map)
    <3> SUFFICES ASSUME NEW k \in 1 .. n, NEW x
                 PROVE  x \in PagesIn(t[k]) <=> x \in PagesIn(map[k]) /\ x \notin LowPart(map)
      OBVIOUS
    <3>1. CASE k = 1
      BY <1>3, <2>4, <2>5, <3>1
    <3>2. CASE k # 1
      <4>1. t[k] = map[k] /\ 1 \in 1 .. n
        BY <1>2, <2>5, <3>2
      <4>2. LowPart(map) \subseteq PagesIn(map[1])
        BY <1>3, <1>6, <1>7, <1>9, <1>11
      <4>3. PagesIn(map[k]) \cap PagesIn(map[1]) = {}
        BY <1>1, <1>2, <3>2, <4>1
      <4> QED BY <4>1, <4>2, <4>3
    <3> QED BY <3>1, <3>2
  <2>9. \A x : x \in Memory(t) <=> x \in Memory(map) /\ x \notin LowPart(map)
    BY <1>2, <2>5, <2>6, <2>8, MemoryIs
  <2> QED BY <2>7, <2>9
<1>12. CASE r.base = 0 /\ ~(l > top)
  <2>1. t = Tail(map) /\ top = l
    BY <1>6, <1>8, <1>12
  <2>2. t \in Seq(EntrySet) /\ DOMAIN t = 1 .. n - 1 /\ \A k \in 1 .. n - 1 : t[k] = map[k + 1]
    BY <1>1, <1>2, <2>1
  <2>3. LowPart(map) = PagesIn(map[1])
    BY <1>3, <1>7, <1>9, <1>12, <2>1
  <2>4. \A k \in 1 .. n - 1 : k + 1 \in 1 .. n /\ k + 1 # 1
    BY <1>2
  <2>5. \A k \in 1 .. n : k = 1 \/ (k - 1 \in 1 .. n - 1 /\ (k - 1) + 1 = k)
    BY <1>2
  <2>6. MapSound(t)
    <3>1. ASSUME NEW j \in 1 .. n - 1, NEW k \in 1 .. n - 1, j # k
          PROVE  PagesIn(t[j]) \cap PagesIn(t[k]) = {}
      <4>1. j + 1 # k + 1 /\ j + 1 \in DOMAIN map /\ k + 1 \in DOMAIN map
        BY <1>2, <2>4, <3>1
      <4> QED BY <1>1, <2>2, <4>1
    <3> QED BY <2>2, <3>1 DEF MapSound
  <2>7. ASSUME NEW x \in Memory(t) PROVE x \in Memory(map) /\ x \notin LowPart(map)
    <3>1. PICK k \in 1 .. n - 1 : t[k].type = 1 /\ x \in PagesIn(t[k])
      BY <2>2, MemoryIs
    <3>2. k + 1 \in DOMAIN map /\ 1 \in DOMAIN map /\ k + 1 # 1 /\ t[k] = map[k + 1]
      BY <1>2, <2>2, <2>4
    <3>3. PagesIn(map[k + 1]) \cap PagesIn(map[1]) = {}
      BY <1>1, <3>2
    <3> QED BY <2>3, <3>1, <3>2, <3>3, MemoryIs
  <2>8. ASSUME NEW x \in Memory(map), x \notin LowPart(map) PROVE x \in Memory(t)
    <3>1. PICK k \in 1 .. n : map[k].type = 1 /\ x \in PagesIn(map[k])
      BY <1>2, MemoryIs
    <3>2. k # 1
      BY <2>3, <2>8, <3>1
    <3>3. k - 1 \in DOMAIN t /\ t[k - 1] = map[k]
      BY <2>2, <2>5, <3>2
    <3> QED BY <3>1, <3>3, MemoryIs
  <2> QED BY <2>6, <2>7, <2>8
<1> QED BY <1>10, <1>11, <1>12

(* What is left of a range beside the reserved one. *)
LEMMA CarveIs ==
  ASSUME NEW r \in RangeSet, NEW rm \in [base : Nat, length : Nat]
  PROVE  Separate(Carve(r, rm)) /\ Cover(Carve(r, rm)) = PagesIn(r) \ PagesIn(rm)
<1>1. PICK b \in Nat, l \in Nat \ {0} : b = r.base /\ l = r.length
  BY DEF RangeSet
<1>2. PICK c \in Nat, m \in Nat : c = rm.base /\ m = rm.length
  OBVIOUS
<1>3. PagesIn(r) = b .. b + l - 1 /\ PagesIn(rm) = c .. c + m - 1
  BY <1>1, <1>2 DEF PagesIn
<1>4. PICK back, front : /\ back = [base |-> c + m, length |-> (b + l) - (c + m)]
                         /\ front = [base |-> b, length |-> c - b]
  OBVIOUS
<1>5. Carve(r, rm) = IF c + m <= b \/ b + l <= c THEN <<r>>
                     ELSE IF c + m >= b + l /\ c <= b THEN <<>>
                     ELSE IF c + m >= b + l THEN <<front>>
                     ELSE IF c > b THEN <<back>> \o <<front>>
                     ELSE <<back>>
  BY <1>1, <1>2, <1>4 DEF Carve
<1>6. c + m < b + l => back \in RangeSet /\ PagesIn(back) = c + m .. (c + m) + ((b + l) - (c + m)) - 1
  BY <1>4 DEF RangeSet, PagesIn
<1>7. c > b => front \in RangeSet /\ PagesIn(front) = b .. b + (c - b) - 1
  BY <1>4 DEF RangeSet, PagesIn
<1>8. CASE c + m <= b \/ b + l <= c
  <2>1. PagesIn(r) \ PagesIn(rm) = PagesIn(r)
    BY <1>3, <1>8
  <2> QED BY <1>5, <1>8, <2>1, SeparateOne
<1>9. CASE ~(c + m <= b \/ b + l <= c) /\ c + m >= b + l /\ c <= b
  <2>1. PagesIn(r) \ PagesIn(rm) = {}
    BY <1>3, <1>9
  <2> QED BY <1>5, <1>9, <2>1, SeparateNone
<1>10. CASE ~(c + m <= b \/ b + l <= c) /\ c + m >= b + l /\ c > b
  <2>1. PagesIn(r) \ PagesIn(rm) = PagesIn(front)
    BY <1>3, <1>7, <1>10
  <2> QED BY <1>5, <1>7, <1>10, <2>1, SeparateOne
<1>11. CASE ~(c + m <= b \/ b + l <= c) /\ c + m < b + l /\ c > b
  <2>1. PagesIn(r) \ PagesIn(rm) = PagesIn(back) \cup PagesIn(front)
    BY <1>3, <1>6, <1>7, <1>11
  <2>2. PagesIn(back) \cap PagesIn(front) = {}
    BY <1>6, <1>7, <1>11
  <2>3. /\ Separate(<<back>>) /\ Cover(<<back>>) = PagesIn(back)
        /\ Separate(<<front>>) /\ Cover(<<front>>) = PagesIn(front)
    BY <1>6, <1>7, <1>11, SeparateOne
  <2>4. PICK u, v : u = <<back>> /\ v = <<front>>
    OBVIOUS
  <2>5. Separate(u \o v) /\ Cover(u \o v) = Cover(u) \cup Cover(v)
    BY <2>2, <2>3, <2>4, SeparateJoin
  <2>6. Carve(r, rm) = u \o v
    BY <1>5, <1>11, <2>4
  <2> QED BY <2>1, <2>3, <2>4, <2>5, <2>6
<1>12. CASE ~(c + m <= b \/ b + l <= c) /\ c + m < b + l /\ c <= b
  <2>1. PagesIn(r) \ PagesIn(rm) = PagesIn(back)
    BY <1>3, <1>6, <1>12
  <2>2. Separate(<<back>>) /\ Cover(<<back>>) = PagesIn(back)
    BY <1>6, <1>12, SeparateOne
  <2>3. Carve(r, rm) = <<back>>
    <3>1. ~(c + m <= b \/ b + l <= c) /\ ~(c + m >= b + l) /\ ~(c > b)
      BY <1>12
    <3> QED BY <1>5, <3>1, Zenon
  <2> QED BY <2>1, <2>2, <2>3
<1> QED BY <1>8, <1>9, <1>10, <1>11, <1>12

\* The list after entry i of the map, which was u before.
Listed(t, rm, i, u) ==
  IF t[i].type # 1 THEN u
  ELSE Carve([base |-> t[i].base, length |-> t[i].length], rm) \o u

Fills(g, t, rm) == g[0] = <<>> /\ \A i \in 1 .. Len(t) : g[i] = Listed(t, rm, i, g[i - 1])

LEMMA ListedIs ==
  ASSUME NEW t \in Seq(EntrySet), NEW rm \in [base : Nat, length : Nat],
         NEW i \in 1 .. Len(t), NEW u \in Seq(RangeSet)
  PROVE  Listed(t, rm, i, u) \in Seq(RangeSet)
<1>1. PICK v : v = t[i] /\ v \in EntrySet
  OBVIOUS
<1>2. PICK r : r = [base |-> v.base, length |-> v.length]
  OBVIOUS
<1>3. r \in RangeSet
  BY <1>1, <1>2 DEF EntrySet, RangeSet
<1>4. Carve(r, rm) \in Seq(RangeSet)
  BY <1>3, CarveIs DEF Separate
<1>5. PICK c : c = Carve(r, rm)
  OBVIOUS
<1>6. c \o u \in Seq(RangeSet)
  BY <1>4, <1>5
<1> QED BY <1>1, <1>2, <1>5, <1>6 DEF Listed

LEMMA UsableSteps ==
  ASSUME NEW t \in Seq(EntrySet), NEW rm \in [base : Nat, length : Nat]
  PROVE  \E g \in [0 .. Len(t) -> Seq(RangeSet)] :
           Fills(g, t, rm) /\ UsableRanges(t, rm) = g[Len(t)]
<1> DEFINE X == Seq(RangeSet)
           N == Len(t)
           f == [z \in (1 .. N) \X X |-> Listed(t, rm, z[1], z[2])]
           Body(c) == [i \in 0 .. N |-> IF i = 0 THEN <<>> ELSE Listed(t, rm, i, c[i - 1])]
           c == CHOOSE g : g = Body(g)
<1>1. N \in Nat
  OBVIOUS
<1>2. <<>> \in X
  OBVIOUS
<1>3. ASSUME NEW i \in 1 .. N, NEW u \in X PROVE Listed(t, rm, i, u) \in X
  BY ListedIs
<1>4. f \in [(1 .. N) \X X -> X]
  <2>1. ASSUME NEW z \in (1 .. N) \X X PROVE Listed(t, rm, z[1], z[2]) \in X
    <3> HIDE DEF X, N
    <3>1. z[1] \in 1 .. N /\ z[2] \in X
      OBVIOUS
    <3> QED BY <1>3, <3>1
  <2> HIDE DEF X, N
  <2> QED BY <2>1
<1>5. PICK g : Iterates(g, f, <<>>, N, X)
  <2> HIDE DEF f, X, N
  <2> QED BY <1>1, <1>2, <1>4, Iterate
<1>6. g \in [0 .. N -> X] /\ g[0] = <<>> /\ \A i \in 1 .. N : g[i] = Listed(t, rm, i, g[i - 1])
  <2>1. g \in [0 .. N -> X] /\ g[0] = <<>> /\ \A i \in 1 .. N : g[i] = f[<<i, g[i - 1]>>]
    <3> HIDE DEF f, X, N
    <3> QED BY <1>5 DEF Iterates
  <2>2. ASSUME NEW i \in 1 .. N PROVE g[i] = Listed(t, rm, i, g[i - 1])
    <3> HIDE DEF X, N
    <3>1. i - 1 \in 0 .. N
      BY <1>1
    <3>2. g[i - 1] \in X
      BY <2>1, <3>1
    <3>3. <<i, g[i - 1]>> \in (1 .. N) \X X
      BY <3>2
    <3>4. f[<<i, g[i - 1]>>] = Listed(t, rm, i, g[i - 1])
      BY <3>3
    <3> QED BY <2>1, <3>4
  <2> QED BY <2>1, <2>2
<1>7. g = Body(g)
  <2> HIDE DEF X, N
  <2>1. \A i \in 0 .. N : g[i] = IF i = 0 THEN <<>> ELSE Listed(t, rm, i, g[i - 1])
    BY <1>1, <1>6
  <2> QED BY <1>6, <2>1
<1>8. c = Body(c)
  <2> HIDE DEF Body
  <2> QED BY <1>7
<1>9. \A i \in 0 .. N : c[i] = IF i = 0 THEN <<>> ELSE Listed(t, rm, i, c[i - 1])
  <2> HIDE DEF c
  <2> QED BY <1>8
<1> DEFINE T == {i \in 0 .. N : c[i] = g[i]}
<1>10. 0 .. N \subseteq T
  <2> HIDE DEF c, X, N
  <2>1. 0 \in T
    <3>1. 0 \in 0 .. N
      BY <1>1
    <3>2. c[0] = g[0]
      BY <1>6, <1>9, <3>1
    <3> QED BY <3>1, <3>2
  <2>2. ASSUME NEW i \in 1 .. N, i - 1 \in T PROVE i \in T
    BY <1>1, <1>6, <1>9, <2>2
  <2> HIDE DEF T
  <2> QED BY <1>1, <2>1, <2>2, UpTo
<1>11. c[N] = g[N]
  <2> HIDE DEF c, X, N
  <2> QED BY <1>1, <1>10
<1>12. UsableRanges(t, rm) = c[N]
  BY DEF UsableRanges, Listed
<1> QED BY <1>6, <1>11, <1>12 DEF Fills

\* The memory of the first i entries.
MemoryTo(t, i) == UNION {PagesIn(t[k]) : k \in {j \in 1 .. i : t[j].type = 1}}

LEMMA MemoryToIs ==
  ASSUME NEW t, NEW i, NEW x
  PROVE  x \in MemoryTo(t, i) <=> \E k \in 1 .. i : t[k].type = 1 /\ x \in PagesIn(t[k])
  BY DEF MemoryTo

(* The list of unused ranges at boot. *)
LEMMA UsableIs ==
  ASSUME NEW t, MapSound(t), NEW rm \in [base : Nat, length : Nat]
  PROVE  /\ Separate(UsableRanges(t, rm))
         /\ Cover(UsableRanges(t, rm)) = Memory(t) \ PagesIn(rm)
<1>1. /\ t \in Seq(EntrySet)
      /\ \A j, k \in DOMAIN t : j # k => PagesIn(t[j]) \cap PagesIn(t[k]) = {}
  BY DEF MapSound
<1>2. PICK N \in Nat : N = Len(t) /\ DOMAIN t = 1 .. N
  BY <1>1
<1>3. PICK g \in [0 .. N -> Seq(RangeSet)] : Fills(g, t, rm) /\ UsableRanges(t, rm) = g[N]
  BY <1>1, <1>2, UsableSteps
<1>4. g[0] = <<>> /\ \A i \in 1 .. N : g[i] = Listed(t, rm, i, g[i - 1])
  BY <1>2, <1>3 DEF Fills
<1> DEFINE T == {i \in 0 .. N : Separate(g[i]) /\ Cover(g[i]) = MemoryTo(t, i) \ PagesIn(rm)}
<1>5. 0 \in T
  <2>1. MemoryTo(t, 0) = {}
    <3>1. 1 .. 0 = {}
      OBVIOUS
    <3> QED BY <3>1, MemoryToIs
  <2> QED BY <1>4, <2>1, SeparateNone
<1>6. ASSUME NEW i \in 1 .. N, i - 1 \in T PROVE i \in T
  <2>1. PICK u : u = g[i - 1]
    OBVIOUS
  <2>2. Separate(u) /\ Cover(u) = MemoryTo(t, i - 1) \ PagesIn(rm)
    BY <1>6, <2>1
  <2>3. g[i] = Listed(t, rm, i, u)
    BY <1>4, <2>1
  <2>4. PICK v : v = t[i] /\ v \in EntrySet
    BY <1>1, <1>2
  <2>5. \A k : k \in 1 .. i <=> k \in 1 .. i - 1 \/ k = i
    OBVIOUS
  <2>6. \A x : x \in MemoryTo(t, i) <=> x \in MemoryTo(t, i - 1) \/ (v.type = 1 /\ x \in PagesIn(v))
    BY <2>4, <2>5, MemoryToIs
  <2>7. CASE v.type # 1
    <3>1. g[i] = u
      BY <2>3, <2>4, <2>7 DEF Listed
    <3>2. MemoryTo(t, i) = MemoryTo(t, i - 1)
      BY <2>6, <2>7
    <3> QED BY <2>2, <3>1, <3>2
  <2>8. CASE v.type = 1
    <3>1. PICK r : r = [base |-> v.base, length |-> v.length]
      OBVIOUS
    <3>2. r \in RangeSet /\ PagesIn(r) = PagesIn(v)
      BY <2>4, <3>1 DEF EntrySet, RangeSet, PagesIn
    <3>3. PICK w : w = Carve(r, rm)
      OBVIOUS
    <3>4. Separate(w) /\ Cover(w) = PagesIn(v) \ PagesIn(rm)
      BY <3>2, <3>3, CarveIs
    <3>5. g[i] = w \o u
      BY <2>3, <2>4, <2>8, <3>1, <3>3 DEF Listed
    <3>6. MemoryTo(t, i - 1) \cap PagesIn(v) = {}
      <4> SUFFICES ASSUME NEW x \in MemoryTo(t, i - 1), x \in PagesIn(v) PROVE FALSE
        OBVIOUS
      <4>1. PICK k \in 1 .. i - 1 : x \in PagesIn(t[k])
        BY MemoryToIs
      <4>2. k \in DOMAIN t /\ i \in DOMAIN t /\ k # i
        BY <1>2
      <4> QED BY <1>1, <2>4, <4>1, <4>2
    <3>7. Cover(w) \cap Cover(u) = {}
      BY <2>2, <3>4, <3>6
    <3>8. Separate(w \o u) /\ Cover(w \o u) = Cover(w) \cup Cover(u)
      BY <2>2, <3>4, <3>7, SeparateJoin
    <3>9. \A x : x \in Cover(w \o u) <=> x \in MemoryTo(t, i) /\ x \notin PagesIn(rm)
      BY <2>2, <2>6, <2>8, <3>4, <3>8
    <3>10. Separate(g[i]) /\ Cover(g[i]) = MemoryTo(t, i) \ PagesIn(rm) /\ i \in 0 .. N
      BY <3>5, <3>8, <3>9
    <3> QED BY <3>10
  <2> QED BY <2>7, <2>8
<1>7. N \in T
  <2>1. 0 .. N \subseteq T
    <3> HIDE DEF T
    <3> QED BY <1>5, <1>6, UpTo
  <2> HIDE DEF T
  <2> QED BY <2>1
<1>8. MemoryTo(t, N) = Memory(t)
  BY <1>2 DEF Memory, MemoryTo
<1> QED BY <1>3, <1>7, <1>8

\* The memory that the allocator of a machine has.
RamOf(map) ==
  (Memory(map) \ (PagesIn(Kernel) \cup LowPart(map)))
  \cup (Kernel.base + Kernel.length - Extra .. Kernel.base + Kernel.length - 1)

LEMMA SmapIs ==
  ASSUME NEW map \in Smaps
  PROVE  /\ MapSound(map) /\ map # <<>> /\ RamOf(map) \subseteq Key \ DevicePage
         /\ Kernel \in [base : Nat, length : Nat] /\ Extra \in Nat
<1>1. /\ map \in Seq(EntrySet) /\ map # <<>>
      /\ \A j, k \in DOMAIN map : j # k => PagesIn(map[j]) \cap PagesIn(map[k]) = {}
      /\ \A k \in DOMAIN map : map[k].type = 1 => PagesIn(map[k]) \subseteq Key \ DevicePage
  BY FramesAssumption DEF EntrySet
<1>2. PICK b \in Nat, l \in Nat : b = Kernel.base /\ l = Kernel.length
  BY FramesAssumption
<1>3. Extra \in 0 .. l /\ PagesIn(Kernel) \subseteq Key \ DevicePage /\ PagesIn(Kernel) = b .. b + l - 1
  BY <1>2, FramesAssumption DEF PagesIn
<1>4. b + l - Extra .. b + l - 1 \subseteq PagesIn(Kernel)
  BY <1>3
<1>5. Memory(map) \subseteq Key \ DevicePage
  BY <1>1, MemoryIs
<1>6. RamOf(map) \subseteq Key \ DevicePage
  BY <1>2, <1>3, <1>4, <1>5 DEF RamOf
<1>7. Kernel \in [base : Nat, length : Nat] /\ Extra \in Nat
  BY <1>3, FramesAssumption
<1> QED BY <1>1, <1>6, <1>7 DEF MapSound

\* What the allocator is given.
Early(x) == [k \in 1 .. Extra |-> x - k]
AtBoot(z, map) ==
  z = [head |-> Early(Kernel.base + Kernel.length),
       usable |-> UsableRanges(TrimLow(map), Kernel),
       pool |-> [q \in PoolName |-> EmptyPool],
       crashed |-> FALSE]

LEMMA EarlyPages ==
  ASSUME NEW x \in Nat, NEW n \in 0 .. x, NEW h, h = [k \in 1 .. n |-> x - k]
  PROVE  h \in Seq(Nat) /\ IsInjective(h) /\ Range(h) = x - n .. x - 1
<1>1. DOMAIN h = 1 .. n /\ \A k \in 1 .. n : h[k] = x - k /\ h[k] \in Nat
  OBVIOUS
<1>2. h \in Seq(Nat)
  <2>1. h \in [1 .. n -> Nat] /\ n \in Nat
    BY <1>1
  <2> QED BY <2>1
<1>3. IsInjective(h)
  BY <1>1 DEF IsInjective
<1>4. \A y : y \in Range(h) <=> \E k \in 1 .. n : y = x - k
  BY <1>1 DEF Range
<1>5. ASSUME NEW y \in x - n .. x - 1 PROVE y \in Range(h)
  <2>1. x - y \in 1 .. n /\ y = x - (x - y)
    OBVIOUS
  <2> QED BY <1>4, <2>1
<1>6. ASSUME NEW k \in 1 .. n PROVE x - k \in x - n .. x - 1
  OBVIOUS
<1> QED BY <1>2, <1>3, <1>4, <1>5, <1>6

(* page_allocator_init owns the memory and nothing else. *)
LEMMA AtBootIs ==
  ASSUME NEW map \in Smaps, NEW z, AtBoot(z, map)
  PROVE  Orderly(z) /\ Owned(z) = RamOf(map) /\ \A q \in PoolName : z.pool[q] = EmptyPool
<1>1. MapSound(map) /\ map # <<>> /\ Kernel \in [base : Nat, length : Nat]
  BY SmapIs
<1>2. PICK t, u, h : t = TrimLow(map) /\ u = UsableRanges(t, Kernel)
                     /\ h = Early(Kernel.base + Kernel.length)
  OBVIOUS
<1>3. MapSound(t) /\ Memory(t) = Memory(map) \ LowPart(map)
  BY <1>1, <1>2, TrimIs
<1>4. Separate(u) /\ Cover(u) = Memory(t) \ PagesIn(Kernel)
  BY <1>1, <1>2, <1>3, UsableIs
<1>5. PICK b \in Nat, l \in Nat : b = Kernel.base /\ l = Kernel.length
  BY <1>1
<1>6. Extra \in 0 .. b + l /\ Extra \in 0 .. l /\ b + l \in Nat
  BY <1>5, FramesAssumption
<1>7. h \in Seq(Nat) /\ IsInjective(h) /\ Range(h) = b + l - Extra .. b + l - 1
  <2>1. PICK x \in Nat : x = b + l
    OBVIOUS
  <2>2. h = Early(x) /\ Extra \in 0 .. x
    <3>1. Kernel.base + Kernel.length = x
      BY <1>5, <2>1
    <3> QED BY <1>2, <1>6, <2>1, <3>1
  <2>3. h \in Seq(Nat) /\ IsInjective(h) /\ Range(h) = x - Extra .. x - 1
    <3>1. h = [k \in 1 .. Extra |-> x - k]
      BY <2>2 DEF Early
    <3> QED BY <2>2, <3>1, EarlyPages
  <2> QED BY <1>6, <2>1, <2>3
<1>8. Range(h) \subseteq PagesIn(Kernel)
  BY <1>5, <1>6, <1>7 DEF PagesIn
<1>9. PICK w : w = [q \in PoolName |-> EmptyPool]
  OBVIOUS
<1>10. z = [head |-> h, usable |-> u, pool |-> w, crashed |-> FALSE]
  BY <1>2, <1>9 DEF AtBoot
<1>11. z.head = h /\ z.usable = u /\ z.pool = w /\ z.crashed = FALSE
  BY <1>10
<1>12. \A q \in PoolName : PoolSound(EmptyPool, PerPage[q]) /\ EmptyPool \in Pool /\ Range(EmptyPool.pages) = {}
  BY PerPageIs, EmptyPoolIs DEF PoolSound
<1>13. w \in [PoolName -> Pool] /\ \A q \in PoolName : w[q] = EmptyPool
  BY <1>9, <1>12
<1>14. u \in Seq(RangeSet)
  BY <1>4 DEF Separate
<1>15. z \in Store
  BY <1>7, <1>10, <1>13, <1>14 DEF Store
<1>16. FreeSet(z) = Range(h) \cup Cover(u) /\ \A q \in PoolName : PoolSet(z, q) = {}
  BY <1>11, <1>12, <1>13 DEF FreeSet, PoolSet
<1>17. Range(h) \cap Cover(u) = {}
  BY <1>4, <1>8
<1>18. Orderly(z)
  BY <1>4, <1>7, <1>11, <1>12, <1>13, <1>15, <1>16, <1>17 DEF Orderly
<1>19. \A x : x \in Owned(z) <=> x \in Range(h) \/ x \in Cover(u)
  BY <1>16, OwnedIs
<1>20. \A x : x \in RamOf(map) <=> \/ x \in Memory(map) /\ x \notin PagesIn(Kernel) /\ x \notin LowPart(map)
                                   \/ x \in Range(h)
  BY <1>5, <1>7 DEF RamOf
<1>21. Owned(z) = RamOf(map)
  BY <1>3, <1>4, <1>19, <1>20
<1> QED BY <1>11, <1>13, <1>18, <1>21

\* The allocator with a page pool, and a tree pool with one object.
Boots(b, map) ==
  /\ Orderly(b.s) /\ Owned(b.s) = RamOf(map) /\ b.obj \in Obj
  /\ InUse(b.s, "tree") = {b.obj} /\ InUse(b.s, "page") = {} /\ b.s.pool["msg"] = EmptyPool

LEMMA EmptyUnused ==
  ASSUME NEW z, NEW q \in PoolName, z.pool[q] = EmptyPool
  PROVE  InUse(z, q) = {}
<1>1. z.pool[q].pages \in Seq(Nat)
  BY DEF EmptyPool
<1>2. Used(EmptyPool, PerPage[q]) = {}
  BY PerPageIs, EmptyPoolIs
<1> QED BY <1>1, <1>2, InUseIs

LEMMA DeadCreate ==
  ASSUME NEW z, Dead(z), NEW q
  PROVE  Dead(PoolCreate(z, q).s)
<1>1. PICK a, s : a = ObjAlloc(z, "meta") /\ s = a.s
  OBVIOUS
<1>2. Dead(s)
  BY <1>1, DeadAlloc
<1>3. PICK w, d, c : /\ w = [s.pool EXCEPT ![q] = EmptyPool] /\ d = [s EXCEPT !.pool[q] = EmptyPool]
                     /\ c = PoolCreate(z, q)
  OBVIOUS
<1>4. d = [s EXCEPT !.pool = w]
  BY <1>3
<1>5. Dead(d)
  BY <1>2, <1>4, DeadWith
<1>6. c = [obj |-> a.obj, s |-> d]
  BY <1>1, <1>3 DEF PoolCreate
<1> QED BY <1>3, <1>5, <1>6

LEMMA BootedIs ==
  ASSUME NEW map \in Smaps, NEW b, b = Booted(map)
  PROVE  Dead(b.s) \/ Boots(b, map)
<1>1. PICK z : AtBoot(z, map)
  BY DEF AtBoot
<1>20. PICK end, h, u, w : /\ end = Kernel.base + Kernel.length /\ h = Early(end)
                           /\ u = UsableRanges(TrimLow(map), Kernel)
                           /\ w = [q \in PoolName |-> EmptyPool]
  OBVIOUS
<1>21. z = [head |-> h, usable |-> u, pool |-> w, crashed |-> FALSE]
  BY <1>1, <1>20 DEF AtBoot
<1>22. Booted(map) = ObjAlloc(PoolCreate(PoolCreate(z, "page").s, "tree").s, "tree")
  BY <1>20, <1>21 DEF Booted, Early
<1>2. PICK p : p = PoolCreate(z, "page")
  OBVIOUS
<1>3. PICK t : t = PoolCreate(p.s, "tree")
  OBVIOUS
<1>4. b = ObjAlloc(t.s, "tree")
  BY <1>2, <1>3, <1>22
<1>5. Orderly(z) /\ Owned(z) = RamOf(map) /\ \A q \in PoolName : z.pool[q] = EmptyPool
  BY <1>1, AtBootIs
<1>6. "page" \in PoolName /\ "tree" \in PoolName /\ "meta" \in PoolName /\ "msg" \in PoolName
      /\ "page" # "meta" /\ "tree" # "meta" /\ "page" # "tree" /\ "msg" # "meta" /\ "msg" # "tree"
      /\ "msg" # "page"
  BY DEF PoolName
<1>7. Dead(p.s) \/ Allots(p, z, "meta")
  BY <1>2, <1>5, <1>6, PoolCreateIs
<1>8. CASE Dead(p.s)
  <2>1. Dead(t.s)
    BY <1>3, <1>8, DeadCreate
  <2> QED BY <1>4, <2>1, DeadAlloc
<1>9. CASE Allots(p, z, "meta")
  <2>1. /\ Orderly(p.s) /\ Owned(p.s) = RamOf(map)
        /\ \A q \in PoolName \ {"meta"} : p.s.pool[q] = EmptyPool
    BY <1>5, <1>9 DEF Allots
  <2>2. Dead(t.s) \/ Allots(t, p.s, "meta")
    BY <1>3, <1>6, <2>1, PoolCreateIs
  <2>3. CASE Dead(t.s)
    BY <1>4, <2>3, DeadAlloc
  <2>4. CASE Allots(t, p.s, "meta")
    <3>1. /\ Orderly(t.s) /\ Owned(t.s) = RamOf(map)
          /\ \A q \in PoolName \ {"meta"} : t.s.pool[q] = EmptyPool
      BY <2>1, <2>4 DEF Allots
    <3>2. Dead(b.s) \/ Allots(b, t.s, "tree")
      BY <1>4, <1>6, <3>1, ObjAllocIs
    <3>3. CASE Allots(b, t.s, "tree")
      <4>1. InUse(t.s, "tree") = {}
        BY <1>6, <3>1, EmptyUnused
      <4>2. /\ Orderly(b.s) /\ Owned(b.s) = RamOf(map) /\ b.obj \in Obj
            /\ InUse(b.s, "tree") = {b.obj}
            /\ \A q \in PoolName \ {"meta", "tree"} : b.s.pool[q] = EmptyPool
        BY <3>1, <3>3, <4>1 DEF Allots
      <4>3. InUse(b.s, "page") = {}
        BY <1>6, <4>2, EmptyUnused
      <4> QED BY <1>6, <4>2, <4>3 DEF Boots
    <3> QED BY <3>2, <3>3
  <2> QED BY <2>2, <2>3, <2>4
<1> QED BY <1>7, <1>8, <1>9

-----------------------------------------------------------------------------
(* The invariant of the physical pages                                     *)

PageSet == [obj : Obj, ref : Nat]

\* Every page is with the allocator, managed, or away.
Accounted(z, managed, away, all) ==
  /\ Owned(z) \cup managed \cup away = all
  /\ Owned(z) \cap managed = {} /\ Owned(z) \cap away = {} /\ away \cap managed = {}

\* Every struct page is an object of its own, and these are the pool's.
Boxes(pg) == {pg[k].obj : k \in DOMAIN pg}
Boxed(z, pg) ==
  /\ DOMAIN pg \subseteq Key /\ pg \in [DOMAIN pg -> PageSet]
  /\ \A j, k \in DOMAIN pg : pg[j].obj = pg[k].obj => j = k
  /\ InUse(z, "page") = Boxes(pg)

\* The tree has the struct page of each managed address, and the pool its nodes.
Recorded(pg) == {<<k, pg[k].obj>> : k \in DOMAIN pg}
Treed(z, n, r, pg) ==
  (\E e : Shape(n, r, e)) /\ Pairs(n) = Recorded(pg) /\ InUse(z, "tree") = DOMAIN n

\* The message's pool is there as long as the message.
Mailed(z, m, it) ==
  /\ InUse(z, "msg") = it
  /\ m = Null => z.pool["msg"] = EmptyPool
  /\ m # Null => m \in InUse(z, "meta")

FramesSound ==
  /\ Orderly(mem) /\ smap \in Smaps /\ Accounted(mem, DOMAIN page \ DevicePage, other, RamOf(smap))
  /\ Boxed(mem, page) /\ Treed(mem, nodes, root, page) /\ Mailed(mem, msg, items)

FramesInv == Dead(mem) \/ FramesSound

LEMMA Names ==
  /\ "meta" \in PoolName /\ "tree" \in PoolName /\ "page" \in PoolName /\ "msg" \in PoolName
  /\ "meta" # "tree" /\ "meta" # "page" /\ "meta" # "msg"
  /\ "tree" # "page" /\ "tree" # "msg" /\ "page" # "msg"
  BY DEF PoolName

LEMMA Alive ==
  ASSUME NEW z, Orderly(z)
  PROVE  z.crashed = FALSE /\ ~Dead(z)
<1>1. z.crashed = FALSE
  BY Names, OrderlyPool
<1> QED BY <1>1 DEF Dead

LEMMA RecordedIs ==
  ASSUME NEW pg, NEW k, NEW o
  PROVE  <<k, o>> \in Recorded(pg) <=> k \in DOMAIN pg /\ o = pg[k].obj
  BY DEF Recorded

LEMMA BoxesIs ==
  ASSUME NEW pg, NEW o
  PROVE  o \in Boxes(pg) <=> \E k \in DOMAIN pg : o = pg[k].obj
  BY DEF Boxes

LEMMA PairsIs ==
  ASSUME NEW n, NEW k, NEW o
  PROVE  <<k, o>> \in Pairs(n) <=> \E x \in Leaf(n) : n[x].part = k /\ n[x].data = o
  BY DEF Pairs

(* The tree and the page pool are about themselves. *)
LEMMA SamePools ==
  ASSUME NEW z, NEW z1, NEW pg, NEW n, NEW r
  PROVE  /\ z1.pool["page"] = z.pool["page"] /\ Boxed(z, pg) => Boxed(z1, pg)
         /\ z1.pool["tree"] = z.pool["tree"] /\ Treed(z, n, r, pg) => Treed(z1, n, r, pg)
<1>1. z1.pool["page"] = z.pool["page"] => InUse(z1, "page") = InUse(z, "page")
  BY InUseSame
<1>2. z1.pool["tree"] = z.pool["tree"] => InUse(z1, "tree") = InUse(z, "tree")
  BY InUseSame
<1> QED BY <1>1, <1>2 DEF Boxed, Treed

LEMMA SameMail ==
  ASSUME NEW z, NEW z1, NEW m, NEW it, Mailed(z, m, it), z1.pool["msg"] = z.pool["msg"],
         InUse(z, "meta") \subseteq InUse(z1, "meta")
  PROVE  Mailed(z1, m, it)
<1>1. InUse(z1, "msg") = InUse(z, "msg")
  BY InUseSame
<1> QED BY <1>1 DEF Mailed

-----------------------------------------------------------------------------
(* manage_phys_page and page_unref                                         *)

\* z1 and n1 are the allocator and the tree after manage_phys_page or page_unref.
Manages(z1, n1, z, r, pg1) ==
  /\ Orderly(z1) /\ Boxed(z1, pg1) /\ Treed(z1, n1, r, pg1)
  /\ z1.pool["msg"] = z.pool["msg"] /\ InUse(z1, "meta") = InUse(z, "meta")

LEMMA ManageIs ==
  ASSUME NEW z, Orderly(z), NEW pg, Boxed(z, pg), NEW n, NEW r, Treed(z, n, r, pg),
         NEW k \in Key \ DOMAIN pg, NEW a, a = ObjAlloc(z, "page"),
         NEW R, R = RadixInsert(a.s, n, r, k, a.obj),
         NEW pg1, pg1 = Put(pg, k, [obj |-> a.obj, ref |-> 1])
  PROVE  Dead(R.s) \/ (Manages(R.s, R.n, z, r, pg1) /\ Owned(R.s) = Owned(z))
<1>1. PICK b, c : b = ObjAlloc(a.s, "tree") /\ c = ObjAlloc(b.s, "tree")
  OBVIOUS
<1>2. R.s = b.s \/ R.s = c.s
  <2>1. R.s = b.s \/ R.s = c.s
    BY <1>1 DEF RadixInsert
  <2> QED BY <2>1
<1>3. Dead(a.s) => Dead(b.s)
  BY <1>1, DeadAlloc
<1>4. Dead(b.s) => Dead(c.s)
  BY <1>1, DeadAlloc
<1>5. Dead(a.s) \/ Allots(a, z, "page")
  BY Names, ObjAllocIs
<1> SUFFICES ASSUME Allots(a, z, "page"), ~Dead(R.s)
             PROVE  Manages(R.s, R.n, z, r, pg1) /\ Owned(R.s) = Owned(z)
  BY <1>2, <1>3, <1>4, <1>5
<1>6. /\ Orderly(a.s) /\ a.obj \in Obj /\ a.obj \notin InUse(z, "page")
      /\ InUse(a.s, "page") = InUse(z, "page") \cup {a.obj} /\ Owned(a.s) = Owned(z)
      /\ \A t \in PoolName \ {"page"} : a.s.pool[t] = z.pool[t]
  BY DEF Allots
<1>7. Allots(b, a.s, "tree")
  BY <1>1, <1>2, <1>4, <1>6, Names, ObjAllocIs
<1>8. PICK e : Shape(n, r, e)
  BY DEF Treed
<1>9. Pairs(n) = Recorded(pg) /\ InUse(z, "tree") = DOMAIN n
  BY DEF Treed
<1>10. InUse(a.s, "tree") = DOMAIN n
  BY <1>6, <1>9, Names, InUseSame
<1>11. /\ Orderly(b.s) /\ b.obj \in Obj \ DOMAIN n /\ InUse(b.s, "tree") = DOMAIN n \cup {b.obj}
       /\ Owned(b.s) = Owned(z) /\ \A t \in PoolName \ {"tree"} : b.s.pool[t] = a.s.pool[t]
  BY <1>6, <1>7, <1>10 DEF Allots
<1>12. \A x \in Leaf(n) : n[x].part # k
  <2> SUFFICES ASSUME NEW x \in Leaf(n), n[x].part = k PROVE FALSE
    OBVIOUS
  <2>1. <<k, n[x].data>> \in Pairs(n)
    BY PairsIs
  <2> QED BY <1>9, <2>1, RecordedIs
<1>13. \/ R.s = b.s /\ Grows(R.n, n, r, k, a.obj, {b.obj})
       \/ R.s = c.s /\ (Fresh(n, b.obj, c.obj) => Grows(R.n, n, r, k, a.obj, {b.obj, c.obj}))
  <2>1. PICK s, d : s = a.s /\ d = a.obj
    OBVIOUS
  <2>2. d \in Obj /\ b = ObjAlloc(s, "tree") /\ c = ObjAlloc(b.s, "tree") /\ R = RadixInsert(s, n, r, k, d)
    BY <1>1, <1>6, <2>1
  <2>3. \/ R.s = b.s /\ (b.obj \in Obj \ DOMAIN n => Grows(R.n, n, r, k, d, {b.obj}))
        \/ R.s = c.s /\ (Fresh(n, b.obj, c.obj) => Grows(R.n, n, r, k, d, {b.obj, c.obj}))
    <3>1. k \in Key /\ NoKey(n, k)
      BY <1>12 DEF NoKey
    <3>2. Inserts(R, b, c, n, r, k, d)
      BY <1>8, <2>2, <3>1, InsertIs
    <3> QED BY <3>2 DEF Inserts
  <2> QED BY <1>11, <2>1, <2>3
<1>14. /\ Orderly(R.s) /\ Owned(R.s) = Owned(z) /\ \A t \in PoolName \ {"tree"} : R.s.pool[t] = a.s.pool[t]
       /\ \E f : Shape(R.n, r, f) /\ InUse(R.s, "tree") = DOMAIN R.n
       /\ Pairs(R.n) = Pairs(n) \cup {<<k, a.obj>>}
  <2>1. CASE R.s = b.s /\ Grows(R.n, n, r, k, a.obj, {b.obj})
    BY <1>11, <2>1 DEF Grows
  <2>2. CASE R.s = c.s /\ (Fresh(n, b.obj, c.obj) => Grows(R.n, n, r, k, a.obj, {b.obj, c.obj}))
    <3>1. Allots(c, b.s, "tree")
      BY <1>1, <1>11, <2>2, Names, ObjAllocIs
    <3>2. /\ Orderly(c.s) /\ c.obj \in Obj \ (DOMAIN n \cup {b.obj})
          /\ InUse(c.s, "tree") = DOMAIN n \cup {b.obj, c.obj}
          /\ Owned(c.s) = Owned(z) /\ \A t \in PoolName \ {"tree"} : c.s.pool[t] = a.s.pool[t]
      BY <1>11, <3>1 DEF Allots
    <3>3. Grows(R.n, n, r, k, a.obj, {b.obj, c.obj})
      BY <1>11, <2>2, <3>2 DEF Fresh
    <3> QED BY <2>2, <3>2, <3>3 DEF Grows
  <2> QED BY <1>13, <2>1, <2>2
<1>15. InUse(R.s, "page") = InUse(z, "page") \cup {a.obj} /\ R.s.pool["msg"] = z.pool["msg"]
       /\ InUse(R.s, "meta") = InUse(z, "meta")
  <2>1. R.s.pool["page"] = a.s.pool["page"] /\ R.s.pool["msg"] = z.pool["msg"] /\ R.s.pool["meta"] = z.pool["meta"]
    BY <1>6, <1>14, Names
  <2>2. InUse(R.s, "page") = InUse(a.s, "page") /\ InUse(R.s, "meta") = InUse(z, "meta")
    BY <2>1, InUseSame
  <2> QED BY <1>6, <2>1, <2>2
<1>16. PICK v : v = [obj |-> a.obj, ref |-> 1] /\ v \in PageSet /\ v.obj = a.obj
  BY <1>6 DEF PageSet
<1>17. /\ DOMAIN pg \subseteq Key /\ pg \in [DOMAIN pg -> PageSet] /\ InUse(z, "page") = Boxes(pg)
       /\ \A i, j \in DOMAIN pg : pg[i].obj = pg[j].obj => i = j
  BY DEF Boxed
<1>18. /\ DOMAIN pg1 = DOMAIN pg \cup {k} /\ pg1[k] = v /\ \A j \in DOMAIN pg : pg1[j] = pg[j]
       /\ pg1 \in [DOMAIN pg1 -> PageSet]
  <2>1. pg1 = [y \in DOMAIN pg \cup {k} |-> IF y = k THEN v ELSE pg[y]]
    BY <1>16 DEF Put
  <2> QED BY <1>16, <1>17, <2>1
<1>19. Boxes(pg1) = Boxes(pg) \cup {a.obj}
  <2>1. \A o : o \in Boxes(pg1) <=> o \in Boxes(pg) \/ o = a.obj
    BY <1>16, <1>18, BoxesIs
  <2> QED BY <2>1
<1>20. \A i, j \in DOMAIN pg1 : pg1[i].obj = pg1[j].obj => i = j
  <2>1. \A i \in DOMAIN pg : pg[i].obj # a.obj
    BY <1>6, <1>17, BoxesIs
  <2> QED BY <1>16, <1>17, <1>18, <2>1
<1>21. Boxed(R.s, pg1)
  BY <1>15, <1>17, <1>18, <1>19, <1>20 DEF Boxed
<1>22. Recorded(pg1) = Recorded(pg) \cup {<<k, a.obj>>}
  <2>1. \A i \in DOMAIN pg : pg1[i].obj = pg[i].obj
    BY <1>18
  <2>2. pg1[k].obj = a.obj
    BY <1>16, <1>18
  <2> QED BY <1>18, <2>1, <2>2 DEF Recorded
<1>23. Treed(R.s, R.n, r, pg1)
  BY <1>9, <1>14, <1>22 DEF Treed
<1> QED BY <1>14, <1>15, <1>21, <1>23 DEF Manages

\* page_unref of the last reference: what becomes of the state z.
UnrefTo(z, n, r, k, o) ==
  LET R == Delete(z, n, r, k)
  IN  [s |-> ObjFree(IF k \in DevicePage THEN R.s ELSE DropPage(R.s, k), "page", o), n |-> R.n]

\* A tree without a leaf, and the pool without its nodes.
Forgets(R, z, n, r, l) ==
  /\ Orderly(R.s) /\ Owned(R.s) = Owned(z) /\ \A t \in PoolName \ {"tree"} : R.s.pool[t] = z.pool[t]
  /\ (\E f : Shape(R.n, r, f)) /\ InUse(R.s, "tree") = DOMAIN R.n
  /\ Pairs(R.n) = Pairs(n) \ {<<n[l].part, n[l].data>>}

LEMMA ForgetIs ==
  ASSUME NEW z, Orderly(z), NEW n, NEW r, NEW e, Shape(n, r, e), InUse(z, "tree") = DOMAIN n,
         NEW l \in Leaf(n), NEW R, R = Delete(z, n, r, n[l].part)
  PROVE  Forgets(R, z, n, r, l)
<1>1. Deletes(R, z, n, r, l)
  BY DeleteIs
<1>2. l \in DOMAIN n
  BY DEF Leaf
<1>3. PICK z1 : z1 = ObjFree(z, "tree", l)
  OBVIOUS
<1>4. TakesBack(z1, z, "tree", l)
  BY <1>2, <1>3, Names, ObjFreeIs
<1>5. /\ Orderly(z1) /\ InUse(z1, "tree") = DOMAIN n \ {l} /\ Owned(z1) = Owned(z)
      /\ \A t \in PoolName \ {"tree"} : z1.pool[t] = z.pool[t]
  BY <1>4 DEF TakesBack
<1>6. CASE R.s = z1 /\ Loses(R.n, n, r, l, {l})
  <2>1. /\ DOMAIN R.n = DOMAIN n \ {l} /\ \E f : Shape(R.n, r, f)
        /\ Pairs(R.n) = Pairs(n) \ {<<n[l].part, n[l].data>>}
    BY <1>6 DEF Loses
  <2> QED BY <1>5, <1>6, <2>1 DEF Forgets
<1>7. ASSUME NEW s \in DOMAIN n \ {l}, R.s = ObjFree(z1, "tree", s), Loses(R.n, n, r, l, {l, s})
      PROVE  Forgets(R, z, n, r, l)
  <2>1. /\ DOMAIN R.n = DOMAIN n \ {l, s} /\ \E f : Shape(R.n, r, f)
        /\ Pairs(R.n) = Pairs(n) \ {<<n[l].part, n[l].data>>}
    BY <1>7 DEF Loses
  <2>2. PICK z2 : z2 = R.s
    OBVIOUS
  <2>3. TakesBack(z2, z1, "tree", s)
    BY <1>5, <1>7, <2>2, Names, ObjFreeIs
  <2>4. /\ Orderly(z2) /\ InUse(z2, "tree") = DOMAIN n \ {l, s} /\ Owned(z2) = Owned(z)
        /\ \A t \in PoolName \ {"tree"} : z2.pool[t] = z.pool[t]
    BY <1>5, <2>3 DEF TakesBack
  <2> QED BY <2>1, <2>2, <2>4 DEF Forgets
<1> QED BY <1>1, <1>3, <1>6, <1>7 DEF Deletes

LEMMA UnrefIs ==
  ASSUME NEW z, Orderly(z), NEW pg, Boxed(z, pg), NEW n, NEW r, Treed(z, n, r, pg),
         NEW k \in DOMAIN pg, k \in DevicePage \/ k \notin Owned(z),
         NEW R, R = UnrefTo(z, n, r, k, pg[k].obj), NEW pg1, pg1 = Without(pg, k)
  PROVE  /\ Manages(R.s, R.n, z, r, pg1)
         /\ Owned(R.s) = IF k \in DevicePage THEN Owned(z) ELSE Owned(z) \cup {k}
<1>1. PICK e : Shape(n, r, e)
  BY DEF Treed
<1>2. Pairs(n) = Recorded(pg) /\ InUse(z, "tree") = DOMAIN n
  BY DEF Treed
<1>3. /\ DOMAIN pg \subseteq Key /\ pg \in [DOMAIN pg -> PageSet] /\ InUse(z, "page") = Boxes(pg)
      /\ \A i, j \in DOMAIN pg : pg[i].obj = pg[j].obj => i = j
  BY DEF Boxed
<1>4. PICK o : o = pg[k].obj
  OBVIOUS
<1>5. PICK l \in Leaf(n) : n[l].part = k /\ n[l].data = o
  <2>1. <<k, o>> \in Pairs(n)
    BY <1>2, <1>4, RecordedIs
  <2> QED BY <2>1, PairsIs
<1>6. PICK D : D = Delete(z, n, r, k)
  OBVIOUS
<1>7. Forgets(D, z, n, r, l)
  BY <1>1, <1>2, <1>5, <1>6, ForgetIs
<1>8. /\ Orderly(D.s) /\ Owned(D.s) = Owned(z) /\ \A t \in PoolName \ {"tree"} : D.s.pool[t] = z.pool[t]
      /\ (\E f : Shape(D.n, r, f)) /\ InUse(D.s, "tree") = DOMAIN D.n
      /\ Pairs(D.n) = Pairs(n) \ {<<k, o>>}
  BY <1>5, <1>7 DEF Forgets
<1>9. PICK y : y = IF k \in DevicePage THEN D.s ELSE DropPage(D.s, k)
  OBVIOUS
<1>10. /\ Orderly(y) /\ Owned(y) = IF k \in DevicePage THEN Owned(z) ELSE Owned(z) \cup {k}
       /\ y.pool = D.s.pool
  <2>1. CASE k \in DevicePage
    BY <1>8, <1>9, <2>1
  <2>2. CASE k \notin DevicePage
    <3>1. k \in Nat /\ k \notin Owned(D.s) /\ y = DropPage(D.s, k)
      BY <1>3, <1>8, <1>9, <2>2, OverEnds
    <3>2. Orderly(y) /\ Owned(y) = Owned(D.s) \cup {k} /\ y.pool = D.s.pool
      BY <1>8, <3>1, DropPageIs
    <3> QED BY <1>8, <2>2, <3>2
  <2> QED BY <2>1, <2>2
<1>11. R = [s |-> ObjFree(y, "page", o), n |-> D.n]
  BY <1>4, <1>6, <1>9 DEF UnrefTo
<1>12. y.pool["page"] = z.pool["page"] /\ y.pool["msg"] = z.pool["msg"] /\ y.pool["meta"] = z.pool["meta"]
       /\ y.pool["tree"] = D.s.pool["tree"]
  BY <1>8, <1>10, Names
<1>13. InUse(y, "page") = Boxes(pg) /\ InUse(y, "meta") = InUse(z, "meta") /\ InUse(y, "tree") = DOMAIN D.n
  BY <1>3, <1>8, <1>12, InUseSame
<1>14. o \in Boxes(pg)
  BY <1>4, BoxesIs
<1>15. TakesBack(R.s, y, "page", o)
  BY <1>10, <1>11, <1>13, <1>14, Names, ObjFreeIs
<1>16. /\ Orderly(R.s) /\ InUse(R.s, "page") = Boxes(pg) \ {o} /\ Owned(R.s) = Owned(y)
       /\ \A t \in PoolName \ {"page"} : R.s.pool[t] = y.pool[t]
  BY <1>13, <1>15 DEF TakesBack
<1>17. R.s.pool["msg"] = z.pool["msg"] /\ InUse(R.s, "meta") = InUse(z, "meta") /\ InUse(R.s, "tree") = DOMAIN D.n
  <2>1. R.s.pool["msg"] = y.pool["msg"] /\ R.s.pool["meta"] = y.pool["meta"] /\ R.s.pool["tree"] = y.pool["tree"]
    BY <1>16, Names
  <2> QED BY <1>12, <1>13, <2>1, InUseSame
<1>18. /\ DOMAIN pg1 = DOMAIN pg \ {k} /\ \A j \in DOMAIN pg \ {k} : pg1[j] = pg[j]
       /\ pg1 \in [DOMAIN pg1 -> PageSet]
  <2>1. pg1 = [j \in DOMAIN pg \ {k} |-> pg[j]]
    BY DEF Without
  <2> QED BY <1>3, <2>1
<1>19. Boxes(pg1) = Boxes(pg) \ {o}
  <2>1. \A x : x \in Boxes(pg1) <=> x \in Boxes(pg) /\ x # o
    BY <1>3, <1>4, <1>18, BoxesIs
  <2> QED BY <2>1
<1>20. Boxed(R.s, pg1)
  BY <1>3, <1>16, <1>18, <1>19 DEF Boxed
<1>21. Recorded(pg1) = Recorded(pg) \ {<<k, o>>}
  <2>1. \A i \in DOMAIN pg \ {k} : pg1[i].obj = pg[i].obj
    BY <1>18
  <2> QED BY <1>4, <1>18, <2>1 DEF Recorded
<1>22. Treed(R.s, R.n, r, pg1)
  <2>1. R.n = D.n
    BY <1>11
  <2> QED BY <1>2, <1>8, <1>17, <1>21, <2>1 DEF Treed
<1> QED BY <1>10, <1>16, <1>17, <1>20, <1>22 DEF Manages

-----------------------------------------------------------------------------
(* The actions of the physical pages                                       *)

LEMMA FramesSoundIs ==
  ASSUME FramesSound
  PROVE  /\ Orderly(mem) /\ smap \in Smaps /\ RamOf(smap) \subseteq Key \ DevicePage
         /\ Accounted(mem, DOMAIN page \ DevicePage, other, RamOf(smap))
         /\ Boxed(mem, page) /\ Treed(mem, nodes, root, page) /\ Mailed(mem, msg, items)
  BY SmapIs DEF FramesSound

LEMMA CrashDies ==
  ASSUME Orderly(mem), Crash
  PROVE  FramesInv'
<1>1. mem = [head |-> mem.head, usable |-> mem.usable, pool |-> mem.pool, crashed |-> mem.crashed]
  BY Names, OrderlyPool
<1>2. PICK z : z = [mem EXCEPT !.crashed = TRUE]
  OBVIOUS
<1>3. z = [head |-> mem.head, usable |-> mem.usable, pool |-> mem.pool, crashed |-> TRUE]
  BY <1>1, <1>2, StoreWith
<1>4. Dead(z)
  BY <1>3 DEF Dead
<1>5. mem' = z
  BY <1>2 DEF Crash
<1> QED BY <1>4, <1>5 DEF FramesInv

(* manage_phys_page of an address that is not managed, in state z. *)
LEMMA ManageKeeps ==
  ASSUME FramesSound, NEW z, Orderly(z), z.pool = mem.pool, NEW k \in Key \ DOMAIN page,
         Accounted(z, (DOMAIN page \cup {k}) \ DevicePage, other, RamOf(smap)),
         ManageNew(z, k)
  PROVE  FramesInv'
<1>1. PICK a, v : a = ObjAlloc(z, "page") /\ v = [obj |-> a.obj, ref |-> 1]
  OBVIOUS
<1>2. PICK R, pg1 : R = RadixInsert(a.s, nodes, root, k, a.obj) /\ pg1 = Put(page, k, v)
  OBVIOUS
<1>3. Boxed(z, page) /\ Treed(z, nodes, root, page) /\ Mailed(z, msg, items)
  <2>1. Boxed(mem, page) /\ Treed(mem, nodes, root, page) /\ Mailed(mem, msg, items)
    BY FramesSoundIs
  <2>2. InUse(z, "meta") = InUse(mem, "meta")
    BY InUseSame
  <2> QED BY <2>1, <2>2, SamePools, SameMail
<1>4. Dead(R.s) \/ (Manages(R.s, R.n, z, root, pg1) /\ Owned(R.s) = Owned(z))
  BY <1>1, <1>2, <1>3, ManageIs
<1>5. IF R.s.crashed THEN Crash
      ELSE /\ mem' = R.s /\ nodes' = R.n /\ page' = pg1
           /\ UNCHANGED <<root, other, msg, items, smap>>
  BY <1>1, <1>2 DEF ManageNew
<1>6. CASE Dead(R.s)
  BY <1>5, <1>6, CrashDies, FramesSoundIs DEF Dead
<1>7. CASE Manages(R.s, R.n, z, root, pg1) /\ Owned(R.s) = Owned(z)
  <2>1. /\ Orderly(R.s) /\ Boxed(R.s, pg1) /\ Treed(R.s, R.n, root, pg1)
        /\ R.s.pool["msg"] = z.pool["msg"] /\ InUse(R.s, "meta") = InUse(z, "meta")
    BY <1>7 DEF Manages
  <2>2. /\ mem' = R.s /\ nodes' = R.n /\ page' = pg1 /\ root' = root /\ other' = other
        /\ msg' = msg /\ items' = items /\ smap' = smap
    BY <1>5, <2>1, Alive
  <2>3. Mailed(R.s, msg, items)
    BY <1>3, <2>1, SameMail
  <2>4. DOMAIN pg1 = DOMAIN page \cup {k}
    BY <1>2 DEF Put
  <2>5. Accounted(R.s, DOMAIN pg1 \ DevicePage, other, RamOf(smap))
    BY <1>7, <2>4 DEF Accounted
  <2>6. FramesSound'
    BY <2>1, <2>2, <2>3, <2>5, FramesSoundIs DEF FramesSound
  <2> QED BY <2>6 DEF FramesInv
<1> QED BY <1>4, <1>6, <1>7

LEMMA NewPageKeeps ==
  ASSUME FramesSound, NewPage
  PROVE  FramesInv'
<1>1. PICK g : g = GetPage(mem)
  OBVIOUS
<1>2. Dead(g.s) \/ Gets(g, mem)
  BY <1>1, GetPageIs, FramesSoundIs
<1>3. IF g.s.crashed THEN Crash ELSE ManageNew(g.s, g.page)
  BY <1>1 DEF NewPage
<1>4. CASE Dead(g.s)
  BY <1>3, <1>4, CrashDies, FramesSoundIs DEF Dead
<1>5. CASE Gets(g, mem)
  <2>1. PICK z, k : z = g.s /\ k = g.page
    OBVIOUS
  <2>2. Orderly(z) /\ z.pool = mem.pool /\ k \notin Owned(z) /\ Owned(mem) = Owned(z) \cup {k}
    BY <1>5, <2>1 DEF Gets
  <2>3. ManageNew(z, k)
    BY <1>3, <2>1, <2>2, Alive
  <2>4. /\ Owned(mem) \cup (DOMAIN page \ DevicePage) \cup other = RamOf(smap)
        /\ Owned(mem) \cap (DOMAIN page \ DevicePage) = {} /\ Owned(mem) \cap other = {}
        /\ other \cap (DOMAIN page \ DevicePage) = {} /\ RamOf(smap) \subseteq Key \ DevicePage
    BY FramesSoundIs DEF Accounted
  <2>5. k \in Key \ DevicePage /\ k \notin DOMAIN page
    BY <2>2, <2>4
  <2>6. Accounted(z, (DOMAIN page \cup {k}) \ DevicePage, other, RamOf(smap))
    BY <2>2, <2>4, <2>5 DEF Accounted
  <2> QED BY <2>2, <2>3, <2>5, <2>6, ManageKeeps
<1> QED BY <1>2, <1>4, <1>5

(* The tree finds an address exactly if it is managed. *)
LEMMA FoundIs ==
  ASSUME NEW z, NEW n, NEW r, NEW pg, Treed(z, n, r, pg), Boxed(z, pg), NEW k \in Key
  PROVE  /\ RadixFind(n, r, k) = IF k \in DOMAIN pg THEN pg[k].obj ELSE None
         /\ RadixFind(n, r, k) = None <=> k \notin DOMAIN pg
<1>1. PICK e : Shape(n, r, e)
  BY DEF Treed
<1>2. Pairs(n) = Recorded(pg)
  BY DEF Treed
<1>3. CASE k \in DOMAIN pg
  <2>1. <<k, pg[k].obj>> \in Pairs(n)
    BY <1>2, <1>3, RecordedIs
  <2>2. PICK x \in Leaf(n) : n[x].part = k /\ n[x].data = pg[k].obj
    BY <2>1, PairsIs
  <2>3. RadixFind(n, r, k) = pg[k].obj
    BY <1>1, <2>2, RadixFindIs
  <2>4. pg[k] \in PageSet
    BY <1>3 DEF Boxed
  <2>5. pg[k].obj \in Obj
    BY <2>4 DEF PageSet
  <2> QED BY <1>3, <2>3, <2>5, NullIs
<1>4. CASE k \notin DOMAIN pg
  <2>1. \A x \in Leaf(n) : n[x].part # k
    <3> SUFFICES ASSUME NEW x \in Leaf(n), n[x].part = k PROVE FALSE
      OBVIOUS
    <3>1. <<k, n[x].data>> \in Pairs(n)
      BY PairsIs
    <3> QED BY <1>2, <1>4, <3>1, RecordedIs
  <2>2. RadixFind(n, r, k) = None
    BY <1>1, <2>1, RadixFindIs
  <2> QED BY <1>4, <2>2
<1> QED BY <1>3, <1>4

\* pg1 is pg with other numbers of references.
Recounted(pg1, pg) ==
  /\ DOMAIN pg1 = DOMAIN pg /\ pg1 \in [DOMAIN pg -> PageSet]
  /\ \A k \in DOMAIN pg : pg1[k].obj = pg[k].obj

LEMMA RecountIs ==
  ASSUME NEW pg, pg \in [DOMAIN pg -> PageSet], NEW k \in DOMAIN pg, NEW c \in Nat,
         NEW pg1, pg1 = [pg EXCEPT ![k].ref = c]
  PROVE  Recounted(pg1, pg)
<1>1. pg[k] \in PageSet
  OBVIOUS
<1>2. PICK v : v = [pg[k] EXCEPT !.ref = c]
  OBVIOUS
<1>3. v \in PageSet /\ v.obj = pg[k].obj
  BY <1>1, <1>2 DEF PageSet
<1>4. pg1 = [pg EXCEPT ![k] = v]
  BY <1>2
<1>5. DOMAIN pg1 = DOMAIN pg /\ pg1[k] = v /\ \A j \in DOMAIN pg \ {k} : pg1[j] = pg[j]
  BY <1>4
<1>6. pg1 \in [DOMAIN pg -> PageSet]
  BY <1>3, <1>4
<1> QED BY <1>3, <1>5, <1>6 DEF Recounted

LEMMA RecountKeeps ==
  ASSUME FramesSound, Recounted(page', page), UNCHANGED <<mem, nodes, root, other, msg, items, smap>>
  PROVE  FramesSound'
<1>1. /\ DOMAIN page' = DOMAIN page /\ page' \in [DOMAIN page -> PageSet]
      /\ \A k \in DOMAIN page : page'[k].obj = page[k].obj
  BY DEF Recounted
<1>2. Boxes(page') = Boxes(page)
  BY <1>1 DEF Boxes
<1>3. Recorded(page') = Recorded(page)
  BY <1>1 DEF Recorded
<1>4. Boxed(mem, page')
  BY <1>1, <1>2, FramesSoundIs DEF Boxed
<1>5. Treed(mem, nodes, root, page')
  BY <1>3, FramesSoundIs DEF Treed
<1> QED BY <1>1, <1>4, <1>5, FramesSoundIs DEF FramesSound

LEMMA MapPhysicalKeeps ==
  ASSUME FramesSound, NEW k \in DevicePage, MapPhysical(k)
  PROVE  FramesInv'
<1>1. k \in Key
  BY FramesAssumption
<1>2. /\ Orderly(mem) /\ Boxed(mem, page) /\ Treed(mem, nodes, root, page)
      /\ Accounted(mem, DOMAIN page \ DevicePage, other, RamOf(smap))
  BY FramesSoundIs
<1>3. RadixFind(nodes, root, k) = None <=> k \notin DOMAIN page
  BY <1>1, <1>2, FoundIs
<1>4. CASE k \notin DOMAIN page
  <2>1. ManageNew(mem, k)
    BY <1>3, <1>4 DEF MapPhysical
  <2>2. (DOMAIN page \cup {k}) \ DevicePage = DOMAIN page \ DevicePage
    OBVIOUS
  <2>3. Accounted(mem, (DOMAIN page \cup {k}) \ DevicePage, other, RamOf(smap))
    BY <1>2, <2>2
  <2>4. PICK z : z = mem
    OBVIOUS
  <2> QED BY <1>1, <1>2, <1>4, <2>1, <2>3, ManageKeeps
<1>5. CASE k \in DOMAIN page
  <2>1. page \in [DOMAIN page -> PageSet]
    BY <1>2 DEF Boxed
  <2>2. page[k] \in PageSet
    BY <1>5, <2>1
  <2>3. PICK c \in Nat : c = page[k].ref + 1
    BY <2>2 DEF PageSet
  <2>4. /\ page' = [page EXCEPT ![k].ref = c]
        /\ UNCHANGED <<mem, nodes, root, other, msg, items, smap>>
    BY <1>3, <1>5, <2>3 DEF MapPhysical
  <2>5. Recounted(page', page)
    BY <1>5, <2>1, <2>4, RecountIs
  <2> QED BY <2>4, <2>5, RecountKeeps DEF FramesInv
<1> QED BY <1>4, <1>5

LEMMA UnrefKeeps ==
  ASSUME FramesSound, NEW k \in DOMAIN page, Unref(k)
  PROVE  FramesInv'
<1>1. /\ Orderly(mem) /\ Boxed(mem, page) /\ Treed(mem, nodes, root, page) /\ Mailed(mem, msg, items)
      /\ Accounted(mem, DOMAIN page \ DevicePage, other, RamOf(smap)) /\ smap \in Smaps
  BY FramesSoundIs
<1>2. page \in [DOMAIN page -> PageSet] /\ DOMAIN page \subseteq Key
  BY <1>1 DEF Boxed
<1>3. page[k].ref \in Nat
  <2>1. page[k] \in PageSet
    BY <1>2
  <2> QED BY <2>1 DEF PageSet
<1>4. CASE page[k].ref > 1
  <2>1. PICK c \in Nat : c = page[k].ref - 1
    BY <1>3, <1>4
  <2>2. /\ page' = [page EXCEPT ![k].ref = c]
        /\ UNCHANGED <<mem, nodes, root, other, msg, items, smap>>
    BY <1>4, <2>1 DEF Unref
  <2>3. Recounted(page', page)
    BY <1>2, <2>2, RecountIs
  <2> QED BY <2>2, <2>3, RecountKeeps DEF FramesInv
<1>5. CASE ~(page[k].ref > 1)
  <2>1. PICK R, pg1 : R = UnrefTo(mem, nodes, root, k, page[k].obj) /\ pg1 = Without(page, k)
    OBVIOUS
  <2>2. /\ mem' = R.s /\ nodes' = R.n /\ page' = pg1 /\ root' = root /\ other' = other
        /\ msg' = msg /\ items' = items /\ smap' = smap
    BY <1>5, <2>1 DEF Unref, UnrefTo
  <2>3. /\ Owned(mem) \cup (DOMAIN page \ DevicePage) \cup other = RamOf(smap)
        /\ Owned(mem) \cap (DOMAIN page \ DevicePage) = {} /\ Owned(mem) \cap other = {}
        /\ other \cap (DOMAIN page \ DevicePage) = {}
    BY <1>1 DEF Accounted
  <2>4. k \in DevicePage \/ k \notin Owned(mem)
    BY <2>3
  <2>5. /\ Manages(R.s, R.n, mem, root, pg1)
        /\ Owned(R.s) = IF k \in DevicePage THEN Owned(mem) ELSE Owned(mem) \cup {k}
    BY <1>1, <2>1, <2>4, UnrefIs
  <2>6. /\ Orderly(R.s) /\ Boxed(R.s, pg1) /\ Treed(R.s, R.n, root, pg1)
        /\ R.s.pool["msg"] = mem.pool["msg"] /\ InUse(R.s, "meta") = InUse(mem, "meta")
    BY <2>5 DEF Manages
  <2>7. DOMAIN pg1 = DOMAIN page \ {k}
    BY <2>1 DEF Without
  <2>8. Accounted(R.s, DOMAIN pg1 \ DevicePage, other, RamOf(smap))
    <3>1. CASE k \in DevicePage
      <4>1. DOMAIN pg1 \ DevicePage = DOMAIN page \ DevicePage
        BY <2>7, <3>1
      <4> QED BY <2>3, <2>5, <3>1, <4>1 DEF Accounted
    <3>2. CASE k \notin DevicePage
      <4>1. Owned(R.s) = Owned(mem) \cup {k} /\ k \notin other
        BY <2>3, <2>5, <3>2
      <4> QED BY <2>3, <2>7, <3>2, <4>1 DEF Accounted
    <3> QED BY <3>1, <3>2
  <2>9. Mailed(R.s, msg, items)
    BY <1>1, <2>6, SameMail
  <2>10. FramesSound'
    BY <1>1, <2>2, <2>6, <2>8, <2>9 DEF FramesSound
  <2> QED BY <2>10 DEF FramesInv
<1> QED BY <1>4, <1>5

(* A step that only takes or gives pages. *)
LEMMA PagesKeep ==
  ASSUME FramesSound, NEW z, Orderly(z), z.pool = mem.pool, mem' = z,
         Accounted(z, DOMAIN page \ DevicePage, other', RamOf(smap)),
         UNCHANGED <<nodes, root, page, msg, items, smap>>
  PROVE  FramesInv'
<1>1. Boxed(mem, page) /\ Treed(mem, nodes, root, page) /\ Mailed(mem, msg, items) /\ smap \in Smaps
  BY FramesSoundIs
<1>2. InUse(z, "meta") = InUse(mem, "meta")
  BY InUseSame
<1>3. Boxed(z, page) /\ Treed(z, nodes, root, page) /\ Mailed(z, msg, items)
  BY <1>1, <1>2, SamePools, SameMail
<1>4. FramesSound'
  BY <1>1, <1>3 DEF FramesSound
<1> QED BY <1>4 DEF FramesInv

LEMMA TakePageKeeps ==
  ASSUME FramesSound, TakePage
  PROVE  FramesInv'
<1>1. PICK g : g = GetPage(mem)
  OBVIOUS
<1>2. Dead(g.s) \/ Gets(g, mem)
  BY <1>1, GetPageIs, FramesSoundIs
<1>3. IF g.s.crashed THEN Crash
      ELSE /\ mem' = g.s /\ other' = other \cup {g.page}
           /\ UNCHANGED <<nodes, root, page, msg, items, smap>>
  BY <1>1 DEF TakePage
<1>4. CASE Dead(g.s)
  BY <1>3, <1>4, CrashDies, FramesSoundIs DEF Dead
<1>5. CASE Gets(g, mem)
  <2>1. PICK z, k : z = g.s /\ k = g.page
    OBVIOUS
  <2>2. Orderly(z) /\ z.pool = mem.pool /\ k \notin Owned(z) /\ Owned(mem) = Owned(z) \cup {k}
    BY <1>5, <2>1 DEF Gets
  <2>3. mem' = z /\ other' = other \cup {k} /\ UNCHANGED <<nodes, root, page, msg, items, smap>>
    BY <1>3, <2>1, <2>2, Alive
  <2>4. /\ Owned(mem) \cup (DOMAIN page \ DevicePage) \cup other = RamOf(smap)
        /\ Owned(mem) \cap (DOMAIN page \ DevicePage) = {} /\ Owned(mem) \cap other = {}
        /\ other \cap (DOMAIN page \ DevicePage) = {}
    BY FramesSoundIs DEF Accounted
  <2>5. Accounted(z, DOMAIN page \ DevicePage, other', RamOf(smap))
    BY <2>2, <2>3, <2>4 DEF Accounted
  <2> QED BY <2>2, <2>3, <2>5, PagesKeep
<1> QED BY <1>2, <1>4, <1>5

LEMMA GiveBackKeeps ==
  ASSUME FramesSound, NEW k \in other, GiveBack(k)
  PROVE  FramesInv'
<1>1. PICK z : z = DropPage(mem, k)
  OBVIOUS
<1>2. mem' = z /\ other' = other \ {k} /\ UNCHANGED <<nodes, root, page, msg, items, smap>>
  BY <1>1 DEF GiveBack
<1>3. /\ Owned(mem) \cup (DOMAIN page \ DevicePage) \cup other = RamOf(smap)
      /\ Owned(mem) \cap (DOMAIN page \ DevicePage) = {} /\ Owned(mem) \cap other = {}
      /\ other \cap (DOMAIN page \ DevicePage) = {} /\ RamOf(smap) \subseteq Key
  BY FramesSoundIs DEF Accounted
<1>4. k \in Nat /\ k \notin Owned(mem)
  BY <1>3, OverEnds
<1>5. Orderly(z) /\ Owned(z) = Owned(mem) \cup {k} /\ z.pool = mem.pool
  BY <1>1, <1>4, DropPageIs, FramesSoundIs
<1>6. Accounted(z, DOMAIN page \ DevicePage, other', RamOf(smap))
  BY <1>2, <1>3, <1>5 DEF Accounted
<1> QED BY <1>2, <1>5, <1>6, PagesKeep

(* A step of the message's pool. *)
LEMMA MailKeeps ==
  ASSUME FramesSound, NEW z, Orderly(z), Owned(z) = Owned(mem), mem' = z,
         z.pool["page"] = mem.pool["page"], z.pool["tree"] = mem.pool["tree"],
         Mailed(z, msg', items'), UNCHANGED <<nodes, root, page, other, smap>>
  PROVE  FramesInv'
<1>1. /\ Boxed(mem, page) /\ Treed(mem, nodes, root, page) /\ smap \in Smaps
      /\ Accounted(mem, DOMAIN page \ DevicePage, other, RamOf(smap))
  BY FramesSoundIs
<1>2. Boxed(z, page) /\ Treed(z, nodes, root, page)
  BY <1>1, SamePools
<1>3. Accounted(z, DOMAIN page \ DevicePage, other, RamOf(smap))
  BY <1>1 DEF Accounted
<1>4. FramesSound'
  BY <1>1, <1>2, <1>3 DEF FramesSound
<1> QED BY <1>4 DEF FramesInv

LEMMA NewMessageKeeps ==
  ASSUME FramesSound, NewMessage
  PROVE  FramesInv'
<1>1. PICK c : c = PoolCreate(mem, "msg")
  OBVIOUS
<1>2. Orderly(mem) /\ Mailed(mem, msg, items) /\ msg = Null
  BY FramesSoundIs DEF NewMessage
<1>3. mem.pool["msg"] = EmptyPool /\ InUse(mem, "msg") = items
  BY <1>2 DEF Mailed
<1>4. Dead(c.s) \/ Allots(c, mem, "meta")
  BY <1>1, <1>2, <1>3, Names, PoolCreateIs
<1>5. IF c.s.crashed THEN Crash
      ELSE mem' = c.s /\ msg' = c.obj /\ UNCHANGED <<nodes, root, page, other, items, smap>>
  BY <1>1 DEF NewMessage
<1>6. CASE Dead(c.s)
  BY <1>2, <1>5, <1>6, CrashDies DEF Dead
<1>7. CASE Allots(c, mem, "meta")
  <2>1. PICK z, o : z = c.s /\ o = c.obj
    OBVIOUS
  <2>2. /\ Orderly(z) /\ o \in Obj /\ InUse(z, "meta") = InUse(mem, "meta") \cup {o}
        /\ Owned(z) = Owned(mem) /\ \A t \in PoolName \ {"meta"} : z.pool[t] = mem.pool[t]
    BY <1>7, <2>1 DEF Allots
  <2>3. mem' = z /\ msg' = o /\ items' = items /\ UNCHANGED <<nodes, root, page, other, smap>>
    BY <1>5, <2>1, <2>2, Alive
  <2>4. z.pool["page"] = mem.pool["page"] /\ z.pool["tree"] = mem.pool["tree"] /\ z.pool["msg"] = mem.pool["msg"]
    BY <2>2, Names
  <2>5. InUse(z, "msg") = items
    BY <1>3, <2>4, InUseSame
  <2>6. Mailed(z, msg', items')
    BY <2>2, <2>3, <2>5, NullIs DEF Mailed
  <2> QED BY <2>2, <2>3, <2>4, <2>6, MailKeeps
<1> QED BY <1>4, <1>6, <1>7

LEMMA AddItemKeeps ==
  ASSUME FramesSound, AddItem
  PROVE  FramesInv'
<1>1. PICK a : a = ObjAlloc(mem, "msg")
  OBVIOUS
<1>2. Orderly(mem) /\ Mailed(mem, msg, items) /\ msg # Null
  BY FramesSoundIs DEF AddItem
<1>3. InUse(mem, "msg") = items /\ msg \in InUse(mem, "meta")
  BY <1>2 DEF Mailed
<1>4. Dead(a.s) \/ Allots(a, mem, "msg")
  BY <1>1, <1>2, Names, ObjAllocIs
<1>5. IF a.s.crashed THEN Crash
      ELSE /\ mem' = a.s /\ items' = items \cup {a.obj}
           /\ UNCHANGED <<nodes, root, page, other, msg, smap>>
  BY <1>1 DEF AddItem
<1>6. CASE Dead(a.s)
  BY <1>2, <1>5, <1>6, CrashDies DEF Dead
<1>7. CASE Allots(a, mem, "msg")
  <2>1. PICK z, o : z = a.s /\ o = a.obj
    OBVIOUS
  <2>2. /\ Orderly(z) /\ InUse(z, "msg") = items \cup {o}
        /\ Owned(z) = Owned(mem) /\ \A t \in PoolName \ {"msg"} : z.pool[t] = mem.pool[t]
    BY <1>3, <1>7, <2>1 DEF Allots
  <2>3. /\ mem' = z /\ items' = items \cup {o} /\ msg' = msg
        /\ UNCHANGED <<nodes, root, page, other, smap>>
    BY <1>5, <2>1, <2>2, Alive
  <2>4. z.pool["page"] = mem.pool["page"] /\ z.pool["tree"] = mem.pool["tree"] /\ z.pool["meta"] = mem.pool["meta"]
    BY <2>2, Names
  <2>5. InUse(z, "meta") = InUse(mem, "meta")
    BY <2>4, InUseSame
  <2>6. Mailed(z, msg', items')
    BY <1>2, <1>3, <2>2, <2>3, <2>5 DEF Mailed
  <2> QED BY <2>2, <2>3, <2>4, <2>6, MailKeeps
<1> QED BY <1>4, <1>6, <1>7

LEMMA FreeMessageKeeps ==
  ASSUME FramesSound, FreeMessage
  PROVE  FramesInv'
<1>1. PICK z : z = PoolDestroy(mem, "msg", msg)
  OBVIOUS
<1>2. Orderly(mem) /\ Mailed(mem, msg, items) /\ msg # Null
  BY FramesSoundIs DEF FreeMessage
<1>3. msg \in InUse(mem, "meta")
  BY <1>2 DEF Mailed
<1>4. mem' = z /\ msg' = Null /\ items' = {} /\ UNCHANGED <<nodes, root, page, other, smap>>
  BY <1>1 DEF FreeMessage
<1>5. Frees(z, mem, "msg", msg)
  BY <1>1, <1>2, <1>3, Names, PoolDestroyIs
<1>6. /\ Orderly(z) /\ Owned(z) = Owned(mem) /\ z.pool["msg"] = EmptyPool
      /\ z.pool["page"] = mem.pool["page"] /\ z.pool["tree"] = mem.pool["tree"]
  BY <1>5, Names DEF Frees
<1>7. InUse(z, "msg") = {}
  BY <1>6, Names, EmptyUnused
<1>8. Mailed(z, msg', items')
  BY <1>4, <1>6, <1>7 DEF Mailed
<1> QED BY <1>4, <1>6, <1>8, MailKeeps

-----------------------------------------------------------------------------
(* Theorems about the physical pages                                       *)

(* A tree that is only a root. *)
LEMMA RootIs ==
  ASSUME NEW o \in Obj, NEW n, n = [x \in {o} |-> Node(0, 0, Null)]
  PROVE  (\E e : Shape(n, o, e)) /\ Pairs(n) = {}
<1>1. PICK v : v = Node(0, 0, Null)
  OBVIOUS
<1>2. v.part = 0 /\ v.len = 0 /\ v.data = Null /\ \A b \in 0 .. 1 : v.next[b] = Null
  BY <1>1 DEF Node
<1>3. 0 \in Key /\ 0 \in 0 .. Width /\ Width \in 0 .. Width
  <2>1. Width \in Nat /\ Width \in 0 .. Width /\ 0 \in 0 .. Width
    BY WidthIs
  <2>2. Pow[Width] \in Nat /\ Pow[Width] > 0
    BY <2>1, PowIs
  <2> QED BY <2>1, <2>2 DEF Key
<1>4. v \in NodeSet
  <2>1. PICK f : f = [b \in 0 .. 1 |-> Null]
    OBVIOUS
  <2>2. f \in [0 .. 1 -> Obj \cup {Null}]
    BY <2>1
  <2>3. v = [next |-> f, part |-> 0, len |-> 0, data |-> Null]
    BY <1>1, <2>1 DEF Node
  <2> QED BY <1>3, <2>2, <2>3 DEF NodeSet
<1>5. DOMAIN n = {o} /\ n[o] = v /\ n \in [DOMAIN n -> NodeSet]
  BY <1>1, <1>4
<1>6. PICK e : e = [x \in {o} |-> Width]
  OBVIOUS
<1>7. e \in [{o} -> 0 .. Width] /\ e[o] = Width
  BY <1>3, <1>6
<1>8. Typed(n, o, e)
  BY <1>2, <1>5, <1>7 DEF Typed
<1>9. Branched(n, o, e)
  BY <1>5 DEF Branched
<1>10. \A x \in DOMAIN n, b \in 0 .. 1 : n[x].next[b] = Null
  BY <1>2, <1>5
<1>11. Linked(n, o, e)
  BY <1>10 DEF Linked
<1>12. Parented(n, o)
  BY <1>5, <1>10 DEF Parented
<1>13. Leaf(n) = {}
  BY <1>2, <1>5 DEF Leaf
<1>14. Pairs(n) = {}
  BY <1>13 DEF Pairs
<1> QED BY <1>8, <1>9, <1>11, <1>12, <1>14 DEF Shape

LEMMA FramesStart ==
  ASSUME FramesInit
  PROVE  FramesInv
<1>1. PICK b : b = Booted(smap)
  OBVIOUS
<1>2. /\ smap \in Smaps /\ mem = b.s /\ root = b.obj /\ nodes = [x \in {b.obj} |-> Node(0, 0, Null)]
      /\ page = <<>> /\ other = {} /\ msg = Null /\ items = {}
  BY <1>1 DEF FramesInit
<1>3. Dead(b.s) \/ Boots(b, smap)
  BY <1>1, <1>2, BootedIs
<1>4. CASE Dead(b.s)
  BY <1>2, <1>4 DEF FramesInv
<1>5. CASE Boots(b, smap)
  <2>1. /\ Orderly(mem) /\ Owned(mem) = RamOf(smap) /\ root \in Obj
        /\ InUse(mem, "tree") = {root} /\ InUse(mem, "page") = {} /\ mem.pool["msg"] = EmptyPool
    BY <1>2, <1>5 DEF Boots
  <2>2. DOMAIN page = {}
    BY <1>2
  <2>3. Accounted(mem, DOMAIN page \ DevicePage, other, RamOf(smap))
    BY <1>2, <2>1, <2>2 DEF Accounted
  <2>4. Boxes(page) = {} /\ Recorded(page) = {}
    BY <2>2 DEF Boxes, Recorded
  <2>5. page \in [DOMAIN page -> PageSet]
    BY <1>2
  <2>6. Boxed(mem, page)
    BY <2>1, <2>2, <2>4, <2>5 DEF Boxed
  <2>7. nodes = [x \in {root} |-> Node(0, 0, Null)]
    BY <1>2
  <2>8. (\E e : Shape(nodes, root, e)) /\ Pairs(nodes) = {}
    BY <2>1, <2>7, RootIs
  <2>9. DOMAIN nodes = {root}
    BY <2>7
  <2>10. Treed(mem, nodes, root, page)
    BY <2>1, <2>4, <2>8, <2>9 DEF Treed
  <2>11. InUse(mem, "msg") = {}
    BY <2>1, Names, EmptyUnused
  <2>12. Mailed(mem, msg, items)
    BY <1>2, <2>1, <2>11 DEF Mailed
  <2>13. FramesSound
    BY <1>2, <2>1, <2>3, <2>6, <2>10, <2>12 DEF FramesSound
  <2> QED BY <2>13 DEF FramesInv
<1> QED BY <1>3, <1>4, <1>5

LEMMA FramesStep ==
  ASSUME FramesInv, [FramesNext]_frames
  PROVE  FramesInv'
<1>1. CASE UNCHANGED frames
  <2>1. /\ mem' = mem /\ nodes' = nodes /\ root' = root /\ page' = page /\ other' = other
        /\ msg' = msg /\ items' = items /\ smap' = smap
    BY <1>1 DEF frames
  <2> QED BY <2>1 DEF FramesInv, FramesSound
<1>2. CASE FramesNext
  <2>1. ~mem.crashed
    BY <1>2 DEF FramesNext, NewPage, MapPhysical, Unref, TakePage, GiveBack, NewMessage, AddItem,
                FreeMessage, KernelUp
  <2>2. FramesSound
    BY <2>1 DEF FramesInv, Dead
  <2>3. CASE NewPage
    BY <2>2, <2>3, NewPageKeeps
  <2>4. ASSUME NEW d \in DevicePage, MapPhysical(d) PROVE FramesInv'
    BY <2>2, <2>4, MapPhysicalKeeps
  <2>5. ASSUME NEW p \in DOMAIN page, Unref(p) PROVE FramesInv'
    BY <2>2, <2>5, UnrefKeeps
  <2>6. CASE TakePage
    BY <2>2, <2>6, TakePageKeeps
  <2>7. ASSUME NEW p \in other, GiveBack(p) PROVE FramesInv'
    BY <2>2, <2>7, GiveBackKeeps
  <2>8. CASE NewMessage
    BY <2>2, <2>8, NewMessageKeeps
  <2>9. CASE AddItem
    BY <2>2, <2>9, AddItemKeeps
  <2>10. CASE FreeMessage
    BY <2>2, <2>10, FreeMessageKeeps
  <2> QED BY <1>2, <2>3, <2>4, <2>5, <2>6, <2>7, <2>8, <2>9, <2>10 DEF FramesNext
<1> QED BY <1>1, <1>2

(* The invariant of the physical pages (get_page.c, obj_pool.c, page_man.c, copy.c):   *)
(* as long as the kernel has not followed the null pointer of get_page.c:119, the     *)
(* free list, the pools, the tree phys_pages and the struct pages agree.              *)
THEOREM FramesAreSound == FramesSpec => []FramesInv
<1>1. FramesInit => FramesInv
  BY FramesStart
<1>2. FramesInv /\ [FramesNext]_frames => FramesInv'
  BY FramesStep
<1> QED BY <1>1, <1>2, PTL DEF FramesSpec

\* Sets that have the memory's pages, each one of them in one.
Apart(places) ==
  /\ UNION Range(places) = Ram
  /\ \A j, k \in DOMAIN places : j # k => places[j] \cap places[k] = {}

LEMMA InvPages == FramesInv => PagesAccounted
<1> SUFFICES ASSUME FramesInv, ~mem.crashed PROVE PagesAccounted
  BY DEF PagesAccounted
<1>1. FramesSound
  BY DEF FramesInv, Dead
<1>2. /\ Orderly(mem) /\ Accounted(mem, DOMAIN page \ DevicePage, other, RamOf(smap))
  BY <1>1, FramesSoundIs
<1>3. PICK A, B, C, D, E, F, G :
        /\ A = FreePages /\ B = PoolPages("meta") /\ C = PoolPages("tree") /\ D = PoolPages("page")
        /\ E = PoolPages("msg") /\ F = DOMAIN page \ DevicePage /\ G = other
  OBVIOUS
<1>4. /\ A = FreeSet(mem) /\ B = PoolSet(mem, "meta") /\ C = PoolSet(mem, "tree")
      /\ D = PoolSet(mem, "page") /\ E = PoolSet(mem, "msg")
  BY <1>3 DEF FreePages, FreeSet, Cover, PoolPages, PoolSet
<1>5. /\ IsInjective(mem.head) /\ Separate(mem.usable) /\ Range(mem.head) \cap Cover(mem.usable) = {}
      /\ \A q \in PoolName : PoolSet(mem, q) \cap FreeSet(mem) = {}
      /\ \A q, t \in PoolName : q # t => PoolSet(mem, q) \cap PoolSet(mem, t) = {}
  BY <1>2 DEF Orderly
<1>6. /\ A \cap B = {} /\ A \cap C = {} /\ A \cap D = {} /\ A \cap E = {}
      /\ B \cap C = {} /\ B \cap D = {} /\ B \cap E = {}
      /\ C \cap D = {} /\ C \cap E = {} /\ D \cap E = {}
  BY <1>4, <1>5, Names
<1>7. Owned(mem) = A \cup B \cup C \cup D \cup E
  <2>1. \A q : q \in PoolName <=> q = "meta" \/ q = "tree" \/ q = "page" \/ q = "msg"
    BY DEF PoolName
  <2>2. \A x : x \in Owned(mem) <=> x \in A \/ x \in B \/ x \in C \/ x \in D \/ x \in E
    BY <1>4, <2>1, OwnedIs
  <2> QED BY <2>2
<1>8. Ram = RamOf(smap)
  BY Zenon DEF Ram, RamOf, Memory, LowPart
<1>9. /\ Owned(mem) \cup F \cup G = Ram /\ Owned(mem) \cap F = {} /\ Owned(mem) \cap G = {}
      /\ G \cap F = {}
  BY <1>2, <1>3, <1>8 DEF Accounted
<1>10. PICK places : places = <<A, B, C, D, E, F, G>>
  OBVIOUS
<1>11. /\ DOMAIN places = 1 .. 7 /\ places[1] = A /\ places[2] = B /\ places[3] = C /\ places[4] = D
       /\ places[5] = E /\ places[6] = F /\ places[7] = G
  BY <1>10
<1>12. \A j : j \in 1 .. 7 <=> j = 1 \/ j = 2 \/ j = 3 \/ j = 4 \/ j = 5 \/ j = 6 \/ j = 7
  OBVIOUS
<1>13. UNION Range(places) = Ram
  <2>1. \A x : x \in UNION Range(places) <=> \E j \in 1 .. 7 : x \in places[j]
    BY <1>11 DEF Range
  <2>2. \A x : (\E j \in 1 .. 7 : x \in places[j])
                <=> \/ x \in A \/ x \in B \/ x \in C \/ x \in D \/ x \in E \/ x \in F \/ x \in G
    BY <1>11, <1>12
  <2>3. \A x : x \in Ram <=> \/ x \in A \/ x \in B \/ x \in C \/ x \in D \/ x \in E \/ x \in F \/ x \in G
    BY <1>7, <1>9
  <2> QED BY <2>1, <2>2, <2>3
<1>14. ASSUME NEW j \in 1 .. 7, NEW k \in 1 .. 7, j # k PROVE places[j] \cap places[k] = {}
  <2> SUFFICES ASSUME NEW x, x \in places[j], x \in places[k] PROVE FALSE
    OBVIOUS
  <2>1. /\ ~(x \in A /\ x \in B) /\ ~(x \in A /\ x \in C) /\ ~(x \in A /\ x \in D) /\ ~(x \in A /\ x \in E)
        /\ ~(x \in B /\ x \in C) /\ ~(x \in B /\ x \in D) /\ ~(x \in B /\ x \in E)
        /\ ~(x \in C /\ x \in D) /\ ~(x \in C /\ x \in E) /\ ~(x \in D /\ x \in E)
    BY <1>6
  <2>2. /\ ~((x \in A \/ x \in B \/ x \in C \/ x \in D \/ x \in E) /\ x \in F)
        /\ ~((x \in A \/ x \in B \/ x \in C \/ x \in D \/ x \in E) /\ x \in G) /\ ~(x \in G /\ x \in F)
    BY <1>7, <1>9
  <2> QED BY <1>11, <1>12, <1>14, <2>1, <2>2
<1>15. ASSUME NEW j \in DOMAIN mem.usable
       PROVE  /\ PagesIn(mem.usable[j]) \cap Range(mem.head) = {}
              /\ \A k \in DOMAIN mem.usable : j # k => PagesIn(mem.usable[j]) \cap PagesIn(mem.usable[k]) = {}
  BY <1>5, CoverIs DEF Separate
<1>16. /\ UNION Range(places) = Ram
       /\ \A j, k \in DOMAIN places : j # k => places[j] \cap places[k] = {}
  BY <1>11, <1>13, <1>14
<1>17. Apart(places)
  BY <1>16 DEF Apart
<1>18. places = <<FreePages, PoolPages("meta"), PoolPages("tree"), PoolPages("page"),
                  PoolPages("msg"), DOMAIN page \ DevicePage, other>>
  BY <1>3, <1>10
<1>19. Apart(<<FreePages, PoolPages("meta"), PoolPages("tree"), PoolPages("page"),
               PoolPages("msg"), DOMAIN page \ DevicePage, other>>)
  BY <1>17, <1>18, Zenon
<1> QED BY <1>5, <1>15, <1>19, Zenon DEF PagesAccounted, Apart

(* get_page hands out no page twice and none of the kernel's or a device's, and       *)
(* drop_page, page_unref and obj_pool_destroy lose none: every page of memory is in   *)
(* one place, for every memory map, size of the objects and sequence of calls.        *)
THEOREM PagesAreAccounted == FramesSpec => []PagesAccounted
<1>1. FramesInv => PagesAccounted
  BY InvPages
<1> QED BY <1>1, FramesAreSound, PTL

LEMMA InvTree == FramesInv => TreeExact
<1> SUFFICES ASSUME FramesInv, ~mem.crashed, NEW k \in Key
             PROVE  RadixFind(nodes, root, k) = IF k \in DOMAIN page THEN page[k].obj ELSE None
  BY DEF TreeExact
<1>1. FramesSound
  BY DEF FramesInv, Dead
<1>2. Boxed(mem, page) /\ Treed(mem, nodes, root, page)
  BY <1>1, FramesSoundIs
<1> QED BY <1>2, FoundIs

(* binradix_find finds the struct page of exactly the managed addresses after any     *)
(* sequence of binradix_insert and binradix_delete, for keys of any number of bits.   *)
THEOREM TreeIsExact == FramesSpec => []TreeExact
<1>1. FramesInv => TreeExact
  BY InvTree
<1> QED BY <1>1, FramesAreSound, PTL

LEMMA InvObjects == FramesInv => ObjectsOwned
<1> SUFFICES ASSUME FramesInv, ~mem.crashed PROVE ObjectsOwned
  BY DEF ObjectsOwned
<1>1. FramesSound
  BY DEF FramesInv, Dead
<1>2. Orderly(mem) /\ Boxed(mem, page) /\ Treed(mem, nodes, root, page) /\ Mailed(mem, msg, items)
  BY <1>1, FramesSoundIs
<1>3. PICK e : Shape(nodes, root, e)
  BY <1>2 DEF Treed
<1>4. Pairs(nodes) = Recorded(page) /\ InUse(mem, "tree") = DOMAIN nodes
  BY <1>2 DEF Treed
<1>5. /\ InUse(mem, "page") = Boxes(page) /\ InUse(mem, "msg") = items
      /\ \A j, k \in DOMAIN page : page[j].obj = page[k].obj => j = k
  BY <1>2 DEF Boxed, Mailed
<1>6. \A x \in Leaf(nodes) : nodes[x].part \in DOMAIN page /\ nodes[x].data = page[nodes[x].part].obj
  <2> SUFFICES ASSUME NEW x \in Leaf(nodes)
               PROVE  nodes[x].part \in DOMAIN page /\ nodes[x].data = page[nodes[x].part].obj
    OBVIOUS
  <2>1. <<nodes[x].part, nodes[x].data>> \in Recorded(page)
    BY <1>4, PairsIs
  <2> QED BY <2>1, RecordedIs
<1>7. Distinct(nodes)
  <2> SUFFICES ASSUME NEW x \in Leaf(nodes), NEW y \in Leaf(nodes), nodes[x].data = nodes[y].data
               PROVE  x = y
    BY DEF Distinct
  <2>1. nodes[x].part = nodes[y].part
    BY <1>5, <1>6
  <2> QED BY <1>3, <2>1, LeafOne
<1>8. {nodes[l].data : l \in Leaf(nodes)} = Boxes(page)
  <2>1. ASSUME NEW k \in DOMAIN page PROVE \E l \in Leaf(nodes) : nodes[l].data = page[k].obj
    <3>1. <<k, page[k].obj>> \in Pairs(nodes)
      BY <1>4, RecordedIs
    <3> QED BY <3>1, PairsIs
  <2> QED BY <1>6, <2>1 DEF Boxes
<1>9. IsInjective(Visits(nodes, root)) /\ Range(Visits(nodes, root)) = Boxes(page)
  BY <1>3, <1>7, <1>8, VisitsIs
<1>10. Reach(nodes, root) = DOMAIN nodes
  BY <1>3, ReachIs
<1> QED BY <1>4, <1>5, <1>9, <1>10 DEF ObjectsOwned, Boxes

(* obj_pool_free gets back every node, struct page and message object once and while  *)
(* nobody points to it, and binradix_for_each visits each struct page once.           *)
THEOREM ObjectsAreOwned == FramesSpec => []ObjectsOwned
<1>1. FramesInv => ObjectsOwned
  BY InvObjects
<1> QED BY <1>1, FramesAreSound, PTL
=============================================================================
