---------------------------- MODULE SataFsProofs ----------------------------
(***************************************************************************)
(* Proofs about the file system on the disk (bin/fs/fs.c): blocks have one *)
(* owner, directories are sound, reads are exact, and the disk implements  *)
(* Files, for any number of files, blocks and connections and any size of  *)
(* block.                                                                  *)
(*                                                                         *)
(* The invariant has two halves that only meet at the creation of a file.  *)
(* BytesInv is about inodes and blocks; its part Unwritten, of which no    *)
(* property speaks, says that nothing was ever written behind the end of a *)
(* file or to an unmarked block, which makes holes harmless.  TreeInv is   *)
(* about dentries; it claims nothing of what a label shows but that its    *)
(* number is in use.                                                       *)
(***************************************************************************)
EXTENDS SataFs, ListLemmas, TLAPS

(* The constants, one fact at a time. *)
LEMMA Sizes ==
  /\ BlockSize \in Nat /\ BlockSize > 0
  /\ DataBits \in Nat /\ MaxFiles \in Nat /\ MaxFiles >= 1 /\ MaxPos \in Nat
  /\ Formatted \in Nat
  BY SataFsAssumption

-----------------------------------------------------------------------------
(* Positions, blocks and offsets                                           *)

(* Multiples of the block size. *)
LEMMA Product ==
  ASSUME NEW a \in Int
  PROVE  a * BlockSize \in Int /\ (a \in Nat => a * BlockSize \in Nat)
<1>1. BlockSize \in Nat
  BY Sizes
<1> QED BY <1>1

LEMMA ProductStep ==
  ASSUME NEW a \in Int
  PROVE  (a + 1) * BlockSize = a * BlockSize + BlockSize
<1>1. BlockSize \in Nat
  BY Sizes
<1> QED BY <1>1

LEMMA ProductMinus ==
  ASSUME NEW a \in Int, NEW b \in Int
  PROVE  (a - b - 1) * BlockSize = a * BlockSize - b * BlockSize - BlockSize
<1>1. BlockSize \in Nat
  BY Sizes
<1> QED BY <1>1

LEMMA ProductLess ==
  ASSUME NEW a \in Int, NEW b \in Int, a < b
  PROVE  a * BlockSize + BlockSize <= b * BlockSize
<1>1. BlockSize \in Nat
  BY Sizes
<1> QED BY <1>1

(* A position is an offset in a block. *)
LEMMA Split ==
  ASSUME NEW x \in Nat
  PROVE  /\ x \div BlockSize \in Nat
         /\ x % BlockSize \in Nat /\ x % BlockSize < BlockSize
         /\ x = (x \div BlockSize) * BlockSize + (x % BlockSize)
<1>1. BlockSize \in Nat /\ BlockSize > 0
  BY Sizes
<1> QED BY <1>1

LEMMA Compose ==
  ASSUME NEW q \in Nat, NEW r \in Nat, r < BlockSize
  PROVE  /\ q * BlockSize + r \in Nat
         /\ (q * BlockSize + r) \div BlockSize = q
         /\ (q * BlockSize + r) % BlockSize = r
<1>1. PICK b \in Nat, x \in Nat, qb \in Nat : b = BlockSize /\ qb = q * BlockSize /\ x = qb + r
  BY Sizes, Product
<1>2. PICK d \in Nat, m \in Nat : d = x \div BlockSize /\ m = x % BlockSize
  BY Split
<1>3. PICK db \in Nat : db = d * BlockSize
  BY Product
<1>4. x = db + m /\ m < b
  BY <1>1, <1>2, <1>3, Split
<1>5. ~(q < d)
  <2> SUFFICES ASSUME q < d PROVE FALSE
    OBVIOUS
  <2>1. qb + b <= db
    BY <1>1, <1>3, ProductLess
  <2> QED BY <1>1, <1>4, <2>1
<1>6. ~(d < q)
  <2> SUFFICES ASSUME d < q PROVE FALSE
    OBVIOUS
  <2>1. db + b <= qb
    BY <1>1, <1>3, ProductLess
  <2> QED BY <1>1, <1>4, <2>1
<1>7. d = q
  BY <1>5, <1>6
<1>8. m = r
  BY <1>1, <1>3, <1>4, <1>7
<1> QED BY <1>1, <1>2, <1>7, <1>8

LEMMA DivOrder ==
  ASSUME NEW x \in Nat, NEW y \in Nat, x <= y
  PROVE  x \div BlockSize <= y \div BlockSize
<1>1. PICK b \in Nat : b = BlockSize
  BY Sizes
<1>2. PICK d \in Nat, m \in Nat : d = x \div BlockSize /\ m = x % BlockSize
  BY Split
<1>3. PICK e \in Nat, n \in Nat : e = y \div BlockSize /\ n = y % BlockSize
  BY Split
<1>4. PICK db \in Nat, eb \in Nat : db = d * BlockSize /\ eb = e * BlockSize
  BY Product
<1>5. x = db + m /\ y = eb + n /\ n < b
  BY <1>1, <1>2, <1>3, <1>4, Split
<1>6. ~(e < d)
  <2> SUFFICES ASSUME e < d PROVE FALSE
    OBVIOUS
  <2>1. eb + b <= db
    BY <1>1, <1>4, ProductLess
  <2> QED BY <1>5, <2>1
<1> QED BY <1>2, <1>3, <1>6

-----------------------------------------------------------------------------
(* How a transfer is divided                                               *)

(* A piece is a run of bytes of one block, at its place in the buffer. *)
Fits(p, pos, count) ==
  /\ p.index \in Nat /\ p.off \in Nat /\ p.from \in Nat /\ p.n \in Nat
  /\ p.off + p.n <= BlockSize
  /\ p.from + pos = p.index * BlockSize + p.off
  /\ p.from + p.n <= count

LEMMA PiecesFit ==
  ASSUME NEW pos \in Nat, NEW count \in Nat, NEW p \in Pieces(pos, count)
  PROVE  Fits(p, pos, count)
<1>1. PICK b \in Nat : b = BlockSize
  BY Sizes
<1>2. PICK d \in Nat, m \in Nat : d = pos \div BlockSize /\ m = pos % BlockSize
  BY Split
<1>3. PICK e \in Nat, n \in Nat : e = (pos + count) \div BlockSize /\ n = (pos + count) % BlockSize
  BY Split
<1>4. PICK db \in Nat, eb \in Nat : db = d * BlockSize /\ eb = e * BlockSize
  BY Product
<1>5. pos = db + m /\ pos + count = eb + n /\ m < b /\ n < b
  BY <1>1, <1>2, <1>3, <1>4, Split
<1>6. CASE d = e
  <2>1. p = [index |-> d, off |-> m, from |-> 0, n |-> count]
    BY <1>2, <1>3, <1>6 DEF Pieces
  <2>2. db = eb
    BY <1>4, <1>6
  <2>3. m + count <= b /\ 0 + pos = db + m /\ 0 + count <= count
    BY <1>5, <2>2
  <2> QED BY <1>1, <1>4, <2>1, <2>3 DEF Fits
<1>7. CASE d # e
  <2>1. d < e
    <3>1. d <= e
      BY <1>2, <1>3, DivOrder
    <3> QED BY <1>7, <3>1
  <2>2. db + b <= eb
    BY <1>1, <1>4, <2>1, ProductLess
  <2>3. PICK h \in Nat : h = b - m
    BY <1>5
  <2>4. \/ p = [index |-> d, off |-> m, from |-> 0, n |-> h]
        \/ \E i \in d + 1 .. e - 1 :
             p = [index |-> i, off |-> 0, from |-> h + (i - d - 1) * BlockSize, n |-> BlockSize]
        \/ p = [index |-> e, off |-> 0, from |-> h + (e - d - 1) * BlockSize, n |-> n]
    BY <1>1, <1>2, <1>3, <1>7, <2>3 DEF Pieces
  <2>5. CASE p = [index |-> d, off |-> m, from |-> 0, n |-> h]
    <3>1. m + h <= b /\ 0 + pos = db + m /\ 0 + h <= count
      BY <1>5, <2>2, <2>3
    <3> QED BY <1>1, <1>4, <2>5, <3>1 DEF Fits
  <2>6. ASSUME NEW i \in d + 1 .. e - 1,
               p = [index |-> i, off |-> 0, from |-> h + (i - d - 1) * BlockSize, n |-> BlockSize]
        PROVE  Fits(p, pos, count)
    <3>1. i \in Nat /\ d < i /\ i < e
      OBVIOUS
    <3>2. PICK ib \in Nat : ib = i * BlockSize
      BY <3>1, Product
    <3>3. db + b <= ib /\ ib + b <= eb
      BY <1>1, <1>4, <3>1, <3>2, ProductLess
    <3>4. (i - d - 1) * BlockSize = ib - db - b
      BY <1>1, <1>4, <3>1, <3>2, ProductMinus
    <3>5. PICK from \in Nat : from = h + (ib - db - b)
      BY <2>3, <3>3
    <3>6. p = [index |-> i, off |-> 0, from |-> from, n |-> b]
      BY <1>1, <2>6, <3>4, <3>5
    <3>7. 0 + b <= b /\ from + pos = ib + 0 /\ from + b <= count
      BY <1>5, <2>3, <3>3, <3>5
    <3> QED BY <1>1, <3>1, <3>2, <3>6, <3>7 DEF Fits
  <2>7. CASE p = [index |-> e, off |-> 0, from |-> h + (e - d - 1) * BlockSize, n |-> n]
    <3>1. (e - d - 1) * BlockSize = eb - db - b
      BY <1>1, <1>4, ProductMinus
    <3>2. PICK from \in Nat : from = h + (eb - db - b)
      BY <2>2, <2>3
    <3>3. p = [index |-> e, off |-> 0, from |-> from, n |-> n]
      BY <2>7, <3>1, <3>2
    <3>4. 0 + n <= b /\ from + pos = eb + 0 /\ from + n <= count
      BY <1>5, <2>2, <2>3, <3>2
    <3> QED BY <1>1, <1>4, <3>3, <3>4 DEF Fits
  <2> QED BY <2>4, <2>5, <2>6, <2>7
<1> QED BY <1>6, <1>7

(* Every byte of the transfer is in a piece. *)
LEMMA PieceFor ==
  ASSUME NEW pos \in Nat, NEW count \in Nat, NEW k \in Nat, k < count
  PROVE  \E p \in Pieces(pos, count) : p.from <= k /\ k < p.from + p.n
<1>1. PICK b \in Nat : b = BlockSize
  BY Sizes
<1>2. PICK d \in Nat, m \in Nat : d = pos \div BlockSize /\ m = pos % BlockSize
  BY Split
<1>3. PICK e \in Nat, n \in Nat : e = (pos + count) \div BlockSize /\ n = (pos + count) % BlockSize
  BY Split
<1>4. PICK db \in Nat, eb \in Nat : db = d * BlockSize /\ eb = e * BlockSize
  BY Product
<1>5. pos = db + m /\ pos + count = eb + n /\ m < b /\ n < b
  BY <1>1, <1>2, <1>3, <1>4, Split
<1>6. CASE d = e
  <2> DEFINE p == [index |-> d, off |-> m, from |-> 0, n |-> count]
  <2>1. p \in Pieces(pos, count)
    BY <1>2, <1>3, <1>6 DEF Pieces
  <2>2. p.from = 0 /\ p.n = count
    OBVIOUS
  <2>3. p.from <= k /\ k < p.from + p.n
    BY <2>2
  <2> QED BY <2>1, <2>3
<1>7. CASE d # e
  <2>1. d < e
    <3>1. d <= e
      BY <1>2, <1>3, DivOrder
    <3> QED BY <1>7, <3>1
  <2>2. db + b <= eb
    BY <1>1, <1>4, <2>1, ProductLess
  <2>3. PICK h \in Nat : h = b - m
    BY <1>5
  <2> DEFINE first == [index |-> d, off |-> m, from |-> 0, n |-> h]
             mid(i) == [index |-> i, off |-> 0, from |-> h + (i - d - 1) * BlockSize,
                        n |-> BlockSize]
             last == [index |-> e, off |-> 0, from |-> h + (e - d - 1) * BlockSize, n |-> n]
  <2>4. /\ first \in Pieces(pos, count)
        /\ \A i \in d + 1 .. e - 1 : mid(i) \in Pieces(pos, count)
        /\ last \in Pieces(pos, count)
    BY <1>1, <1>2, <1>3, <1>7, <2>3 DEF Pieces
  <2>5. PICK q \in Nat, r \in Nat : q = (pos + k) \div BlockSize /\ r = (pos + k) % BlockSize
    BY Split
  <2>6. PICK qb \in Nat : qb = q * BlockSize
    BY Product
  <2>7. pos + k = qb + r /\ r < b
    BY <1>1, <2>5, <2>6, Split
  <2>8. d <= q /\ q <= e
    <3>1. d <= q
      BY <1>2, <2>5, DivOrder
    <3>2. q <= e
      BY <1>3, <2>5, DivOrder
    <3> QED BY <3>1, <3>2
  <2>9. CASE q = d
    <3>1. qb = db
      BY <1>4, <2>6, <2>9
    <3>2. 0 <= k /\ k < 0 + h
      BY <1>5, <2>3, <2>7, <3>1
    <3> QED BY <2>4, <3>2
  <2>10. CASE q = e
    <3>1. qb = eb
      BY <1>4, <2>6, <2>10
    <3>2. (e - d - 1) * BlockSize = eb - db - b
      BY <1>1, <1>4, ProductMinus
    <3>3. PICK from \in Nat : from = h + (eb - db - b)
      BY <2>2, <2>3
    <3>4. from <= k /\ k < from + n
      BY <1>5, <2>3, <2>7, <3>1, <3>3
    <3>5. last.from = from /\ last.n = n
      BY <3>2, <3>3
    <3> QED BY <2>4, <3>4, <3>5
  <2>11. CASE d < q /\ q < e
    <3>1. db + b <= qb
      BY <1>1, <1>4, <2>6, <2>11, ProductLess
    <3>2. (q - d - 1) * BlockSize = qb - db - b
      BY <1>1, <1>4, <2>6, ProductMinus
    <3>3. PICK from \in Nat : from = h + (qb - db - b)
      BY <2>3, <3>1
    <3>4. from <= k /\ k < from + b
      BY <1>5, <2>3, <2>7, <3>3
    <3>5. mid(q).from = from /\ mid(q).n = b
      BY <1>1, <3>2, <3>3
    <3>6. mid(q) \in Pieces(pos, count)
      BY <2>4, <2>11
    <3> QED BY <3>4, <3>5, <3>6
  <2> QED BY <2>8, <2>9, <2>10, <2>11
<1> QED BY <1>6, <1>7

(* Where a byte of a piece is in the file. *)
LEMMA PiecePlace ==
  ASSUME NEW pos \in Nat, NEW count \in Nat, NEW p, Fits(p, pos, count),
         NEW k \in Nat, p.from <= k, k < p.from + p.n
  PROVE  /\ k < count
         /\ (pos + k) \div BlockSize = p.index
         /\ (pos + k) % BlockSize = p.off + k - p.from
<1>1. PICK b \in Nat : b = BlockSize
  BY Sizes
<1>2. PICK index \in Nat, off \in Nat, from \in Nat, n \in Nat :
        index = p.index /\ off = p.off /\ from = p.from /\ n = p.n
  BY DEF Fits
<1>3. PICK ib \in Nat : ib = index * BlockSize
  BY Product
<1>4. off + n <= b /\ from + pos = ib + off /\ from + n <= count /\ from <= k /\ k < from + n
  BY <1>1, <1>2, <1>3 DEF Fits
<1>5. PICK r \in Nat : r = off + k - from
  BY <1>4
<1>6. r < b /\ pos + k = ib + r /\ k < count
  BY <1>4, <1>5
<1>7. (ib + r) \div BlockSize = index /\ (ib + r) % BlockSize = r
  BY <1>1, <1>3, <1>6, Compose
<1> QED BY <1>2, <1>5, <1>6, <1>7

-----------------------------------------------------------------------------
(* Finding free blocks                                                     *)

(* A list of different unmarked blocks. *)
Free == {q \in Seq(Block) : IsInjective(q) /\ Range(q) \subseteq Block \ data_bitmap}

(* One call of get_free_data. *)
Find(q) ==
  LET free == (Block \ data_bitmap) \ Range(q)
  IN  IF free = {} THEN q ELSE Append(q, Min(free))

LEMMA FindFree ==
  ASSUME NEW q \in Free
  PROVE  Find(q) \in Free /\ Len(Find(q)) <= Len(q) + 1
<1> DEFINE free == (Block \ data_bitmap) \ Range(q)
<1>0. q \in Seq(Block) /\ IsInjective(q) /\ Range(q) \subseteq Block \ data_bitmap
  BY DEF Free
<1>1. CASE free = {}
  <2>1. Find(q) = q
    BY <1>1, Zenon DEF Find
  <2> QED BY <1>0, <2>1
<1>2. CASE free # {}
  <2>1. free \in SUBSET Nat
    BY Sizes DEF Block
  <2>2. PICK x : x = Min(free)
    OBVIOUS
  <2>3. x \in free
    BY <1>2, <2>1, <2>2, MinMember
  <2>4. x \in Block /\ x \notin data_bitmap /\ x \notin Range(q)
    BY <2>3
  <2>5. Find(q) = Append(q, x)
    BY <1>2, <2>2, Zenon DEF Find
  <2>6. /\ Append(q, x) \in Seq(Block) /\ IsInjective(Append(q, x))
        /\ Range(Append(q, x)) = Range(q) \cup {x}
    BY <1>0, <2>4, AppendDistinct
  <2>7. Append(q, x) \in Free
    BY <1>0, <2>4, <2>6 DEF Free
  <2>8. Len(Append(q, x)) = Len(q) + 1
    BY <1>0
  <2> QED BY <1>0, <2>5, <2>7, <2>8
<1> QED BY <1>1, <1>2

(* n calls. *)
LEMMA FreeDataFree ==
  ASSUME NEW n \in Nat
  PROVE  FreeData(n) \in Free /\ Len(FreeData(n)) <= n
<1> DEFINE Body(g) == [k \in 0 .. n |-> IF k = 0 THEN <<>> ELSE Find(g[k - 1])]
           f == [z \in (1 .. n) \X Free |-> Find(z[2])]
           c == CHOOSE g : g = Body(g)
<1>1. FreeData(n) = c[n]
  BY DEF FreeData, Find
<1>2. \A q \in Free : Find(q) \in Free
  BY FindFree
<1>3. f \in [(1 .. n) \X Free -> Free]
  BY <1>2
<1>4. \A i \in 1 .. n, q \in Free : f[<<i, q>>] = Find(q)
  OBVIOUS
<1> HIDE DEF f
<1>5. <<>> \in Free
  BY DEF Free, IsInjective, Range
<1>6. PICK e : e = <<>>
  OBVIOUS
<1>7. PICK g : Iterates(g, f, e, n, Free)
  BY <1>3, <1>5, <1>6, Iterate
<1>8. g \in [0 .. n -> Free] /\ g[0] = e /\ \A i \in 1 .. n : g[i] = f[<<i, g[i - 1]>>]
  BY <1>7 DEF Iterates
<1>9. \A i \in 0 .. n : g[i] = IF i = 0 THEN <<>> ELSE Find(g[i - 1])
  <2> SUFFICES ASSUME NEW i \in 0 .. n, i # 0 PROVE g[i] = Find(g[i - 1])
    BY <1>6, <1>8
  <2>1. i \in 1 .. n /\ i - 1 \in 0 .. n
    OBVIOUS
  <2>2. g[i - 1] \in Free /\ g[i] = f[<<i, g[i - 1]>>]
    BY <1>8, <2>1
  <2> QED BY <1>4, <2>1, <2>2
<1>10. g = Body(g)
  <2>1. g = [i \in 0 .. n |-> g[i]]
    BY <1>8
  <2> QED BY <1>9, <2>1
<1>11. c = Body(c)
  <2> HIDE DEF Body
  <2> QED BY <1>10
<1> HIDE DEF c
<1>12. c[0] = <<>> /\ \A i \in 1 .. n : c[i] = Find(c[i - 1])
  <2> DEFINE e1(i) == IF i = 0 THEN <<>> ELSE Find(c[i - 1])
  <2>1. c = [i \in 0 .. n |-> e1(i)]
    BY <1>11
  <2> HIDE DEF e1
  <2>2. \A i \in 0 .. n : c[i] = e1(i)
    BY <2>1
  <2>3. 0 \in 0 .. n /\ \A i \in 1 .. n : i \in 0 .. n /\ i # 0
    OBVIOUS
  <2> QED BY <2>2, <2>3 DEF e1
<1> DEFINE T == {i \in 0 .. n : c[i] \in Free /\ Len(c[i]) <= i}
<1>13. 0 \in T
  BY <1>5, <1>12
<1>14. ASSUME NEW i \in 1 .. n, i - 1 \in T PROVE i \in T
  <2>1. c[i - 1] \in Free /\ Len(c[i - 1]) <= i - 1 /\ c[i] = Find(c[i - 1])
    BY <1>12, <1>14
  <2>2. c[i] \in Free /\ Len(c[i]) <= Len(c[i - 1]) + 1
    BY <2>1, FindFree
  <2>3. Len(c[i]) \in Nat /\ Len(c[i - 1]) \in Nat
    BY <2>1, <2>2 DEF Free
  <2> QED BY <2>1, <2>2, <2>3
<1> HIDE DEF T
<1>15. 0 .. n \subseteq T
  BY <1>13, <1>14, UpTo
<1>16. n \in T
  BY <1>15
<1> QED BY <1>1, <1>16 DEF T

-----------------------------------------------------------------------------
(* The invariant                                                           *)

Offset == 0 .. BlockSize - 1
Hole == {Zero, Junk}
Byte == Range(Pattern) \cup Hole

\* What the tables hold.
Types ==
  /\ inode_bitmap \subseteq Ino
  /\ data_bitmap \subseteq Block
  /\ inodes \in [Ino -> [len : Nat, blocks : Seq(Block)]]
  /\ data \in [Block -> [Offset -> Byte]]
  /\ handles \in [Handle -> [kind : {"none", "file", "dir"}, id : Ino \cup {None}, pos : Nat]]

\* A handle's file exists, and a number that is not in use has no bytes.
InUse ==
  /\ \A h \in Handle : handles[h].kind = "file" => handles[h].id \in inode_bitmap
  /\ \A i \in Ino \ inode_bitmap : inodes[i].len = 0

\* A file has the blocks its length accounts for.
Accounted ==
  \A i \in Ino : Len(inodes[i].blocks) =
                   IF inodes[i].len = 0 THEN 0 ELSE (inodes[i].len \div BlockSize) + 1

\* Every block of a file is marked, and belongs to one place of one file.
Owned ==
  /\ \A i \in Ino : Range(inodes[i].blocks) \subseteq data_bitmap /\ IsInjective(inodes[i].blocks)
  /\ \A i, j \in Ino : i # j => Range(inodes[i].blocks) \cap Range(inodes[j].blocks) = {}

\* Nothing was ever written to a block that is not marked, nor behind the end
\* of a file.
Unwritten ==
  /\ \A b \in Block \ data_bitmap : data[b] \in [Offset -> Hole]
  /\ \A i \in Ino : \A k \in 1 .. Len(inodes[i].blocks), o \in Offset :
       (k - 1) * BlockSize + o >= inodes[i].len => data[inodes[i].blocks[k]][o] \in Hole

\* Bytes, positions and blocks.
BytesInv == Types /\ InUse /\ Accounted /\ Owned /\ Unwritten

-----------------------------------------------------------------------------
(* Writing                                                                 *)

(* What clients write. *)
LEMMA BufferBytes ==
  ASSUME NEW buf \in Buffers
  PROVE  buf \in Seq(Byte) /\ Len(buf) \in Nat /\ Len(buf) >= 1
<1>1. Pattern \in Seq(Range(Pattern))
  BY SataFsAssumption
<1> DEFINE R == Range(Pattern)
<1> HIDE DEF R
<1>2. Pattern \in Seq(R)
  BY <1>1 DEF R
<1>3. PICK n \in 1 .. Len(Pattern) : buf = SubSeq(Pattern, 1, n)
  BY DEF Buffers
<1>4. buf \in Seq(R) /\ Len(buf) = n /\ n \in Nat /\ n >= 1
  BY <1>2, <1>3
<1>5. R \subseteq Byte
  BY DEF R, Byte
<1>6. buf \in Seq(Byte)
  BY <1>4, <1>5
<1> QED BY <1>4, <1>6

(* The bytes of a write that end up at one place of one block. *)
At(k, o) == (k - 1) * BlockSize + o

LEMMA AtPlace ==
  ASSUME NEW k \in Nat, k >= 1, NEW o \in Offset
  PROVE  At(k, o) \in Nat /\ At(k, o) \div BlockSize = k - 1 /\ At(k, o) % BlockSize = o
<1>1. k - 1 \in Nat /\ o \in Nat /\ o < BlockSize
  BY Sizes DEF Offset
<1> QED BY <1>1, Compose DEF At

LEMMA PlaceAt ==
  ASSUME NEW x \in Nat
  PROVE  /\ (x \div BlockSize) + 1 \in Nat /\ (x \div BlockSize) + 1 >= 1
         /\ x % BlockSize \in Offset
         /\ At((x \div BlockSize) + 1, x % BlockSize) = x
<1>1. PICK q \in Nat, r \in Nat : q = x \div BlockSize /\ r = x % BlockSize
  BY Split
<1>2. r < BlockSize /\ x = q * BlockSize + r
  BY <1>1, Split
<1>3. r \in Offset
  BY <1>2, Sizes DEF Offset
<1>4. q + 1 \in Nat /\ q + 1 >= 1 /\ q + 1 - 1 = q
  OBVIOUS
<1>5. At(q + 1, r) = x
  BY <1>2, <1>4 DEF At
<1> QED BY <1>1, <1>3, <1>4, <1>5

(* Whether piece p covers offset o of block b, as Write asks it. *)
Covers(p, all, b, o) == p.n > 0 /\ all[p.index + 1] = b /\ p.off <= o /\ o < p.off + p.n

LEMMA CoverPlace ==
  ASSUME NEW pos \in Nat, NEW count \in Nat, NEW all \in Seq(Block), IsInjective(all),
         Len(all) >= Needed(pos, count), NEW p \in Pieces(pos, count),
         NEW b, NEW o \in Offset, Covers(p, all, b, o)
  PROVE  /\ p.index + 1 \in 1 .. Len(all)
         /\ At(p.index + 1, o) >= pos /\ At(p.index + 1, o) < pos + count
         /\ p.from + o - p.off = At(p.index + 1, o) - pos
<1>1. Fits(p, pos, count)
  BY PiecesFit
<1>2. PICK index \in Nat, off \in Nat, from \in Nat, n \in Nat :
        index = p.index /\ off = p.off /\ from = p.from /\ n = p.n
  BY <1>1 DEF Fits
<1>3. o \in Nat /\ off <= o /\ o < off + n
  BY <1>2, Sizes DEF Offset, Covers
<1>4. PICK k \in Nat : k = from + o - off
  BY <1>3
<1>5. from <= k /\ k < from + n
  BY <1>3, <1>4
<1>6. k < count /\ (pos + k) \div BlockSize = index
  BY <1>1, <1>2, <1>5, PiecePlace
<1>7. PICK ib \in Nat : ib = index * BlockSize
  BY Product
<1>8. from + pos = ib + off
  BY <1>1, <1>2, <1>7 DEF Fits
<1>9. At(index + 1, o) = ib + o
  <2>1. index + 1 - 1 = index
    OBVIOUS
  <2> QED BY <1>7, <2>1 DEF At
<1>10. ib + o = pos + k
  BY <1>3, <1>4, <1>8
<1>11. index <= (pos + count) \div BlockSize
  <2>1. pos + k \in Nat /\ pos + count \in Nat /\ pos + k <= pos + count
    BY <1>6
  <2> QED BY <1>6, <2>1, DivOrder
<1>12. index + 1 \in 1 .. Len(all)
  <2>0. PICK l \in Nat : l = Len(all)
    OBVIOUS
  <2>1. PICK q \in Nat : q = (pos + count) \div BlockSize
    <3>1. pos + count \in Nat
      OBVIOUS
    <3> QED BY <3>1, Split
  <2>2. l >= q + 1 /\ index <= q
    BY <1>11, <2>0, <2>1 DEF Needed
  <2>3. index + 1 \in 1 .. l
    BY <2>2
  <2> QED BY <2>0, <2>3
<1>13. PICK x \in Nat : x = At(index + 1, o) /\ x = pos + k
  BY <1>3, <1>9, <1>10
<1>14. x >= pos /\ x < pos + count /\ from + o - off = x - pos
  BY <1>4, <1>6, <1>13
<1> QED BY <1>2, <1>12, <1>13, <1>14

LEMMA PlaceCover ==
  ASSUME NEW pos \in Nat, NEW count \in Nat, NEW all \in Seq(Block),
         NEW k \in 1 .. Len(all), NEW o \in Offset, At(k, o) >= pos, At(k, o) < pos + count
  PROVE  \E p \in Pieces(pos, count) : Covers(p, all, all[k], o)
<1>1. k \in Nat /\ k >= 1 /\ o \in Nat
  BY Sizes DEF Offset
<1>2. PICK x \in Nat : x = At(k, o)
  BY <1>1, AtPlace
<1>3. PICK j \in Nat : j = x - pos
  BY <1>2
<1>4. j < count /\ pos + j = x
  BY <1>2, <1>3
<1>5. PICK p \in Pieces(pos, count) : p.from <= j /\ j < p.from + p.n
  BY <1>4, PieceFor
<1>6. Fits(p, pos, count)
  BY PiecesFit
<1>7. x \div BlockSize = p.index /\ x % BlockSize = p.off + j - p.from
  BY <1>4, <1>5, <1>6, PiecePlace
<1>8. x \div BlockSize = k - 1 /\ x % BlockSize = o
  BY <1>1, <1>2, AtPlace
<1>9. PICK index \in Nat, off \in Nat, from \in Nat, n \in Nat :
        index = p.index /\ off = p.off /\ from = p.from /\ n = p.n
  BY <1>6 DEF Fits
<1>10. index + 1 = k /\ o = off + j - from /\ from <= j /\ j < from + n
  <2>1. index = k - 1 /\ o = off + j - from
    BY <1>7, <1>8, <1>9
  <2>2. from <= j /\ j < from + n
    BY <1>5, <1>9
  <2>3. index + 1 = k
    BY <1>1, <2>1
  <2> QED BY <2>1, <2>2, <2>3
<1>11. n > 0 /\ off <= o /\ o < off + n
  BY <1>10
<1>12. Covers(p, all, all[k], o)
  BY <1>9, <1>10, <1>11 DEF Covers
<1> QED BY <1>12

(* The data blocks after write_sata_wrapper has written all pieces. *)
Written(all, pos, buf) ==
  [b \in Block |-> [o \in Offset |->
     IF \E p \in Pieces(pos, Len(buf)) : Covers(p, all, b, o)
     THEN LET p == CHOOSE q \in Pieces(pos, Len(buf)) : Covers(q, all, b, o) IN ByteFor(buf, p, o)
     ELSE data[b][o]]]

(* Each byte is where the position says, and no other byte has changed. *)
Placed(D, all, pos, buf) ==
  /\ D \in [Block -> [Offset -> Byte]]
  /\ \A k \in 1 .. Len(all), o \in Offset :
       D[all[k]][o] = IF At(k, o) >= pos /\ At(k, o) < pos + Len(buf)
                      THEN buf[At(k, o) - pos + 1] ELSE data[all[k]][o]
  /\ \A b \in Block \ Range(all) : D[b] = data[b]

LEMMA WrittenPlaced ==
  ASSUME Types, NEW pos \in Nat, NEW buf \in Seq(Byte), NEW all \in Seq(Block), IsInjective(all),
         Len(all) >= Needed(pos, Len(buf))
  PROVE  Placed(Written(all, pos, buf), all, pos, buf)
<1>1. PICK count \in Nat : count = Len(buf)
  OBVIOUS
<1> DEFINE ps == Pieces(pos, count)
           byte(b, o) == IF \E p \in ps : Covers(p, all, b, o)
                         THEN ByteFor(buf, CHOOSE q \in ps : Covers(q, all, b, o), o)
                         ELSE data[b][o]
<1>2. PICK D : D = Written(all, pos, buf)
  OBVIOUS
<1>3. D = [b \in Block |-> [o \in Offset |-> byte(b, o)]]
  BY <1>1, <1>2 DEF Written
<1>4. ASSUME NEW b \in Block, NEW o \in Offset, NEW p \in ps, Covers(p, all, b, o)
      PROVE  /\ p.index + 1 \in 1 .. Len(all) /\ b = all[p.index + 1]
             /\ At(p.index + 1, o) >= pos /\ At(p.index + 1, o) < pos + count
             /\ ByteFor(buf, p, o) = buf[At(p.index + 1, o) - pos + 1]
  <2>1. /\ p.index + 1 \in 1 .. Len(all)
        /\ At(p.index + 1, o) >= pos /\ At(p.index + 1, o) < pos + count
        /\ p.from + o - p.off = At(p.index + 1, o) - pos
    BY <1>1, <1>4, CoverPlace
  <2>2. b = all[p.index + 1]
    BY <1>4 DEF Covers
  <2> QED BY <2>1, <2>2 DEF ByteFor
<1>5. ASSUME NEW k \in 1 .. Len(all), NEW o \in Offset
      PROVE  byte(all[k], o) = IF At(k, o) >= pos /\ At(k, o) < pos + count
                               THEN buf[At(k, o) - pos + 1] ELSE data[all[k]][o]
  <2>1. all[k] \in Block /\ DOMAIN all = 1 .. Len(all)
    OBVIOUS
  <2>2. ASSUME NEW p \in ps, Covers(p, all, all[k], o)
        PROVE  /\ At(k, o) >= pos /\ At(k, o) < pos + count
               /\ ByteFor(buf, p, o) = buf[At(k, o) - pos + 1]
    <3>1. p.index + 1 \in 1 .. Len(all) /\ all[k] = all[p.index + 1]
      BY <1>4, <2>1, <2>2
    <3>2. p.index + 1 = k
      BY <2>1, <3>1 DEF IsInjective
    <3>3. /\ At(p.index + 1, o) >= pos /\ At(p.index + 1, o) < pos + count
          /\ ByteFor(buf, p, o) = buf[At(p.index + 1, o) - pos + 1]
      BY <1>4, <2>1, <2>2
    <3> QED BY <3>2, <3>3
  <2>3. CASE At(k, o) >= pos /\ At(k, o) < pos + count
    <3>1. \E p \in ps : Covers(p, all, all[k], o)
      BY <2>3, PlaceCover
    <3> DEFINE p == CHOOSE q \in ps : Covers(q, all, all[k], o)
    <3>2. p \in ps /\ Covers(p, all, all[k], o)
      BY <3>1
    <3>3. byte(all[k], o) = ByteFor(buf, p, o)
      BY <3>1
    <3> HIDE DEF p
    <3>4. ByteFor(buf, p, o) = buf[At(k, o) - pos + 1]
      BY <2>2, <3>2
    <3> QED BY <2>3, <3>3, <3>4
  <2>4. CASE ~(At(k, o) >= pos /\ At(k, o) < pos + count)
    <3>1. ~ \E p \in ps : Covers(p, all, all[k], o)
      BY <2>2, <2>4
    <3> QED BY <2>4, <3>1
  <2> QED BY <2>3, <2>4
<1>6. ASSUME NEW b \in Block \ Range(all), NEW o \in Offset
      PROVE  byte(b, o) = data[b][o]
  <2>1. ASSUME NEW p \in ps, Covers(p, all, b, o) PROVE FALSE
    <3>1. p.index + 1 \in DOMAIN all /\ b = all[p.index + 1]
      BY <1>4, <2>1
    <3> QED BY <3>1 DEF Range
  <2> QED BY <2>1
<1>7. ASSUME NEW b \in Block, NEW o \in Offset PROVE data[b][o] \in Byte
  BY DEF Types
<1> HIDE DEF ps, byte
<1>8. ASSUME NEW b \in Block, NEW o \in Offset PROVE byte(b, o) \in Byte
  <2>1. CASE b \in Range(all)
    <3>1. PICK k \in 1 .. Len(all) : b = all[k]
      BY <2>1 DEF Range
    <3>2. CASE At(k, o) >= pos /\ At(k, o) < pos + count
      <4>1. k \in Nat /\ k >= 1
        OBVIOUS
      <4>2. PICK x \in Nat : x = At(k, o)
        BY <4>1, AtPlace
      <4>3. x - pos + 1 \in 1 .. count
        BY <3>2, <4>2
      <4>4. buf[x - pos + 1] \in Byte
        BY <1>1, <4>3
      <4> QED BY <1>5, <3>1, <3>2, <4>2, <4>4
    <3>3. CASE ~(At(k, o) >= pos /\ At(k, o) < pos + count)
      <4>1. byte(b, o) = data[b][o]
        BY <1>5, <3>1, <3>3
      <4> QED BY <1>7, <4>1
    <3> QED BY <3>2, <3>3
  <2>2. CASE b \notin Range(all)
    BY <1>6, <1>7, <2>2
  <2> QED BY <2>1, <2>2
<1>9. D \in [Block -> [Offset -> Byte]]
  BY <1>3, <1>8
<1>10. ASSUME NEW k \in 1 .. Len(all), NEW o \in Offset
       PROVE  D[all[k]][o] = byte(all[k], o)
  <2>1. all[k] \in Block
    OBVIOUS
  <2> QED BY <1>3, <2>1
<1>11. ASSUME NEW b \in Block \ Range(all) PROVE D[b] = data[b]
  <2>1. D[b] = [o \in Offset |-> byte(b, o)]
    BY <1>3
  <2>2. data[b] = [o \in Offset |-> data[b][o]]
    BY DEF Types
  <2> QED BY <1>6, <2>1, <2>2
<1> QED BY <1>1, <1>2, <1>5, <1>9, <1>10, <1>11 DEF Placed

(* What a file's list of blocks becomes. *)
Grown(i, new, all, need) ==
  /\ new \in Free
  /\ all \in Seq(Block) /\ IsInjective(all)
  /\ Range(all) = Range(inodes[i].blocks) \cup Range(new)
  /\ Joined(all, inodes[i].blocks, new)
  /\ Len(all) <= Len(inodes[i].blocks) \/ Len(all) <= need

LEMMA BlocksGrow ==
  ASSUME BytesInv, NEW i \in Ino, NEW pos \in Nat, NEW count \in Nat
  PROVE  Grown(i, NewBlocks(i, pos, count),
               inodes[i].blocks \o NewBlocks(i, pos, count), Needed(pos, count))
<1>1. PICK old \in Seq(Block) : old = inodes[i].blocks
  BY DEF BytesInv, Types
<1>2. IsInjective(old) /\ Range(old) \subseteq data_bitmap
  BY <1>1 DEF BytesInv, Owned
<1>3. PICK need \in Nat : need = Needed(pos, count)
  <2>1. pos + count \in Nat
    OBVIOUS
  <2> QED BY <2>1, Split DEF Needed
<1>4. PICK l \in Nat : l = Len(old)
  OBVIOUS
<1>5. PICK new : new = NewBlocks(i, pos, count)
  OBVIOUS
<1>6. new \in Free /\ (Len(new) = 0 \/ Len(new) <= need - l)
  <2>1. CASE need - l > 0
    <3>1. new = FreeData(need - l) /\ need - l \in Nat
      BY <1>1, <1>3, <1>4, <1>5, <2>1 DEF NewBlocks
    <3> QED BY <3>1, FreeDataFree
  <2>2. CASE ~(need - l > 0)
    <3>1. new = <<>>
      BY <1>1, <1>3, <1>4, <1>5, <2>2 DEF NewBlocks
    <3>2. <<>> \in Free /\ Len(<<>>) = 0
      BY DEF Free, IsInjective, Range
    <3> QED BY <3>1, <3>2
  <2> QED BY <2>1, <2>2
<1>7. new \in Seq(Block) /\ IsInjective(new) /\ Range(new) \cap data_bitmap = {}
  BY <1>6 DEF Free
<1>8. PICK all : all = old \o new
  OBVIOUS
<1>9. /\ all \in Seq(Block) /\ IsInjective(all) /\ Range(all) = Range(old) \cup Range(new)
  <2>1. Range(old) \cap Range(new) = {}
    BY <1>2, <1>7
  <2> QED BY <1>2, <1>7, <1>8, <2>1, ConcatDistinct
<1>10. Joined(all, old, new)
  BY <1>7, <1>8, Join
<1>11. Len(all) <= l \/ Len(all) <= need
  <2>1. PICK n \in Nat : n = Len(new)
    BY <1>7
  <2>2. Len(all) = l + n
    BY <1>4, <1>10, <2>1 DEF Joined
  <2>3. n = 0 \/ n <= need - l
    BY <1>6, <2>1
  <2> QED BY <2>2, <2>3
<1>12. Grown(i, new, all, need)
  BY <1>1, <1>4, <1>6, <1>9, <1>10, <1>11 DEF Grown
<1> QED BY <1>1, <1>3, <1>5, <1>8, <1>12

(* The length a successful write gives the file accounts for its blocks. *)
Lengthened(i, l, end, all) ==
  /\ l \in Nat /\ l > 0 /\ l >= inodes[i].len /\ l >= end
  /\ l = inodes[i].len \/ l = end
  /\ Len(all) = (l \div BlockSize) + 1

LEMMA LengthGrows ==
  ASSUME BytesInv, NEW i \in Ino, NEW pos \in Nat, NEW count \in Nat, count >= 1,
         NEW new, NEW all, Grown(i, new, all, Needed(pos, count)), Len(all) >= Needed(pos, count)
  PROVE  Lengthened(i, NewLength(i, pos + count), pos + count, all)
<1>1. PICK len \in Nat : len = inodes[i].len
  BY DEF BytesInv, Types
<1>2. PICK end \in Nat : end = pos + count
  OBVIOUS
<1>3. PICK q \in Nat : q = end \div BlockSize
  BY Split
<1>4. PICK m \in Nat : m = Len(inodes[i].blocks)
  BY DEF BytesInv, Types
<1>5. PICK a \in Nat : a = Len(all)
  BY DEF Grown
<1>6. m = IF len = 0 THEN 0 ELSE (len \div BlockSize) + 1
  BY <1>1, <1>4 DEF BytesInv, Accounted
<1>7. a >= q + 1 /\ (a <= m \/ a <= q + 1)
  BY <1>2, <1>3, <1>4, <1>5 DEF Grown, Needed
<1>8. a >= m
  <2>1. PICK n \in Nat : n = Len(new)
    BY DEF Grown, Free
  <2>2. a = m + n
    BY <1>4, <1>5, <2>1 DEF Grown, Joined
  <2> QED BY <2>2
<1>9. CASE end >= len
  <2>1. m <= q + 1
    <3>1. CASE len = 0
      BY <1>6, <3>1
    <3>2. CASE len # 0
      <4>1. PICK d \in Nat : d = len \div BlockSize
        BY Split
      <4>2. d <= q
        BY <1>3, <1>9, <4>1, DivOrder
      <4>3. m = d + 1
        BY <1>6, <3>2, <4>1
      <4> QED BY <4>2, <4>3
    <3> QED BY <3>1, <3>2
  <2>2. a = q + 1
    BY <1>7, <2>1
  <2>3. NewLength(i, pos + count) = end
    BY <1>1, <1>2, <1>9 DEF NewLength
  <2>4. end > 0 /\ end >= len
    BY <1>2, <1>9
  <2> QED BY <1>1, <1>2, <1>3, <1>5, <2>2, <2>3, <2>4 DEF Lengthened
<1>10. CASE end < len
  <2>1. PICK d \in Nat : d = len \div BlockSize
    BY Split
  <2>2. q <= d
    BY <1>3, <1>10, <2>1, DivOrder
  <2>3. m = d + 1
    BY <1>6, <1>10, <2>1
  <2>4. a = d + 1
    BY <1>7, <1>8, <2>2, <2>3
  <2>5. NewLength(i, pos + count) = len
    BY <1>1, <1>2, <1>10 DEF NewLength
  <2>6. len > 0 /\ len >= end
    BY <1>10
  <2> QED BY <1>1, <1>2, <1>5, <2>1, <2>4, <2>5, <2>6 DEF Lengthened
<1> QED BY <1>9, <1>10

(* IO_WRITE, with the facts about its parts. *)
Appends(h, buf, id, pos, new, all, l) ==
  /\ Placed(data', all, pos, buf)
  /\ inodes' = [inodes EXCEPT ![id] = [len |-> l, blocks |-> all]]
  /\ handles' = [handles EXCEPT ![h].pos = @ + Len(buf)]
  /\ Lengthened(id, l, pos + Len(buf), all)

LEMMA WriteStep ==
  ASSUME BytesInv, NEW h \in Handle, NEW buf \in Buffers, Write(h, buf)
  PROVE  /\ UNCHANGED <<inode_bitmap, dentry_bitmap, dentries, tail, fault>>
         /\ \E id \in inode_bitmap, pos \in Nat : \E new, all, l :
              /\ handles[h].kind = "file" /\ handles[h].id = id /\ handles[h].pos = pos
              /\ data_bitmap' = data_bitmap \cup Range(new)
              /\ Grown(id, new, all, Needed(pos, Len(buf)))
              /\ \/ UNCHANGED <<inodes, data, handles>>
                 \/ Appends(h, buf, id, pos, new, all, l)
<1>1. handles[h].kind = "file"
  BY DEF Write
<1>2. PICK id \in inode_bitmap : id = handles[h].id
  BY <1>1 DEF BytesInv, InUse
<1>3. PICK pos \in Nat : pos = handles[h].pos
  BY DEF BytesInv, Types
<1>4. buf \in Seq(Byte) /\ Len(buf) \in Nat /\ Len(buf) >= 1
  BY BufferBytes
<1>5. id \in Ino
  BY DEF BytesInv, Types
<1>6. PICK new : new = NewBlocks(id, pos, Len(buf))
  OBVIOUS
<1>7. PICK all : all = inodes[id].blocks \o new
  OBVIOUS
<1>8. PICK l : l = NewLength(id, pos + Len(buf))
  OBVIOUS
<1>9. Grown(id, new, all, Needed(pos, Len(buf)))
  BY <1>4, <1>5, <1>6, <1>7, BlocksGrow
<1>10. data_bitmap' = data_bitmap \cup Range(new)
  BY <1>2, <1>3, <1>6 DEF Write, Marked
<1>11. UNCHANGED <<inode_bitmap, dentry_bitmap, dentries, tail, fault>>
  BY DEF Write
<1>12. CASE Len(all) < Needed(pos, Len(buf))
  <2>1. UNCHANGED <<inodes, data, handles>>
    BY <1>2, <1>3, <1>6, <1>7, <1>12 DEF Write
  <2> QED BY <1>1, <1>2, <1>3, <1>9, <1>10, <1>11, <2>1
<1>13. CASE ~(Len(all) < Needed(pos, Len(buf)))
  <2>1. Len(all) >= Needed(pos, Len(buf))
    <3>1. Len(all) \in Nat
      BY <1>9 DEF Grown
    <3>2. PICK end \in Nat : end = pos + Len(buf)
      BY <1>4
    <3>3. Needed(pos, Len(buf)) \in Nat
      <4>1. end \div BlockSize \in Nat
        BY Split
      <4> QED BY <3>2, <4>1 DEF Needed
    <3> QED BY <1>13, <3>1, <3>3
  <2>2. data' = Written(all, pos, buf)
    <3>1. data' = Written(inodes[handles[h].id].blocks
                            \o NewBlocks(handles[h].id, handles[h].pos, Len(buf)),
                          handles[h].pos, buf)
      BY <1>2, <1>3, <1>6, <1>7, <1>13 DEF Write, Written, Covers, Offset
    <3> QED BY <1>2, <1>3, <1>6, <1>7, <3>1
  <2>3. Placed(data', all, pos, buf)
    <3>1. Types /\ all \in Seq(Block) /\ IsInjective(all)
      BY <1>9 DEF Grown, BytesInv
    <3> QED BY <1>4, <2>1, <2>2, <3>1, WrittenPlaced
  <2>4. /\ inodes' = [inodes EXCEPT ![id] = [len |-> l, blocks |-> all]]
        /\ handles' = [handles EXCEPT ![h].pos = @ + Len(buf)]
    BY <1>2, <1>3, <1>6, <1>7, <1>8, <1>13 DEF Write
  <2>5. Lengthened(id, l, pos + Len(buf), all)
    BY <1>4, <1>5, <1>8, <1>9, <2>1, LengthGrows
  <2>6. Appends(h, buf, id, pos, new, all, l)
    BY <2>3, <2>4, <2>5 DEF Appends
  <2> QED BY <1>1, <1>2, <1>3, <1>9, <1>10, <1>11, <2>6
<1> QED BY <1>12, <1>13

(* A write that finds too few blocks: those it found stay marked. *)
LEMMA FullBytes ==
  ASSUME BytesInv, NEW id \in Ino, NEW new, NEW all, NEW need, Grown(id, new, all, need),
         data_bitmap' = data_bitmap \cup Range(new),
         UNCHANGED <<inodes, data, handles, inode_bitmap>>
  PROVE  BytesInv'
<1>1. Range(new) \subseteq Block
  BY DEF Grown, Free
<1>2. Types'
  BY <1>1 DEF BytesInv, Types
<1>3. InUse' /\ Accounted'
  BY DEF BytesInv, InUse, Accounted
<1>4. Owned'
  BY DEF BytesInv, Owned
<1>5. Unwritten'
  BY DEF BytesInv, Unwritten
<1> QED BY <1>2, <1>3, <1>4, <1>5 DEF BytesInv

(* What a file's blocks hold behind its end before the write. *)
LEMMA Behind ==
  ASSUME BytesInv, NEW id \in Ino, NEW new, NEW all, NEW need, Grown(id, new, all, need),
         NEW k \in 1 .. Len(all), NEW o \in Offset, At(k, o) >= inodes[id].len
  PROVE  data[all[k]][o] \in Hole
<1>1. all \in Seq(Block) /\ new \in Seq(Block) /\ Range(new) \subseteq Block \ data_bitmap
  BY DEF Grown, Free
<1>2. k \in Nat /\ k >= 1
  BY <1>1
<1>3. PICK m \in Nat : m = Len(inodes[id].blocks)
  BY DEF BytesInv, Types
<1>4. CASE k <= m
  <2>1. k \in 1 .. m /\ all[k] = inodes[id].blocks[k]
    BY <1>2, <1>3, <1>4 DEF Grown, Joined
  <2>2. (k - 1) * BlockSize + o >= inodes[id].len
    BY DEF At
  <2> QED BY <1>3, <2>1, <2>2 DEF BytesInv, Unwritten
<1>5. CASE k > m
  <2>1. PICK j \in Nat : j = k - m
    BY <1>2, <1>5
  <2>2. Len(all) = m + Len(new) /\ Len(new) \in Nat
    BY <1>1, <1>3 DEF Grown, Joined
  <2>3. j \in 1 .. Len(new) /\ k = m + j
    BY <1>5, <2>1, <2>2
  <2>4. all[k] = new[j]
    BY <1>3, <2>3 DEF Grown, Joined
  <2>5. new[j] \in Range(new)
    BY <1>1, <2>3 DEF Range
  <2>6. all[k] \in Block \ data_bitmap
    BY <1>1, <2>4, <2>5
  <2> QED BY <2>6 DEF BytesInv, Unwritten
<1> QED BY <1>2, <1>3, <1>4, <1>5

(* A write that finds its blocks. *)
LEMMA WriteBytes ==
  ASSUME BytesInv, NEW h \in Handle, NEW buf \in Seq(Byte), NEW id \in inode_bitmap, NEW pos \in Nat,
         NEW new, NEW all, NEW need, NEW l,
         Grown(id, new, all, need), Appends(h, buf, id, pos, new, all, l),
         data_bitmap' = data_bitmap \cup Range(new), UNCHANGED inode_bitmap
  PROVE  BytesInv'
<1>1. id \in Ino /\ inode_bitmap \subseteq Ino
  BY DEF BytesInv, Types
<1>2. /\ new \in Seq(Block) /\ Range(new) \subseteq Block /\ Range(new) \cap data_bitmap = {}
      /\ all \in Seq(Block) /\ IsInjective(all)
      /\ Range(all) = Range(inodes[id].blocks) \cup Range(new)
  BY DEF Grown, Free
<1>3. l \in Nat /\ l > 0 /\ Len(all) = (l \div BlockSize) + 1
  BY DEF Appends, Lengthened
<1>4. /\ inodes' \in [Ino -> [len : Nat, blocks : Seq(Block)]]
      /\ inodes'[id].len = l /\ inodes'[id].blocks = all
      /\ \A i \in Ino \ {id} : inodes'[i] = inodes[i]
  BY <1>1, <1>2, <1>3 DEF BytesInv, Types, Appends
<1>5. handles' \in [Handle -> [kind : {"none", "file", "dir"}, id : Ino \cup {None}, pos : Nat]]
  <2>1. PICK p \in Nat : p = handles[h].pos + Len(buf)
    BY DEF BytesInv, Types
  <2>2. handles' = [handles EXCEPT ![h].pos = p]
    BY <2>1 DEF Appends
  <2> QED BY <2>2 DEF BytesInv, Types
<1>6. Types'
  BY <1>1, <1>2, <1>4, <1>5 DEF BytesInv, Types, Appends, Placed
<1>7. InUse'
  <2>1. \A g \in Handle : handles'[g].kind = handles[g].kind /\ handles'[g].id = handles[g].id
    BY DEF BytesInv, Types, Appends
  <2> QED BY <1>4, <2>1 DEF BytesInv, InUse
<1>8. Accounted'
  <2>1. Len(inodes'[id].blocks) = IF inodes'[id].len = 0 THEN 0
                                  ELSE (inodes'[id].len \div BlockSize) + 1
    BY <1>3, <1>4
  <2> QED BY <1>4, <2>1 DEF BytesInv, Accounted
<1>9. Owned'
  <2>1. \A i \in Ino \ {id} : Range(inodes[i].blocks) \cap Range(all) = {}
    BY <1>1, <1>2 DEF BytesInv, Owned
  <2>2. \A i \in Ino : Range(inodes'[i].blocks) \subseteq data_bitmap' /\ IsInjective(inodes'[i].blocks)
    BY <1>1, <1>2, <1>4 DEF BytesInv, Owned
  <2>3. ASSUME NEW i \in Ino, NEW j \in Ino, i # j
        PROVE  Range(inodes'[i].blocks) \cap Range(inodes'[j].blocks) = {}
    <3>1. CASE i = id
      BY <1>4, <2>1, <2>3, <3>1
    <3>2. CASE j = id
      BY <1>4, <2>1, <2>3, <3>2
    <3>3. CASE i # id /\ j # id
      BY <1>4, <2>3, <3>3 DEF BytesInv, Owned
    <3> QED BY <3>1, <3>2, <3>3
  <2> QED BY <2>2, <2>3 DEF Owned
<1>10. Unwritten'
  <2>1. ASSUME NEW b \in Block \ data_bitmap' PROVE data'[b] \in [Offset -> Hole]
    <3>1. b \in Block \ data_bitmap /\ b \notin Range(all)
      BY <1>1, <1>2 DEF BytesInv, Owned
    <3>2. data'[b] = data[b]
      BY <3>1 DEF Appends, Placed
    <3> QED BY <3>1, <3>2 DEF BytesInv, Unwritten
  <2>2. ASSUME NEW i \in Ino, i # id, NEW k \in 1 .. Len(inodes'[i].blocks), NEW o \in Offset,
               (k - 1) * BlockSize + o >= inodes'[i].len
        PROVE  data'[inodes'[i].blocks[k]][o] \in Hole
    <3>1. PICK q \in Seq(Block) : q = inodes[i].blocks
      BY DEF BytesInv, Types
    <3>2. inodes'[i].blocks = q /\ inodes'[i].len = inodes[i].len
      BY <1>4, <2>2, <3>1
    <3>3. k \in DOMAIN q /\ k \in 1 .. Len(q)
      BY <3>2
    <3>4. q[k] \in Range(q) /\ q[k] \in Block
      BY <3>3 DEF Range
    <3>5. q[k] \notin Range(all)
      BY <1>1, <1>2, <2>2, <3>1, <3>4 DEF BytesInv, Owned
    <3>6. data'[q[k]] = data[q[k]]
      BY <3>4, <3>5 DEF Appends, Placed
    <3>7. data[q[k]][o] \in Hole
      BY <2>2, <3>1, <3>2, <3>3 DEF BytesInv, Unwritten
    <3> QED BY <3>2, <3>6, <3>7
  <2>3. ASSUME NEW k \in 1 .. Len(all), NEW o \in Offset, (k - 1) * BlockSize + o >= l
        PROVE  data'[all[k]][o] \in Hole
    <3>1. k \in Nat /\ k >= 1
      BY <1>2
    <3>2. PICK x \in Nat : x = At(k, o) /\ x >= l
      BY <2>3, <3>1, AtPlace DEF At
    <3>3. PICK n \in Nat : n = Len(buf)
      OBVIOUS
    <3>4. ~(x < pos + n)
      BY <3>2, <3>3 DEF Appends, Lengthened
    <3>5. data'[all[k]][o] = data[all[k]][o]
      BY <3>2, <3>3, <3>4 DEF Appends, Placed
    <3>6. PICK len \in Nat : len = inodes[id].len
      BY <1>1 DEF BytesInv, Types
    <3>7. x >= len
      BY <3>2, <3>6 DEF Appends, Lengthened
    <3>8. At(k, o) >= inodes[id].len
      BY <3>2, <3>6, <3>7
    <3> QED BY <1>1, <3>5, <3>8, Behind
  <2> QED BY <1>4, <2>1, <2>2, <2>3 DEF Unwritten
<1> QED BY <1>6, <1>7, <1>8, <1>9, <1>10 DEF BytesInv

-----------------------------------------------------------------------------
(* The directories                                                         *)

Names == Path \cup {None}
Labels(B) == [name : Names, id : B]
Tables(B) == [Ino -> [name : Names, id : B, subdirs : Seq(Ino)]]

\* The numbers in use, and what dentries show of them: a label, right or
\* another's, has the number of a file, a file is listed at one place, and
\* dentries that are not in use list nothing.
TreeInv ==
  /\ 0 \in inode_bitmap /\ inode_bitmap \subseteq Ino /\ dentry_bitmap = inode_bitmap
  /\ dentries \in Tables(inode_bitmap) /\ tail \in Labels(inode_bitmap)
  /\ \A d \in Ino \ inode_bitmap : dentries[d].subdirs = <<>>
  /\ \A d \in Ino : /\ IsInjective(dentries[d].subdirs)
                    /\ Range(dentries[d].subdirs) \subseteq inode_bitmap \ {0}
  /\ \A d, e \in Ino : d # e => Range(dentries[d].subdirs) \cap Range(dentries[e].subdirs) = {}
  /\ \A i \in inode_bitmap \ {0} : \E d \in Ino : i \in Range(dentries[d].subdirs)

(* write_dentry changes one dentry's list. *)
LEMMA StoredTable ==
  ASSUME NEW B, NEW D \in Tables(B), NEW i \in Ino, NEW s \in Seq(Ino), NEW l \in Labels(B)
  PROVE  /\ Stored(D, i, s, l) \in Tables(B)
         /\ Stored(D, i, s, l)[i].subdirs = s
         /\ \A d \in Ino \ {i} : Stored(D, i, s, l)[d] = D[d]
<1>1. CASE Odd(i)
  <2>1. Stored(D, i, s, l) = [D EXCEPT ![i] = [D[i] EXCEPT !.subdirs = s]]
    BY <1>1 DEF Stored
  <2> QED BY <2>1 DEF Tables
<1>2. CASE ~Odd(i)
  <2>1. Stored(D, i, s, l) = [D EXCEPT ![i] = [name |-> l.name, id |-> l.id, subdirs |-> s]]
    BY <1>2 DEF Stored
  <2>2. l.name \in Names /\ l.id \in B
    BY DEF Labels
  <2> QED BY <2>1, <2>2 DEF Tables
<1> QED BY <1>1, <1>2

(* What get_dentry reads, and what it leaves in common_buf, are labels. *)
LEMMA LabelType ==
  ASSUME NEW B, NEW D \in Tables(B), NEW t \in Labels(B), NEW i \in Ino
  PROVE  Label(D, t, i) \in Labels(B)
<1>1. CASE Odd(i)
  BY <1>1 DEF Label
<1>2. CASE ~Odd(i)
  <2>1. D[i].name \in Names /\ D[i].id \in B
    BY DEF Tables
  <2> QED BY <1>2, <2>1 DEF Label, Labels
<1> QED BY <1>1, <1>2

LEMMA TailType ==
  ASSUME NEW B, NEW t \in Labels(B), NEW l \in Labels(B), NEW i
  PROVE  TailAfter(t, i, l) \in Labels(B)
  BY DEF TailAfter

(* IO_OPEN with O_CREAT, with the facts about its parts. *)
LEMMA CreateStep ==
  ASSUME TreeInv, NEW h \in Handle, NEW path \in Path, Create(h, path)
  PROVE  \E i \in Ino \ inode_bitmap, parent \in inode_bitmap :
           /\ inode_bitmap' = inode_bitmap \cup {i} /\ dentry_bitmap' = dentry_bitmap \cup {i}
           /\ inodes' = [inodes EXCEPT ![i] = BuiltInode]
           /\ handles' = [handles EXCEPT ![h] = [kind |-> "file", id |-> i, pos |-> 0]]
           /\ UNCHANGED <<data_bitmap, data, fault>>
           /\ dentries' \in Tables(inode_bitmap \cup {i}) /\ tail' \in Labels(inode_bitmap \cup {i})
           /\ dentries'[parent].subdirs = Append(dentries[parent].subdirs, i)
           /\ \A d \in Ino \ {parent} : dentries'[d].subdirs = dentries[d].subdirs
<1>1. PICK i : i = FreeInode
  OBVIOUS
<1>2. i \in Ino \ inode_bitmap
  <2>1. Ino \ inode_bitmap \in SUBSET Nat /\ Ino \ inode_bitmap # {}
    BY Sizes DEF Ino, Create
  <2> DEFINE J == Ino \ inode_bitmap
  <2> HIDE DEF J
  <2>2. Min(J) \in J
    BY <2>1, MinMember DEF J
  <2> QED BY <1>1, <2>2 DEF FreeInode, J
<1>3. FreeDentry = i
  BY <1>1 DEF FreeDentry, FreeInode, TreeInv
<1> DEFINE up == Named(inode_bitmap, Up[path])
<1>4. up # {} /\ up \subseteq inode_bitmap
  BY DEF Create, Named
<1>5. PICK m : m = Min(up)
  OBVIOUS
<1>6. m \in inode_bitmap
  <2>1. up \in SUBSET Nat
    BY <1>4, Sizes DEF TreeInv, Ino
  <2> HIDE DEF up
  <2> QED BY <1>4, <1>5, <2>1, MinMember
<1>7. PICK parent : parent = Label(dentries, tail, m).id
  OBVIOUS
<1>8. parent \in inode_bitmap
  <2>1. Label(dentries, tail, m) \in Labels(inode_bitmap)
    BY <1>6, LabelType DEF TreeInv
  <2> QED BY <1>7, <2>1 DEF Labels
<1>9. PICK B : B = inode_bitmap \cup {i}
  OBVIOUS
<1>10. PICK label : label = [name |-> path, id |-> i]
  OBVIOUS
<1>11. label \in Labels(B)
  BY <1>9, <1>10 DEF Labels, Names
<1>12. dentries \in Tables(B) /\ tail \in Labels(B)
  BY <1>9 DEF TreeInv, Tables, Labels
<1>13. PICK D1 : D1 = Stored(dentries, i, <<>>, label)
  OBVIOUS
<1>14. /\ D1 \in Tables(B) /\ D1[i].subdirs = <<>>
       /\ \A d \in Ino \ {i} : D1[d] = dentries[d]
  <2>0. <<>> \in Seq(Ino)
    OBVIOUS
  <2>1. PICK e : e \in Seq(Ino) /\ e = <<>>
    BY <2>0, Zenon
  <2>2. D1 = Stored(dentries, i, e, label)
    BY <1>13, <2>1
  <2>3. D1 \in Tables(B) /\ D1[i].subdirs = e /\ \A d \in Ino \ {i} : D1[d] = dentries[d]
    <3>1. i \in Ino /\ e \in Seq(Ino)
      BY <1>2, <2>1
    <3>2. /\ Stored(dentries, i, e, label) \in Tables(B)
          /\ Stored(dentries, i, e, label)[i].subdirs = e
          /\ \A d \in Ino \ {i} : Stored(dentries, i, e, label)[d] = dentries[d]
      BY <1>11, <1>12, <3>1, StoredTable
    <3> QED BY <2>2, <3>2
  <2> QED BY <2>1, <2>3
<1>15. PICK t1 : t1 = TailAfter(tail, i, label)
  OBVIOUS
<1>16. t1 \in Labels(B)
  BY <1>11, <1>12, <1>15, TailType
<1>17. PICK pl : pl = Label(D1, t1, parent)
  OBVIOUS
<1>18. parent \in Ino /\ parent # i
  BY <1>2, <1>8 DEF TreeInv
<1>19. pl \in Labels(B)
  BY <1>14, <1>16, <1>17, <1>18, LabelType
<1>20. PICK s : s = Append(dentries[parent].subdirs, i)
  OBVIOUS
<1>21. s \in Seq(Ino) /\ D1[parent] = dentries[parent]
  <2>1. dentries[parent].subdirs \in Seq(Ino)
    BY <1>18 DEF TreeInv, Tables
  <2> QED BY <1>2, <1>14, <1>18, <1>20, <2>1
<1>22. /\ dentries' = Stored(D1, parent, s, pl) /\ tail' = TailAfter(t1, parent, pl)
       /\ inode_bitmap' = inode_bitmap \cup {i} /\ dentry_bitmap' = dentry_bitmap \cup {i}
       /\ inodes' = [inodes EXCEPT ![i] = BuiltInode]
       /\ handles' = [handles EXCEPT ![h] = [kind |-> "file", id |-> i, pos |-> 0]]
       /\ UNCHANGED <<data_bitmap, data, fault>>
  BY <1>1, <1>3, <1>5, <1>7, <1>10, <1>13, <1>15, <1>17, <1>20, <1>21 DEF Create
<1>23. /\ dentries' \in Tables(B) /\ dentries'[parent].subdirs = s
       /\ \A d \in Ino \ {parent} : dentries'[d] = D1[d]
  BY <1>14, <1>18, <1>19, <1>21, <1>22, StoredTable
<1>24. tail' \in Labels(B)
  BY <1>16, <1>19, <1>22, TailType
<1>25. \A d \in Ino \ {parent} : dentries'[d].subdirs = dentries[d].subdirs
  <2>1. dentries[i].subdirs = <<>>
    BY <1>2 DEF TreeInv
  <2> QED BY <1>14, <1>23, <2>1
<1> QED BY <1>2, <1>8, <1>9, <1>20, <1>22, <1>23, <1>24, <1>25

LEMMA CreateTree ==
  ASSUME TreeInv, NEW h \in Handle, NEW path \in Path, Create(h, path)
  PROVE  TreeInv'
<1>1. PICK i \in Ino \ inode_bitmap, parent \in inode_bitmap :
           /\ inode_bitmap' = inode_bitmap \cup {i} /\ dentry_bitmap' = dentry_bitmap \cup {i}
           /\ dentries' \in Tables(inode_bitmap \cup {i}) /\ tail' \in Labels(inode_bitmap \cup {i})
           /\ dentries'[parent].subdirs = Append(dentries[parent].subdirs, i)
           /\ \A d \in Ino \ {parent} : dentries'[d].subdirs = dentries[d].subdirs
  BY CreateStep
<1>2. parent \in Ino /\ parent # i /\ i # 0
  BY DEF TreeInv
<1>3. PICK q \in Seq(Ino) : q = dentries[parent].subdirs
  BY <1>2 DEF TreeInv, Tables
<1>4. IsInjective(q) /\ Range(q) \subseteq inode_bitmap \ {0}
  BY <1>2, <1>3 DEF TreeInv
<1>5. PICK r : r = Append(q, i)
  OBVIOUS
<1>6. IsInjective(r) /\ Range(r) = Range(q) \cup {i}
  BY <1>4, <1>5, AppendDistinct
<1>7. dentries'[parent].subdirs = r
  BY <1>1, <1>3, <1>5
<1>8. 0 \in inode_bitmap' /\ inode_bitmap' \subseteq Ino /\ dentry_bitmap' = inode_bitmap'
  BY <1>1 DEF TreeInv
<1>9. dentries' \in Tables(inode_bitmap') /\ tail' \in Labels(inode_bitmap')
  BY <1>1
<1>10. \A d \in Ino \ inode_bitmap' : dentries'[d].subdirs = <<>>
  BY <1>1 DEF TreeInv
<1>11. ASSUME NEW d \in Ino
       PROVE  /\ IsInjective(dentries'[d].subdirs)
              /\ Range(dentries'[d].subdirs) \subseteq inode_bitmap' \ {0}
  <2>1. CASE d = parent
    BY <1>1, <1>2, <1>4, <1>6, <1>7, <2>1
  <2>2. CASE d # parent
    BY <1>1, <2>2 DEF TreeInv
  <2> QED BY <2>1, <2>2
<1>12. \A d \in Ino : i \notin Range(dentries[d].subdirs)
  BY DEF TreeInv
<1>13. \A d \in Ino \ {parent} : Range(r) \cap Range(dentries'[d].subdirs) = {}
  <2> SUFFICES ASSUME NEW d \in Ino, d # parent PROVE Range(r) \cap Range(dentries[d].subdirs) = {}
    BY <1>1
  <2>1. Range(q) \cap Range(dentries[d].subdirs) = {}
    BY <1>2, <1>3 DEF TreeInv
  <2> QED BY <1>6, <1>12, <2>1
<1>14. ASSUME NEW d \in Ino, NEW e \in Ino, d # e
       PROVE  Range(dentries'[d].subdirs) \cap Range(dentries'[e].subdirs) = {}
  <2>1. CASE d = parent
    BY <1>7, <1>13, <1>14, <2>1
  <2>2. CASE e = parent
    BY <1>7, <1>13, <1>14, <2>2
  <2>3. CASE d # parent /\ e # parent
    BY <1>1, <1>14, <2>3 DEF TreeInv
  <2> QED BY <2>1, <2>2, <2>3
<1>15. ASSUME NEW j \in inode_bitmap' \ {0}
       PROVE  \E d \in Ino : j \in Range(dentries'[d].subdirs)
  <2>1. CASE j = i
    BY <1>2, <1>6, <1>7, <2>1
  <2>2. CASE j # i
    <3>1. PICK d \in Ino : j \in Range(dentries[d].subdirs)
      BY <1>1, <2>2 DEF TreeInv
    <3>2. CASE d = parent
      BY <1>3, <1>6, <1>7, <3>1, <3>2
    <3>3. CASE d # parent
      BY <1>1, <3>1, <3>3
    <3> QED BY <3>2, <3>3
  <2> QED BY <2>1, <2>2
<1> QED BY <1>8, <1>9, <1>10, <1>11, <1>14, <1>15 DEF TreeInv

LEMMA CreateBytes ==
  ASSUME BytesInv, TreeInv, NEW h \in Handle, NEW path \in Path, Create(h, path)
  PROVE  BytesInv' /\ UNCHANGED <<inodes, data>>
<1>1. PICK i \in Ino \ inode_bitmap :
           /\ inode_bitmap' = inode_bitmap \cup {i}
           /\ inodes' = [inodes EXCEPT ![i] = BuiltInode]
           /\ handles' = [handles EXCEPT ![h] = [kind |-> "file", id |-> i, pos |-> 0]]
           /\ UNCHANGED <<data_bitmap, data, fault>>
  BY CreateStep
<1>2. inodes[i] = BuiltInode
  <2>1. inodes[i].len = 0
    BY DEF BytesInv, InUse
  <2>2. Len(inodes[i].blocks) = 0
    BY <2>1 DEF BytesInv, Accounted
  <2>3. inodes[i].blocks = <<>>
    BY <2>2 DEF BytesInv, Types
  <2> QED BY <2>1, <2>3 DEF BytesInv, Types, BuiltInode
<1>3. inodes' = inodes
  BY <1>1, <1>2 DEF BytesInv, Types
<1>4. handles' \in [Handle -> [kind : {"none", "file", "dir"}, id : Ino \cup {None}, pos : Nat]]
  BY <1>1 DEF BytesInv, Types
<1>5. Types'
  BY <1>1, <1>3, <1>4 DEF BytesInv, Types
<1>6. InUse'
  <2>1. ASSUME NEW g \in Handle, handles'[g].kind = "file" PROVE handles'[g].id \in inode_bitmap'
    <3>1. CASE g = h
      BY <1>1, <3>1 DEF BytesInv, Types
    <3>2. CASE g # h
      BY <1>1, <2>1, <3>2 DEF BytesInv, Types, InUse
    <3> QED BY <3>1, <3>2
  <2> QED BY <1>1, <1>3, <2>1 DEF BytesInv, InUse
<1>7. Accounted' /\ Owned' /\ Unwritten'
  BY <1>1, <1>3 DEF BytesInv, Accounted, Owned, Unwritten
<1> QED BY <1>1, <1>3, <1>5, <1>6, <1>7 DEF BytesInv

-----------------------------------------------------------------------------
(* All requests                                                            *)

\* The requests that move handles only.
States == [kind : {"none", "file", "dir"}, id : Ino \cup {None}, pos : Nat]
MovesTo(h, v) ==
  /\ v \in States /\ (v.kind = "file" => v.id \in inode_bitmap)
  /\ handles' = [handles EXCEPT ![h] = v]
  /\ UNCHANGED disk

LEMMA MoveKeeps ==
  ASSUME BytesInv, TreeInv, NEW h \in Handle, NEW v, MovesTo(h, v)
  PROVE  BytesInv' /\ TreeInv'
<1>0. /\ v \in States /\ (v.kind = "file" => v.id \in inode_bitmap)
      /\ handles' = [handles EXCEPT ![h] = v] /\ UNCHANGED disk
  BY DEF MovesTo
<1>1. handles' \in [Handle -> States]
  BY <1>0 DEF BytesInv, Types, States
<1>2. Types'
  BY <1>0, <1>1 DEF BytesInv, Types, disk, States
<1>3. InUse'
  <2>1. ASSUME NEW g \in Handle, handles'[g].kind = "file" PROVE handles'[g].id \in inode_bitmap
    <3>1. CASE g = h
      BY <1>0, <2>1, <3>1 DEF BytesInv, Types
    <3>2. CASE g # h
      BY <1>0, <2>1, <3>2 DEF BytesInv, Types, InUse
    <3> QED BY <3>1, <3>2
  <2> QED BY <1>0, <2>1 DEF BytesInv, InUse, disk
<1>4. Accounted' /\ Owned' /\ Unwritten'
  BY <1>0 DEF BytesInv, Accounted, Owned, Unwritten, disk
<1>5. TreeInv'
  BY <1>0 DEF TreeInv, disk
<1> QED BY <1>2, <1>3, <1>4, <1>5 DEF BytesInv

(* The first number the scan of sata_open finds is in use. *)
LEMMA NamedMin ==
  ASSUME NEW B \in SUBSET Ino, NEW path, Named(B, path) # {}
  PROVE  Min(Named(B, path)) \in B
<1> DEFINE J == Named(B, path)
<1>1. J \in SUBSET Nat /\ J \subseteq B
  <2>1. J \subseteq B
    BY DEF Named
  <2>2. Ino \subseteq Nat
    BY Sizes DEF Ino
  <2> HIDE DEF J
  <2> QED BY <2>1, <2>2
<1> HIDE DEF J
<1>2. Min(J) \in J
  BY <1>1, MinMember DEF J
<1> QED BY <1>1, <1>2 DEF J

Moving(h) ==
  \/ \E path \in Path : OpenFound(h, path) \/ OpenDir(h, path)
  \/ ReadDir(h) \/ Close(h)
  \/ \E n \in 1 .. MaxPos : Read(h, n)
  \/ \E to \in 0 .. MaxPos : LSeek(h, to)
  \/ LSeekEnd(h)

LEMMA Moves ==
  ASSUME BytesInv, TreeInv, NEW h \in Handle, Moving(h)
  PROVE  \E v : MovesTo(h, v)
<1>0. /\ handles \in [Handle -> States] /\ handles[h] \in States /\ inode_bitmap \subseteq Ino
      /\ handles[h].kind = "file" => handles[h].id \in inode_bitmap
  BY DEF BytesInv, Types, InUse, States
<1>1. ASSUME NEW path \in Path, OpenFound(h, path) PROVE \E v : MovesTo(h, v)
  <2>1. PICK i \in inode_bitmap : i = Min(Named(inode_bitmap, path))
    BY <1>0, <1>1, NamedMin DEF OpenFound
  <2> DEFINE v == [kind |-> "file", id |-> i, pos |-> 0]
  <2>2. MovesTo(h, v)
    BY <1>0, <1>1, <2>1 DEF OpenFound, MovesTo, States
  <2> QED BY <2>2
<1>2. ASSUME NEW path \in Path, OpenDir(h, path) PROVE \E v : MovesTo(h, v)
  <2>1. dentry_bitmap \subseteq Ino
    BY DEF TreeInv
  <2>2. PICK i \in dentry_bitmap : i = Min(Named(dentry_bitmap, path))
    BY <1>2, <2>1, NamedMin DEF OpenDir
  <2> DEFINE v == [kind |-> "dir", id |-> i, pos |-> 0]
  <2>3. MovesTo(h, v)
    BY <1>2, <2>1, <2>2 DEF OpenDir, MovesTo, States
  <2> QED BY <2>3
<1>3. CASE Close(h)
  <2>1. MovesTo(h, Closed)
    BY <1>3 DEF Close, MovesTo, States, Closed
  <2> QED BY <2>1
<1>4. ASSUME NEW p \in Nat, handles' = [handles EXCEPT ![h].pos = p], UNCHANGED disk
      PROVE  \E v : MovesTo(h, v)
  <2> DEFINE v == [handles[h] EXCEPT !.pos = p]
  <2>1. v \in States /\ v.kind = handles[h].kind /\ v.id = handles[h].id
    BY <1>0 DEF States
  <2>2. handles' = [handles EXCEPT ![h] = v]
    BY <1>4
  <2> HIDE DEF v
  <2>3. MovesTo(h, v)
    BY <1>0, <1>4, <2>1, <2>2 DEF MovesTo
  <2> QED BY <2>3
<1>5. PICK pos \in Nat : pos = handles[h].pos
  BY <1>0 DEF States
<1>6. CASE ReadDir(h)
  <2>1. handles' = [handles EXCEPT ![h].pos = pos + 1] /\ UNCHANGED disk
    BY <1>5, <1>6 DEF ReadDir
  <2>2. pos + 1 \in Nat
    OBVIOUS
  <2> QED BY <1>4, <2>1, <2>2
<1>7. ASSUME NEW to \in 0 .. MaxPos, LSeek(h, to) PROVE \E v : MovesTo(h, v)
  <2>1. to \in Nat /\ handles' = [handles EXCEPT ![h].pos = to] /\ UNCHANGED disk
    BY <1>7, Sizes DEF LSeek
  <2> QED BY <1>4, <2>1
<1>8. ASSUME UNCHANGED <<disk, handles>> PROVE \E v : MovesTo(h, v)
  <2>1. handles' = [handles EXCEPT ![h] = handles[h]]
    BY <1>0, <1>8
  <2>2. MovesTo(h, handles[h])
    BY <1>0, <1>8, <2>1 DEF MovesTo
  <2> QED BY <2>2
<1>9. CASE LSeekEnd(h)
  BY <1>8, <1>9 DEF LSeekEnd
<1>10. ASSUME NEW count \in 1 .. MaxPos, Read(h, count) PROVE \E v : MovesTo(h, v)
  <2>1. PICK n : n = ReadCount(handles[h].id, handles[h].pos, count)
    OBVIOUS
  <2>2. UNCHANGED disk
    BY <1>10 DEF Read
  <2>3. CASE n < 0 /\ pos \div BlockSize = (pos + n) \div BlockSize
    <3>1. UNCHANGED handles
      BY <1>5, <1>10, <2>1, <2>3 DEF Read
    <3> QED BY <1>8, <2>2, <3>1
  <2>4. CASE ~(n < 0 /\ pos \div BlockSize = (pos + n) \div BlockSize)
    <3>1. handles[h].kind = "file"
      BY <1>10 DEF Read
    <3>2. PICK len \in Nat : len = inodes[handles[h].id].len
      BY <1>0, <3>1 DEF BytesInv, Types
    <3>3. count \in Nat
      BY Sizes
    <3>4. n \in Nat \/ n = len - pos
      BY <1>5, <2>1, <3>2, <3>3 DEF ReadCount
    <3>5. pos + n \in Nat
      BY <3>2, <3>4
    <3>6. handles' = [handles EXCEPT ![h].pos = pos + n]
      BY <1>5, <1>10, <2>1, <2>4 DEF Read
    <3> QED BY <1>4, <2>2, <3>5, <3>6
  <2> QED BY <2>3, <2>4
<1> QED BY <1>1, <1>2, <1>3, <1>6, <1>7, <1>9, <1>10 DEF Moving

(* Every step is one of three kinds. *)
LEMMA Steps ==
  ASSUME BytesInv, TreeInv, Next
  PROVE  \E h \in Handle :
           \/ \E path \in Path : Create(h, path)
           \/ \E buf \in Buffers : Write(h, buf)
           \/ \E v : MovesTo(h, v)
<1>1. PICK h \in Handle :
        \/ \E path \in Path : Create(h, path)
        \/ \E buf \in Buffers : Write(h, buf)
        \/ Moving(h)
  BY Zenon DEF Next, Moving
<1>2. Moving(h) => \E v : MovesTo(h, v)
  BY Moves
<1> QED BY <1>1, <1>2

LEMMA InitInv ==
  ASSUME Init
  PROVE  BytesInv /\ TreeInv
<1>1. 0 \in Ino
  BY Sizes DEF Ino
<1>2. inodes = [i \in Ino |-> [len |-> 0, blocks |-> <<>>]] /\ <<>> \in Seq(Block)
  BY DEF Init, BuiltInode
<1>3. data \in [Block -> [Offset -> Hole]]
  BY DEF Init, Offset, Hole
<1>4. data \in [Block -> [Offset -> Byte]]
  BY <1>3 DEF Byte
<1>5. handles \in [Handle -> States] /\ \A h \in Handle : handles[h].kind = "none"
  BY DEF Init, Closed, States
<1>6. Types
  <2>1. inodes \in [Ino -> [len : Nat, blocks : Seq(Block)]]
    BY <1>2
  <2>2. inode_bitmap = {0} /\ data_bitmap = {}
    BY DEF Init
  <2> QED BY <1>1, <1>4, <1>5, <2>1, <2>2 DEF Types, States
<1>7. InUse /\ Accounted
  BY <1>2, <1>5 DEF InUse, Accounted
<1>8. Owned
  BY <1>2 DEF Owned, IsInjective, Range
<1>9. Unwritten
  BY <1>2, <1>3 DEF Unwritten
<1>10. TreeInv
  <2>1. inode_bitmap = {0} /\ dentry_bitmap = {0} /\ tail = [name |-> None, id |-> 0]
    BY DEF Init, NoLabel
  <2>2. dentries = [i \in Ino |-> [name |-> IF i = 0 THEN Root ELSE None, id |-> 0, subdirs |-> <<>>]]
    BY DEF Init
  <2>3. dentries \in Tables({0})
    <3>1. Root \in Names /\ None \in Names /\ <<>> \in Seq(Ino)
      BY SataFsAssumption DEF Names
    <3> QED BY <2>2, <3>1 DEF Tables
  <2>4. tail \in Labels({0})
    BY <2>1 DEF Labels, Names
  <2>5. \A d \in Ino : dentries[d].subdirs = <<>>
    BY <2>2
  <2>6. IsInjective(<<>>) /\ Range(<<>>) = {}
    BY DEF IsInjective, Range
  <2> QED BY <1>1, <2>1, <2>3, <2>4, <2>5, <2>6 DEF TreeInv
<1> QED BY <1>6, <1>7, <1>8, <1>9, <1>10 DEF BytesInv

LEMMA NextInv ==
  ASSUME BytesInv, TreeInv, [Next]_vars
  PROVE  BytesInv' /\ TreeInv'
<1>1. ASSUME NEW h \in Handle, NEW path \in Path, Create(h, path) PROVE BytesInv' /\ TreeInv'
  BY <1>1, CreateBytes, CreateTree
<1>2. ASSUME NEW h \in Handle, NEW buf \in Buffers, Write(h, buf) PROVE BytesInv' /\ TreeInv'
  <2>1. UNCHANGED <<inode_bitmap, dentry_bitmap, dentries, tail, fault>>
    BY <1>2, WriteStep
  <2>2. TreeInv'
    BY <2>1 DEF TreeInv
  <2>3. PICK id \in inode_bitmap, pos \in Nat : \E new, all, l :
              /\ data_bitmap' = data_bitmap \cup Range(new)
              /\ Grown(id, new, all, Needed(pos, Len(buf)))
              /\ \/ UNCHANGED <<inodes, data, handles>>
                 \/ Appends(h, buf, id, pos, new, all, l)
    BY <1>2, WriteStep
  <2>4. PICK new, all, l :
              /\ data_bitmap' = data_bitmap \cup Range(new)
              /\ Grown(id, new, all, Needed(pos, Len(buf)))
              /\ \/ UNCHANGED <<inodes, data, handles>>
                 \/ Appends(h, buf, id, pos, new, all, l)
    BY <2>3
  <2>5. id \in Ino /\ buf \in Seq(Byte)
    BY BufferBytes DEF TreeInv
  <2>6. CASE UNCHANGED <<inodes, data, handles>>
    BY <2>1, <2>2, <2>4, <2>5, <2>6, FullBytes
  <2>7. CASE Appends(h, buf, id, pos, new, all, l)
    BY <2>1, <2>2, <2>4, <2>5, <2>7, WriteBytes
  <2> QED BY <2>4, <2>6, <2>7
<1>3. CASE UNCHANGED vars
  <2>1. BytesInv'
    BY <1>3 DEF BytesInv, Types, InUse, Accounted, Owned, Unwritten, vars, disk
  <2>2. TreeInv'
    BY <1>3 DEF TreeInv, vars, disk
  <2> QED BY <2>1, <2>2
<1> QED BY <1>1, <1>2, <1>3, Steps, MoveKeeps

-----------------------------------------------------------------------------
(* What the invariant says                                                 *)

LEMMA Invariant == Spec => [](BytesInv /\ TreeInv)
<1>1. Init => BytesInv /\ TreeInv
  BY InitInv
<1>2. BytesInv /\ TreeInv /\ [Next]_vars => (BytesInv /\ TreeInv)'
  BY NextInv
<1> QED BY <1>1, <1>2, PTL DEF Spec

(* Blocks have one owner each, are marked, and are as many as the length of *)
(* the file asks for, after any sequence of requests of any clients: growth *)
(* over holes, overwriting, and writes that fail because the disk is full   *)
(* (write_sata_wrapper, fs.c:375-431).                                      *)
THEOREM BlocksAreOwned == Spec => []BlocksOwned
<1>1. BytesInv => BlocksOwned
  <2> SUFFICES ASSUME BytesInv PROVE BlocksOwned
    OBVIOUS
  <2>1. ASSUME NEW i \in Ino, inodes[i].len > 0
        PROVE  Len(inodes[i].blocks) = (inodes[i].len \div BlockSize) + 1
    <3>1. PICK l \in Nat : l = inodes[i].len
      BY DEF BytesInv, Types
    <3>2. l # 0
      BY <2>1, <3>1
    <3> QED BY <3>1, <3>2 DEF BytesInv, Accounted
  <2> QED BY <2>1 DEF BytesInv, Owned, BlocksOwned
<1> QED BY <1>1, Invariant, PTL

(* The places that list a file are one. *)
LEMMA ListedOne ==
  ASSUME TreeInv, NEW i \in inode_bitmap \ {0}
  PROVE  \E d \in Ino, k \in 1 .. MaxFiles :
           {e \in Ino \X (1 .. MaxFiles) : /\ e[2] <= Len(dentries[e[1]].subdirs)
                                           /\ dentries[e[1]].subdirs[e[2]] = i} = {<<d, k>>}
<1>1. PICK d \in Ino : i \in Range(dentries[d].subdirs)
  BY DEF TreeInv
<1>2. PICK q \in Seq(Ino) : q = dentries[d].subdirs
  BY DEF TreeInv, Tables
<1>3. IsInjective(q) /\ DOMAIN q = 1 .. Len(q) /\ Len(q) \in Nat
  BY <1>2 DEF TreeInv
<1>4. PICK k \in 1 .. Len(q) : q[k] = i
  BY <1>1, <1>2, <1>3 DEF Range
<1>5. Len(q) <= MaxFiles
  <2>1. Range(q) \subseteq Ino
    BY DEF Range
  <2>2. IsFiniteSet(Ino) /\ Cardinality(Ino) = MaxFiles
    <3>1. 0 \in Int /\ MaxFiles - 1 \in Int /\ 0 <= MaxFiles - 1 /\ MaxFiles - 1 - 0 + 1 = MaxFiles
      BY Sizes
    <3>2. /\ IsFiniteSet(0 .. MaxFiles - 1)
          /\ Cardinality(0 .. MaxFiles - 1) = IF 0 > MaxFiles - 1 THEN 0 ELSE MaxFiles - 1 - 0 + 1
      BY <3>1, FS_Interval
    <3> QED BY <3>1, <3>2 DEF Ino
  <2>3. Cardinality(Range(q)) <= MaxFiles
    BY <2>1, <2>2, FS_Subset
  <2>4. Cardinality(Range(q)) = Len(q)
    BY <1>3, DistinctLength
  <2> QED BY <2>3, <2>4
<1>6. k \in 1 .. MaxFiles
  BY <1>3, <1>5, Sizes
<1>7. ASSUME NEW e \in Ino \X (1 .. MaxFiles), e[2] <= Len(dentries[e[1]].subdirs),
             dentries[e[1]].subdirs[e[2]] = i
      PROVE  e = <<d, k>>
  <2>1. PICK a \in Ino, b \in 1 .. MaxFiles : e = <<a, b>>
    OBVIOUS
  <2>2. PICK s \in Seq(Ino) : s = dentries[a].subdirs
    BY DEF TreeInv, Tables
  <2>3. b <= Len(s) /\ s[b] = i
    BY <1>7, <2>1, <2>2
  <2>4. b \in DOMAIN s
    BY <2>3, Sizes
  <2>5. i \in Range(s)
    BY <2>3, <2>4 DEF Range
  <2>6. a = d
    BY <1>1, <2>2, <2>5 DEF TreeInv
  <2>7. s = q
    BY <1>2, <2>2, <2>6
  <2>8. b = k
    BY <1>3, <1>4, <2>3, <2>4, <2>7 DEF IsInjective
  <2> QED BY <2>1, <2>6, <2>8
<1>8. k <= Len(dentries[d].subdirs) /\ dentries[d].subdirs[k] = i
  BY <1>2, <1>3, <1>4
<1>9. {e \in Ino \X (1 .. MaxFiles) : /\ e[2] <= Len(dentries[e[1]].subdirs)
                                      /\ dentries[e[1]].subdirs[e[2]] = i} = {<<d, k>>}
  BY <1>6, <1>7, <1>8
<1> QED BY <1>6, <1>9

(* The two bitmaps never come apart and every file is in one directory, once: *)
(* the directory is found through labels that may be another dentry's, but    *)
(* the number such a label holds is always one in use (sata_open,             *)
(* fs.c:293-328).                                                             *)
THEOREM DirectoriesAreSound == Spec => []Directories
<1>1. TreeInv => Directories
  <2> SUFFICES ASSUME TreeInv PROVE Directories
    OBVIOUS
  <2>1. BitmapsAgree
    BY DEF BitmapsAgree, TreeInv
  <2>2. ASSUME NEW i \in inode_bitmap \ {0}
        PROVE  Cardinality({e \in Ino \X (1 .. MaxFiles) :
                              /\ e[2] <= Len(dentries[e[1]].subdirs)
                              /\ dentries[e[1]].subdirs[e[2]] = i}) = 1
    <3>1. PICK d \in Ino, k \in 1 .. MaxFiles :
            {e \in Ino \X (1 .. MaxFiles) : /\ e[2] <= Len(dentries[e[1]].subdirs)
                                            /\ dentries[e[1]].subdirs[e[2]] = i} = {<<d, k>>}
      BY ListedOne
    <3>2. Cardinality({<<d, k>>}) = 1
      BY FS_Singleton
    <3> QED BY <3>1, <3>2
  <2> QED BY <2>1, <2>2 DEF Directories, ListedOnce
<1> QED BY <1>1, Invariant, PTL

-----------------------------------------------------------------------------
(* The bytes of a file                                                     *)

(* The block of a position before the end of the file. *)
LEMMA BlockOf ==
  ASSUME BytesInv, NEW i \in Ino, NEW x \in Nat, x < inodes[i].len
  PROVE  (x \div BlockSize) + 1 \in 1 .. Len(inodes[i].blocks) /\ x % BlockSize \in Offset
<1>1. PICK l \in Nat : l = inodes[i].len
  BY DEF BytesInv, Types
<1>2. PICK q \in Nat, m \in Nat : q = x \div BlockSize /\ m = l \div BlockSize
  BY Split
<1>3. x < l /\ l # 0
  BY <1>1
<1>4. q <= m
  BY <1>2, <1>3, DivOrder
<1>5. Len(inodes[i].blocks) = m + 1
  BY <1>1, <1>2, <1>3 DEF BytesInv, Accounted
<1>6. q + 1 \in 1 .. m + 1
  BY <1>4
<1> QED BY <1>2, <1>5, <1>6, PlaceAt

\* The byte of a file at a position.
ByteAt(i, x) == data[inodes[i].blocks[(x \div BlockSize) + 1]][x % BlockSize]

LEMMA ByteType ==
  ASSUME BytesInv, NEW i \in Ino, NEW x \in Nat, x < inodes[i].len
  PROVE  ByteAt(i, x) \in Byte
<1>1. PICK k \in 1 .. Len(inodes[i].blocks) : k = (x \div BlockSize) + 1
  BY BlockOf
<1>2. PICK o \in Offset : o = x % BlockSize
  BY BlockOf
<1>3. inodes[i].blocks[k] \in Block
  BY DEF BytesInv, Types
<1>4. data[inodes[i].blocks[k]][o] \in Byte
  BY <1>3 DEF BytesInv, Types
<1> QED BY <1>1, <1>2, <1>4 DEF ByteAt

LEMMA ContentsBytes ==
  ASSUME BytesInv, NEW i \in Ino
  PROVE  /\ Contents(i) \in Seq(Byte) /\ Len(Contents(i)) = inodes[i].len
         /\ \A p \in 1 .. inodes[i].len : Contents(i)[p] = ByteAt(i, p - 1)
<1>1. PICK l \in Nat : l = inodes[i].len
  BY DEF BytesInv, Types
<1>2. PICK c : c = Contents(i)
  OBVIOUS
<1>3. c = [p \in 1 .. l |-> ByteAt(i, p - 1)]
  BY <1>1, <1>2 DEF Contents, ByteAt
<1>4. ASSUME NEW p \in 1 .. l PROVE ByteAt(i, p - 1) \in Byte
  <2>1. PICK x \in Nat : x = p - 1
    OBVIOUS
  <2>2. x < l
    BY <2>1
  <2> QED BY <1>1, <2>1, <2>2, ByteType
<1>5. c \in Seq(Byte) /\ Len(c) = l
  BY <1>3, <1>4
<1>6. \A p \in 1 .. l : c[p] = ByteAt(i, p - 1)
  BY <1>3
<1> QED BY <1>1, <1>2, <1>5, <1>6

LEMMA MinTwo ==
  ASSUME NEW a \in Nat, NEW b \in Nat
  PROVE  Min({a, b}) = IF a <= b THEN a ELSE b
<1>1. PICK I \in SUBSET Nat : I = {a, b}
  OBVIOUS
<1>2. PICK m : m = Min(I)
  OBVIOUS
<1>3. m \in I /\ \A i \in I : m <= i
  BY <1>1, <1>2, MinMember
<1>4. m = a \/ m = b
  BY <1>1, <1>3
<1>5. m <= a /\ m <= b
  BY <1>1, <1>3
<1>6. m = IF a <= b THEN a ELSE b
  BY <1>4, <1>5
<1> QED BY <1>1, <1>2, <1>6

(* read_sata_wrapper, one transfer. *)
ReadGives(i, pos, count, n) ==
  ReadBuf(i, pos, count) = [k \in 1 .. n |-> ByteAt(i, pos + k - 1)]

LEMMA ReadBytes ==
  ASSUME BytesInv, NEW i \in Ino, NEW pos \in Nat, NEW n \in Nat, pos + n <= inodes[i].len,
         NEW count, ReadCount(i, pos, count) = n
  PROVE  ReadGives(i, pos, count, n)
<1> DEFINE at(k) == CHOOSE p \in Pieces(pos, n) : p.from < k /\ k <= p.from + p.n
           byte(k) == data[inodes[i].blocks[at(k).index + 1]][at(k).off + k - at(k).from - 1]
<1>1. ReadBuf(i, pos, count) = [k \in 1 .. n |-> byte(k)]
  BY DEF ReadBuf
<1>2. ASSUME NEW k \in 1 .. n PROVE byte(k) = ByteAt(i, pos + k - 1)
  <2>1. PICK j \in Nat : j = k - 1
    OBVIOUS
  <2>2. j < n
    BY <2>1
  <2>3. PICK p \in Pieces(pos, n) : p.from <= j /\ j < p.from + p.n
    BY <2>2, PieceFor
  <2>4. ASSUME NEW q \in Pieces(pos, n)
        PROVE  (q.from < k /\ k <= q.from + q.n) <=> (q.from <= j /\ j < q.from + q.n)
    <3>1. Fits(q, pos, n)
      BY PiecesFit
    <3>2. PICK from \in Nat, m \in Nat : from = q.from /\ m = q.n
      BY <3>1 DEF Fits
    <3>3. (from < k /\ k <= from + m) <=> (from <= j /\ j < from + m)
      BY <2>1
    <3> QED BY <3>2, <3>3
  <2>5. PICK a : a = at(k)
    OBVIOUS
  <2>6. a \in Pieces(pos, n) /\ a.from < k /\ k <= a.from + a.n
    BY <2>3, <2>4, <2>5
  <2>7. a.from <= j /\ j < a.from + a.n
    BY <2>4, <2>6
  <2>8. Fits(a, pos, n)
    BY <2>6, PiecesFit
  <2>9. /\ j < n
        /\ (pos + j) \div BlockSize = a.index
        /\ (pos + j) % BlockSize = a.off + j - a.from
    <3> HIDE DEF at, byte
    <3> QED BY <2>7, <2>8, PiecePlace
  <2>10. a.off + k - a.from - 1 = a.off + j - a.from /\ pos + k - 1 = pos + j
    <3>1. PICK off \in Nat, from \in Nat : off = a.off /\ from = a.from
      BY <2>8 DEF Fits
    <3>2. off + k - from - 1 = off + j - from /\ pos + k - 1 = pos + j
      BY <2>1
    <3> QED BY <3>1, <3>2
  <2>11. byte(k) = data[inodes[i].blocks[a.index + 1]][a.off + k - a.from - 1]
    BY <2>5
  <2> QED BY <2>9, <2>10, <2>11 DEF ByteAt
<1> HIDE DEF byte
<1> QED BY <1>1, <1>2 DEF ReadGives

(* A read returns the bytes of the file from the position on, as many as were *)
(* asked for or as there are, through any division into blocks               *)
(* (read_sata_wrapper, fs.c:336-372).                                         *)
THEOREM ReadsAreExact == Spec => []ReadExact
<1>1. BytesInv => ReadExact
  <2> SUFFICES ASSUME BytesInv, NEW i \in inode_bitmap,
                      NEW pos \in 0 .. inodes[i].len, NEW count \in 1 .. MaxPos
               PROVE  ReadBuf(i, pos, count)
                        = SubSeq(Contents(i), pos + 1, Min({pos + count, inodes[i].len}))
    BY DEF ReadExact
  <2>0. i \in Ino
    BY DEF BytesInv, Types
  <2>1. PICK l \in Nat : l = inodes[i].len
    BY <2>0 DEF BytesInv, Types
  <2>2. pos \in Nat /\ pos <= l /\ count \in Nat /\ count >= 1
    BY <2>1, Sizes
  <2>3. PICK end \in Nat : end = IF pos + count <= l THEN pos + count ELSE l
    BY <2>2
  <2>4. PICK n \in Nat : n = end - pos
    BY <2>2, <2>3
  <2>5. pos + n = end /\ end <= l
    BY <2>2, <2>3, <2>4
  <2>6. ReadCount(i, pos, count) = n
    BY <2>1, <2>2, <2>3, <2>4 DEF ReadCount
  <2>7. ReadBuf(i, pos, count) = [k \in 1 .. n |-> ByteAt(i, pos + k - 1)]
    <3>1. pos + n <= inodes[i].len
      BY <2>1, <2>5
    <3>2. ReadGives(i, pos, count, n)
      BY <2>0, <2>2, <2>6, <3>1, ReadBytes
    <3> QED BY <3>2 DEF ReadGives
  <2>8. Min({pos + count, inodes[i].len}) = end
    <3>1. PICK e \in Nat : e = pos + count
      BY <2>2
    <3>2. Min({e, l}) = IF e <= l THEN e ELSE l
      BY MinTwo
    <3> QED BY <2>1, <2>3, <3>1, <3>2
  <2>9. PICK c \in Seq(Byte) : c = Contents(i)
    BY <2>0, ContentsBytes
  <2>10. Len(c) = l /\ \A p \in 1 .. l : c[p] = ByteAt(i, p - 1)
    BY <2>0, <2>1, <2>9, ContentsBytes
  <2>11. SubSeq(c, pos + 1, end) = [k \in 1 .. n |-> ByteAt(i, pos + k - 1)]
    <3>1. SubSeq(c, pos + 1, end) = [k \in 1 .. n |-> c[pos + k]]
      <4>1. 1 + end - (pos + 1) = n
        BY <2>4, <2>2
      <4>2. SubSeq(c, pos + 1, end) = [k \in 1 .. (1 + end - (pos + 1)) |-> c[k + (pos + 1) - 1]]
        BY DEF SubSeq
      <4>3. \A k \in 1 .. n : k + (pos + 1) - 1 = pos + k
        BY <2>2
      <4> QED BY <4>1, <4>2, <4>3
    <3>2. \A k \in 1 .. n : c[pos + k] = ByteAt(i, pos + k - 1)
      <4> SUFFICES ASSUME NEW k \in 1 .. n PROVE c[pos + k] = ByteAt(i, pos + k - 1)
        OBVIOUS
      <4>1. pos + k \in 1 .. l
        BY <2>2, <2>5
      <4> QED BY <2>10, <4>1
    <3> QED BY <3>1, <3>2
  <2> QED BY <2>7, <2>8, <2>9, <2>11
<1> QED BY <1>1, Invariant, PTL

-----------------------------------------------------------------------------
(* The disk implements files                                               *)

\* What an observer sees: F's variables.
ContentsNow == [i \in Ino |-> Contents(i)]
OpenNow == [h \in Handle |-> IF handles[h].kind = "file" THEN handles[h].id ELSE None]
PosNow == [h \in Handle |-> handles[h].pos]

\* ContentsBytes for all files.
ContentsGood ==
  \A i \in Ino : /\ Contents(i) \in Seq(Byte) /\ Len(Contents(i)) = inodes[i].len
                 /\ \A p \in 1 .. inodes[i].len : Contents(i)[p] = ByteAt(i, p - 1)

LEMMA ContentsAre == BytesInv => ContentsGood
  BY ContentsBytes DEF ContentsGood

LEMMA ContentsAreNext == BytesInv' => ContentsGood'
  BY ContentsAre, PTL

LEMMA InitFiles ==
  ASSUME Init
  PROVE  F!FInit
<1>1. \A i \in Ino : Contents(i) = <<>>
  <2> SUFFICES ASSUME NEW i \in Ino PROVE Contents(i) = <<>>
    OBVIOUS
  <2>1. BytesInv
    BY InitInv
  <2>2. inodes[i].len = 0
    BY DEF Init, BuiltInode
  <2>3. PICK c \in Seq(Byte) : c = Contents(i)
    BY <2>1, ContentsBytes
  <2>4. Len(c) = 0
    BY <2>1, <2>2, <2>3, ContentsBytes
  <2> QED BY <2>3, <2>4
<1>2. ContentsNow = [i \in Ino |-> <<>>]
  BY <1>1 DEF ContentsNow
<1>3. handles = [h \in Handle |-> [kind |-> "none", id |-> None, pos |-> 0]]
  BY DEF Init, Closed
<1>4. OpenNow = [h \in Handle |-> None] /\ PosNow = [h \in Handle |-> 0]
  BY <1>3 DEF OpenNow, PosNow
<1> QED BY <1>2, <1>4 DEF F!FInit, ContentsNow, OpenNow, PosNow

(* Requests that leave the bytes alone. *)
LEMMA MoveFiles ==
  ASSUME BytesInv, UNCHANGED <<inodes, data>>, NEW h \in Handle, NEW v \in States,
         v.kind = "file" => v.id \in Ino, handles' = [handles EXCEPT ![h] = v]
  PROVE  F!Move
<1>1. ContentsNow' = ContentsNow
  BY DEF ContentsNow, Contents
<1>2. PICK f : f = IF v.kind = "file" THEN v.id ELSE None
  OBVIOUS
<1>3. f \in Ino \cup {None}
  BY <1>2
<1>4. OpenNow' = [OpenNow EXCEPT ![h] = f]
  BY <1>2 DEF BytesInv, Types, OpenNow
<1>5. \A g \in Handle \ {h} : PosNow'[g] = PosNow[g]
  BY DEF BytesInv, Types, PosNow
<1> QED BY <1>1, <1>3, <1>4, <1>5 DEF F!Move, ContentsNow, OpenNow, PosNow

(* A write of another file changes no byte. *)
LEMMA WriteOthers ==
  ASSUME BytesInv, NEW h, NEW buf, NEW id \in Ino, NEW pos, NEW new, NEW all, NEW need, NEW l,
         Grown(id, new, all, need), Appends(h, buf, id, pos, new, all, l), NEW j \in Ino, j # id
  PROVE  Contents(j)' = Contents(j)
<1>1. inodes'[j] = inodes[j]
  BY DEF BytesInv, Types, Appends
<1>2. PICK len \in Nat : len = inodes[j].len
  BY DEF BytesInv, Types
<1>3. PICK q \in Seq(Block) : q = inodes[j].blocks
  BY DEF BytesInv, Types
<1>4. ASSUME NEW k \in 1 .. Len(q) PROVE data'[q[k]] = data[q[k]]
  <2>1. q[k] \in Block /\ q[k] \in Range(q)
    BY DEF Range
  <2>2. q[k] \notin Range(all)
    <3>1. Range(q) \subseteq data_bitmap /\ Range(q) \cap Range(inodes[id].blocks) = {}
      BY <1>3 DEF BytesInv, Owned
    <3>2. Range(all) = Range(inodes[id].blocks) \cup Range(new) /\ Range(new) \cap data_bitmap = {}
      BY DEF Grown, Free
    <3> QED BY <2>1, <3>1, <3>2
  <2> QED BY <2>1, <2>2 DEF Appends, Placed
<1>5. ASSUME NEW p \in 1 .. len
      PROVE  data'[q[((p - 1) \div BlockSize) + 1]] = data[q[((p - 1) \div BlockSize) + 1]]
  <2>1. PICK x \in Nat : x = p - 1
    OBVIOUS
  <2>2. x < len
    BY <2>1
  <2>3. (x \div BlockSize) + 1 \in 1 .. Len(q)
    BY <1>2, <1>3, <2>2, BlockOf
  <2> QED BY <1>4, <2>1, <2>3
<1>6. Contents(j) = [p \in 1 .. len |-> data[q[((p - 1) \div BlockSize) + 1]][(p - 1) % BlockSize]]
  BY <1>2, <1>3 DEF Contents
<1>7. Contents(j)' = [p \in 1 .. len |-> data'[q[((p - 1) \div BlockSize) + 1]][(p - 1) % BlockSize]]
  BY <1>1, <1>2, <1>3 DEF Contents
<1> QED BY <1>5, <1>6, <1>7

\* A byte of the written file: new, old, or never written.
Carried(id, x, pos, buf, len) ==
  /\ x >= pos /\ x < pos + Len(buf) => ByteAt(id, x)' = buf[x - pos + 1]
  /\ ~(x >= pos /\ x < pos + Len(buf)) /\ x < len => ByteAt(id, x)' = ByteAt(id, x)
  /\ ~(x >= pos /\ x < pos + Len(buf)) /\ x >= len => ByteAt(id, x)' \in Hole

LEMMA WriteByte ==
  ASSUME BytesInv, NEW h, NEW buf \in Seq(Byte), NEW id \in Ino, NEW pos \in Nat,
         NEW new, NEW all, NEW need, NEW l \in Nat, NEW len \in Nat, len = inodes[id].len,
         Grown(id, new, all, need), Appends(h, buf, id, pos, new, all, l),
         NEW x \in Nat, x < l
  PROVE  Carried(id, x, pos, buf, len)
<1>1. PICK k \in Nat : k = (x \div BlockSize) + 1
  BY PlaceAt
<1>2. PICK o \in Offset : o = x % BlockSize
  BY PlaceAt
<1>3. At(k, o) = x /\ k >= 1
  BY <1>1, <1>2, PlaceAt
<1>4. k \in 1 .. Len(all)
  <2>1. PICK q \in Nat, m \in Nat : q = x \div BlockSize /\ m = l \div BlockSize
    BY Split
  <2>2. q <= m
    BY <2>1, DivOrder
  <2>3. Len(all) = m + 1
    BY <2>1 DEF Appends, Lengthened
  <2>4. k \in 1 .. m + 1
    BY <1>1, <2>1, <2>2
  <2> QED BY <2>3, <2>4
<1>5. ByteAt(id, x)' = data'[all[k]][o]
  <2>1. inodes'[id].blocks = all
    BY DEF BytesInv, Types, Appends
  <2> QED BY <1>1, <1>2, <2>1 DEF ByteAt
<1>6. data'[all[k]][o] = IF x >= pos /\ x < pos + Len(buf) THEN buf[x - pos + 1] ELSE data[all[k]][o]
  BY <1>3, <1>4 DEF Appends, Placed
<1>7. ASSUME x < len PROVE data[all[k]][o] = ByteAt(id, x)
  <2>1. k \in 1 .. Len(inodes[id].blocks)
    BY <1>1, <1>7, BlockOf
  <2>2. all[k] = inodes[id].blocks[k]
    BY <2>1 DEF Grown, Joined
  <2> QED BY <1>1, <1>2, <2>2 DEF ByteAt
<1>8. ASSUME x >= len PROVE data[all[k]][o] \in Hole
  BY <1>3, <1>4, <1>8, Behind
<1> QED BY <1>5, <1>6, <1>7, <1>8 DEF Carried

LEMMA WriteOver ==
  ASSUME BytesInv, BytesInv', NEW h, NEW buf \in Seq(Byte), NEW id \in Ino, NEW pos \in Nat,
         NEW new, NEW all, NEW need, NEW l,
         Grown(id, new, all, need), Appends(h, buf, id, pos, new, all, l)
  PROVE  F!Overwritten(Contents(id)', Contents(id), pos, buf)
<1>1. PICK c \in Seq(Byte) : c = Contents(id)
  BY ContentsBytes
<1>2. PICK d : d = Contents(id)'
  OBVIOUS
<1>3. l \in Nat /\ inodes'[id].len = l
  BY DEF BytesInv, Types, Appends, Lengthened
<1>4. Len(d) = l /\ \A p \in 1 .. l : d[p] = ByteAt(id, p - 1)'
  BY <1>2, <1>3, ContentsAreNext DEF ContentsGood
<1>5. PICK len \in Nat : len = inodes[id].len
  BY DEF BytesInv, Types
<1>6. Len(c) = len /\ \A p \in 1 .. len : c[p] = ByteAt(id, p - 1)
  BY <1>1, <1>5, ContentsBytes
<1>7. PICK n \in Nat : n = Len(buf)
  OBVIOUS
<1>8. l = IF pos + n > len THEN pos + n ELSE len
  BY <1>3, <1>5, <1>7 DEF Appends, Lengthened
<1>9. ASSUME NEW p \in 1 .. l
      PROVE  /\ p > pos /\ p <= pos + n => d[p] = buf[p - pos]
             /\ ~(p > pos /\ p <= pos + n) /\ p <= len => d[p] = c[p]
             /\ ~(p > pos /\ p <= pos + n) /\ p > len => d[p] \in {Zero, Junk}
  <2>1. PICK x \in Nat : x = p - 1
    BY <1>3
  <2>2. x < l
    BY <1>3, <2>1
  <2>3. d[p] = ByteAt(id, x)'
    BY <1>4, <2>1
  <2>4. (p > pos /\ p <= pos + n) <=> (x >= pos /\ x < pos + n)
    BY <1>3, <2>1
  <2>5. (p > len <=> x >= len) /\ (p <= len <=> x < len) /\ x - pos + 1 = p - pos
    BY <1>3, <2>1
  <2>6. /\ x >= pos /\ x < pos + Len(buf) => ByteAt(id, x)' = buf[x - pos + 1]
        /\ ~(x >= pos /\ x < pos + Len(buf)) /\ x < len => ByteAt(id, x)' = ByteAt(id, x)
        /\ ~(x >= pos /\ x < pos + Len(buf)) /\ x >= len => ByteAt(id, x)' \in Hole
    <3>1. Carried(id, x, pos, buf, len)
      BY <1>3, <1>5, <2>2, WriteByte
    <3> QED BY <3>1 DEF Carried
  <2>7. p <= len => c[p] = ByteAt(id, x)
    BY <1>3, <1>6, <2>1
  <2> QED BY <1>7, <2>3, <2>4, <2>5, <2>6, <2>7 DEF Hole
<1>10. ASSUME NEW p \in 1 .. Len(d)
       PROVE  CASE p > pos /\ p <= pos + Len(buf) -> d[p] = buf[p - pos]
                [] p <= Len(c) /\ (p <= pos \/ p > pos + Len(buf)) -> d[p] = c[p]
                [] OTHER -> d[p] \in {Zero, Junk}
  <2>1. p \in 1 .. l /\ p \in Nat
    BY <1>3, <1>4
  <2>2. CASE p > pos /\ p <= pos + n
    <3>1. d[p] = buf[p - pos]
      BY <1>9, <2>1, <2>2
    <3>2. ~(p <= Len(c) /\ (p <= pos \/ p > pos + Len(buf)))
      BY <1>7, <2>1, <2>2
    <3> QED BY <1>7, <2>2, <3>1, <3>2
  <2>3. CASE p <= len /\ ~(p > pos /\ p <= pos + n)
    <3>1. d[p] = c[p]
      BY <1>9, <2>1, <2>3
    <3>2. p <= Len(c) /\ (p <= pos \/ p > pos + Len(buf)) /\ ~(p > pos /\ p <= pos + Len(buf))
      BY <1>6, <1>7, <2>1, <2>3
    <3> QED BY <3>1, <3>2
  <2>4. CASE ~(p <= len) /\ ~(p > pos /\ p <= pos + n)
    <3>1. d[p] \in {Zero, Junk}
      BY <1>9, <2>1, <2>4
    <3>2. /\ ~(p <= Len(c) /\ (p <= pos \/ p > pos + Len(buf)))
          /\ ~(p > pos /\ p <= pos + Len(buf))
      BY <1>6, <1>7, <2>4
    <3> QED BY <3>1, <3>2
  <2> QED BY <2>2, <2>3, <2>4
<1>11. Len(d) = IF pos + Len(buf) > Len(c) THEN pos + Len(buf) ELSE Len(c)
  BY <1>4, <1>6, <1>7, <1>8
<1>12. F!Overwritten(d, c, pos, buf)
  BY <1>10, <1>11 DEF F!Overwritten
<1> QED BY <1>1, <1>2, <1>12

LEMMA WriteFiles ==
  ASSUME BytesInv, BytesInv', NEW h \in Handle, NEW buf \in Buffers, Write(h, buf)
  PROVE  F!Write(h, buf) \/ UNCHANGED <<ContentsNow, OpenNow, PosNow>>
<1>1. buf \in Seq(Byte) /\ Len(buf) \in Nat
  BY BufferBytes
<1>2. PICK id \in inode_bitmap, pos \in Nat : \E new, all, l :
              /\ handles[h].kind = "file" /\ handles[h].id = id /\ handles[h].pos = pos
              /\ Grown(id, new, all, Needed(pos, Len(buf)))
              /\ \/ UNCHANGED <<inodes, data, handles>>
                 \/ Appends(h, buf, id, pos, new, all, l)
  BY WriteStep
<1>3. PICK new, all, l :
              /\ handles[h].kind = "file" /\ handles[h].id = id /\ handles[h].pos = pos
              /\ Grown(id, new, all, Needed(pos, Len(buf)))
              /\ \/ UNCHANGED <<inodes, data, handles>>
                 \/ Appends(h, buf, id, pos, new, all, l)
  BY <1>2
<1>4. id \in Ino
  BY DEF BytesInv, Types
<1>5. CASE UNCHANGED <<inodes, data, handles>>
  BY <1>5 DEF ContentsNow, OpenNow, PosNow, Contents
<1>6. CASE Appends(h, buf, id, pos, new, all, l)
  <2>1. OpenNow[h] = id /\ PosNow[h] = pos
    BY <1>3 DEF OpenNow, PosNow
  <2>2. id # None
    BY <1>4, SataFsAssumption, Sizes DEF Ino
  <2>3. F!Overwritten(Contents(id)', Contents(id), pos, buf)
    BY <1>1, <1>3, <1>4, <1>6, WriteOver
  <2>4. ASSUME NEW j \in Ino, j # id PROVE Contents(j)' = Contents(j)
    BY <1>3, <1>4, <1>6, <2>4, WriteOthers
  <2>5. ContentsNow'[id] = Contents(id)' /\ ContentsNow[id] = Contents(id)
    BY <1>4 DEF ContentsNow
  <2>6. \A j \in Ino \ {id} : ContentsNow'[j] = ContentsNow[j]
    BY <2>4 DEF ContentsNow
  <2>7. handles' = [handles EXCEPT ![h].pos = @ + Len(buf)]
    BY <1>6 DEF Appends
  <2>8. PosNow' = [PosNow EXCEPT ![h] = @ + Len(buf)]
    <3>1. \A g \in Handle : handles'[g].pos = IF g = h THEN handles[g].pos + Len(buf)
                                                ELSE handles[g].pos
      BY <2>7 DEF BytesInv, Types
    <3> QED BY <3>1 DEF PosNow
  <2>9. OpenNow' = OpenNow
    BY <2>7 DEF OpenNow, BytesInv, Types
  <2>10. F!Overwritten(ContentsNow'[OpenNow[h]], ContentsNow[OpenNow[h]], PosNow[h], buf)
    BY <2>1, <2>3, <2>5
  <2>11. OpenNow[h] # None /\ \A j \in Ino \ {OpenNow[h]} : ContentsNow'[j] = ContentsNow[j]
    BY <2>1, <2>2, <2>6
  <2>12. F!Write(h, buf)
    BY <2>8, <2>9, <2>10, <2>11 DEF F!Write, ContentsNow, OpenNow, PosNow
  <2> QED BY <2>12
<1> QED BY <1>3, <1>5, <1>6

(* The disk implements files: a write through a handle changes the bytes at  *)
(* the position of that handle, no other byte of the file and no other file, *)
(* and what it leaves between the old end and that position was never        *)
(* written by anyone; no other request changes a byte (fs.c:262-431).        *)
THEOREM FilesAreKept == Spec => FilesKept
<1>1. Init => F!FInit
  BY InitFiles
<1>2. /\ BytesInv /\ TreeInv /\ (BytesInv /\ TreeInv)' /\ [Next]_vars
      => [F!FNext]_F!fVars
  <2> SUFFICES ASSUME BytesInv, TreeInv, (BytesInv /\ TreeInv)', [Next]_vars
               PROVE  [F!FNext]_F!fVars
    OBVIOUS
  <2>1. CASE UNCHANGED vars
    <3>1. UNCHANGED <<ContentsNow, OpenNow, PosNow>>
      BY <2>1 DEF vars, disk, ContentsNow, OpenNow, PosNow, Contents
    <3> QED BY <3>1 DEF F!fVars, ContentsNow, OpenNow, PosNow
  <2>2. ASSUME NEW h \in Handle, NEW buf \in Buffers, Write(h, buf) PROVE [F!FNext]_F!fVars
    <3>1. CASE F!Write(h, buf)
      BY <3>1 DEF F!FNext
    <3>2. CASE UNCHANGED <<ContentsNow, OpenNow, PosNow>>
      BY <3>2 DEF F!fVars, ContentsNow, OpenNow, PosNow
    <3> QED BY <2>2, <3>1, <3>2, WriteFiles
  <2>3. ASSUME NEW h \in Handle, NEW v, MovesTo(h, v) PROVE [F!FNext]_F!fVars
    <3>1. /\ v \in States /\ (v.kind = "file" => v.id \in Ino)
          /\ handles' = [handles EXCEPT ![h] = v] /\ UNCHANGED <<inodes, data>>
      BY <2>3 DEF MovesTo, disk, BytesInv, Types
    <3>2. F!Move
      BY <3>1, MoveFiles
    <3> QED BY <3>2 DEF F!FNext
  <2>4. ASSUME NEW h \in Handle, NEW path \in Path, Create(h, path) PROVE [F!FNext]_F!fVars
    <3>1. UNCHANGED <<inodes, data>>
      BY <2>4, CreateBytes
    <3>2. PICK i \in Ino : handles' = [handles EXCEPT ![h] = [kind |-> "file", id |-> i, pos |-> 0]]
      BY <2>4, CreateStep
    <3> DEFINE v == [kind |-> "file", id |-> i, pos |-> 0]
    <3>3. v \in States /\ (v.kind = "file" => v.id \in Ino) /\ handles' = [handles EXCEPT ![h] = v]
      BY <3>2 DEF States
    <3> HIDE DEF v
    <3>4. F!Move
      BY <3>1, <3>3, MoveFiles
    <3> QED BY <3>4 DEF F!FNext
  <2> QED BY <2>1, <2>2, <2>3, <2>4, Steps
<1> QED BY <1>1, <1>2, Invariant, PTL DEF Spec, FilesKept, F!FSpec
=============================================================================
