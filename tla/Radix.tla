-------------------------------- MODULE Radix --------------------------------
(***************************************************************************)
(* The binary radix tree of sys/lib/binradix.c, as operators on a function   *)
(* nodes from node addresses to nodes.  Keys have Width bits (64 in the      *)
(* code).  A node covers len bits of its key part; a leaf covers all that    *)
(* are left.  The data of a leaf is not NULL, the root has no bits.          *)
(*                                                                           *)
(* Callers insert keys that are not in the tree and delete keys that are     *)
(* (page_man.c:28-41, aspace.c:168-177), and so must those of RadixInsert    *)
(* and Delete here.  (A duplicate of a leaf just below the root would be     *)
(* shifted by 64 bits in binradix.c:97 and inserted below the leaf; the      *)
(* deletion of a missing key follows a null pointer.)                        *)
(***************************************************************************)
EXTENDS PageAlloc

CONSTANTS Width, Null

ASSUME RadixAssumption ==
  /\ Width \in Nat \ {0}
  /\ Null # None /\ {Null, None} \cap (Nat \cup (Nat \X Nat)) = {}

\* 1 << b.
Pow[b \in 0 .. Width] == IF b = 0 THEN 1 ELSE 2 * Pow[b - 1]

Key == 0 .. Pow[Width] - 1

Bit(k, b) == (k \div Pow[b]) % 2

\* bincmp with hibit: the highest bit in which a and b differ among the nbit
\* bits from bit off downwards; -1 if there is none.
BinCmp(a, b, off, nbit) ==
  LET diff == {j \in off - nbit + 1 .. off : Bit(a, j) # Bit(b, j)}
  IN  IF diff = {} THEN -1 ELSE Max(diff)

Node(part, len, data) == [next |-> [b \in 0 .. 1 |-> Null], part |-> part, len |-> len,
                          data |-> data]

Put(n, x, v) == [y \in DOMAIN n \cup {x} |-> IF y = x THEN v ELSE n[y]]

Without(n, x) == [y \in DOMAIN n \ {x} |-> n[y]]

\* Where the loops of find, insert and delete are: at a node or behind an empty
\* pointer, below a parent, with the bits from off downwards still to compare.
\* They go on from a node that has children and whose bits are the key's.
Equal(n, w, key) == BinCmp(n[w.at].part, key, w.off, n[w.at].len) = -1
GoesOn(n, w, key) == w.at # Null /\ Equal(n, w, key) /\ w.off >= n[w.at].len

Down(n, w, key) ==
  LET below == w.off - n[w.at].len
  IN  [at |-> n[w.at].next[Bit(key, below)], parent |-> w.at, off |-> below]

\* The loop.  Every node but the root has a bit or more, so that it ends after
\* Width + 1 turns at the latest.
Walk(n, root, key) ==
  LET turn[i \in 0 .. Width + 1] ==
        IF i = 0 THEN [at |-> root, parent |-> Null, off |-> Width - 1]
        ELSE LET w == turn[i - 1] IN IF GoesOn(n, w, key) THEN Down(n, w, key) ELSE w
  IN  turn[Width + 1]

\* binradix_find.
RadixFind(n, root, key) ==
  LET w == Walk(n, root, key)
  IN  IF w.at # Null /\ Equal(n, w, key) THEN n[w.at].data ELSE None

\* binradix_insert.  The key leaves the tree inside a node, which is split, or
\* at an empty pointer of the root.
RadixInsert(s, n, root, key, data) ==
  LET w == Walk(n, root, key)
      v == n[w.at]
      diff == BinCmp(v.part, key, w.off, v.len)
      a == ObjAlloc(s, "tree")
      a2 == ObjAlloc(a.s, "tree")
      bit == Bit(key, diff)
      rest == [v EXCEPT !.len = @ - (w.off - diff)]
      fork == [next |-> [b \in 0 .. 1 |-> IF b = bit THEN a2.obj ELSE a.obj],
               part |-> v.part, len |-> w.off - diff, data |-> Null]
  IN  IF w.at # Null
      THEN [s |-> a2.s, n |-> Put(Put(Put(n, a.obj, rest), w.at, fork),
                                  a2.obj, Node(key, diff + 1, data))]
      ELSE [s |-> a.s, n |-> Put([n EXCEPT ![w.parent].next[Bit(key, w.off)] = a.obj],
                                 a.obj, Node(key, w.off + 1, data))]

LowBits(k, b) == k % Pow[b + 1]

\* Mutant: the merged node keeps the parent's bits.
MergedPartOld(p, m, off) == p.part

\* The key part of a parent that is merged with its other child.
MergedPart(p, m, off) == (p.part - LowBits(p.part, off)) + LowBits(m.part, off)

\* binradix_delete.
Delete(s, n, root, key) ==
  LET w == Walk(n, root, key)
      p == n[w.parent]
      bit == IF p.next[1] = w.at THEN 1 ELSE 0
      s1 == ObjFree(s, "tree", w.at)
      mAddr == p.next[1 - bit]
      m == n[mAddr]
      merged == [next |-> m.next, part |-> MergedPart(p, m, w.off), len |-> p.len + m.len,
                 data |-> m.data]
  IN  IF w.parent = root
      THEN [s |-> s1, n |-> Without([n EXCEPT ![root].next[bit] = Null], w.at)]
      ELSE [s |-> ObjFree(s1, "tree", mAddr),
            n |-> Without(Without([n EXCEPT ![w.parent] = merged], w.at), mAddr)]

\* binradix_for_each: the data in the order of the visits, to a depth of Width
\* nodes below the root.
Visits(n, root) ==
  LET below[d \in 0 .. Width] ==
        [x \in DOMAIN n \cup {Null} |->
           IF x = Null THEN <<>>
           ELSE IF n[x].data # Null THEN <<n[x].data>>
           ELSE IF d = 0 THEN <<>>
           ELSE below[d - 1][n[x].next[0]] \o below[d - 1][n[x].next[1]]]
  IN  below[Width][n[root].next[0]] \o below[Width][n[root].next[1]]

\* The nodes that can be reached.
Reach(n, root) ==
  LET near[d \in 0 .. Width] ==
        IF d = 0 THEN {root}
        ELSE LET r == near[d - 1]
             IN  r \cup ({n[x].next[b] : x \in r, b \in 0 .. 1} \ {Null})
  IN  near[Width]
=============================================================================
