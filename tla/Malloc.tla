------------------------------- MODULE Malloc -------------------------------
(***************************************************************************)
(* malloc and free of libc/malloc.c: a buddy allocator with pages from the   *)
(* kernel, and blocks of several pages straight from the kernel.             *)
(*                                                                           *)
(* Sizes and addresses are in units; a page has 2^P of them (4096 bytes,     *)
(* P = 12, in the code) and a request counts its header.  Only the headers   *)
(* at the start of a block are kept: what is read at another address is      *)
(* user data or an old header, any value.  A process has one thread.         *)
(*                                                                           *)
(* Two things the code does not survive, kept as crashed: a request that     *)
(* with its header is exactly a page has an order for which there is no list *)
(* (malloc.c:85, 102), and the release of a block larger than half a page    *)
(* looks at the page beside it (malloc.c:127), which need not be there and   *)
(* must not be merged.                                                       *)
(***************************************************************************)
EXTENDS Integers, Sequences, SequencesExt, FiniteSetsExt

CONSTANTS
  P,           \* order of a page
  Pages,       \* bound: pages of the address space
  MaxUsed,     \* bound: blocks in use, of at most a page
  Sizes        \* requests, with their header

VARIABLES
  heap,        \* blocks: address -> order, free or not, what was asked; free: _free
  huge,        \* blocks of several pages: address -> number of pages
  crashed      \* what stopped the process

heapVars == <<heap, huge, crashed>>

\* 1 << k.
Power[k \in 0 .. P + 1] == IF k = 0 THEN 1 ELSE 2 * Power[k - 1]

PageUnits == Power[P]
Order == 0 .. P

ASSUME MallocAssumption == P \in Nat /\ Pages \in Nat /\ MaxUsed \in Nat /\ Sizes \subseteq Nat \ {0}

\* Mutant: 63 - clz(n).
OrderOfShort(n) == CHOOSE k \in 0 .. P : Power[k] <= n /\ Power[k + 1] > n

\* 64 - clz(n): blocks of this order hold more than n.
OrderOf(n) == CHOOSE k \in 0 .. P + 1 : Power[k] > n /\ (k = 0 \/ Power[k - 1] <= n)

PageOf(a) == a \div PageUnits
HeapPages == {PageOf(a) : a \in DOMAIN heap.blocks}
HugePages == UNION {PageOf(a) .. PageOf(a) + huge[a] - 1 : a \in DOMAIN huge}

\* sendpage (external): the first gap of n pages, -1 if there is none.
NewPages(n) ==
  LET fits == {p \in 0 .. Pages - n : p .. p + n - 1 \cap (HeapPages \cup HugePages) = {}}
  IN  IF fits = {} THEN -1 ELSE Min(fits)

PutBlock(h, a, b) ==
  [h EXCEPT !.blocks = [x \in DOMAIN h.blocks \cup {a} |-> IF x = a THEN b ELSE h.blocks[x]]]

FreeBlock(k) == [order |-> k, free |-> TRUE, asked |-> 0]

\* insert: to the front of _free[k].
InsertFree(h, k, a) ==
  [PutBlock(h, a, FreeBlock(k)) EXCEPT !.free[k] = <<a>> \o @]

\* split: the first block of _free[k] becomes the first two of _free[k - 1].
Split(h, k) ==
  LET a == Head(h.free[k])
      b == a + Power[k - 1]
  IN  [PutBlock(PutBlock(h, a, FreeBlock(k - 1)), b, FreeBlock(k - 1))
         EXCEPT !.free[k] = Tail(@), !.free[k - 1] = <<a, b>> \o @]

\* malloc of at most a page: the heap with a block of order k for n units.
Take(h, k, n) ==
  LET from == Min({j \in k .. P : h.free[j] # <<>>})
      after[d \in 0 .. from - k] ==
        IF d = 0 THEN h ELSE Split(after[d - 1], from + 1 - d)
      h1 == after[from - k]
      a == Head(h1.free[k])
  IN  [PutBlock(h1, a, [order |-> k, free |-> FALSE, asked |-> n])
         EXCEPT !.free[k] = Tail(@)]

Alloc(n) ==
  LET k == OrderOf(n)
      none == \A j \in k .. P : heap.free[j] = <<>>
      page == NewPages(1)
      h == IF none THEN InsertFree(heap, P, page * PageUnits) ELSE heap
  IN  /\ crashed = "none" /\ n <= PageUnits
      /\ Cardinality({a \in DOMAIN heap.blocks : ~heap.blocks[a].free}) < MaxUsed
      /\ none => page # -1
      /\ IF k > P THEN heap' = h /\ crashed' = "order13"
         ELSE heap' = Take(h, k, n) /\ UNCHANGED crashed
      /\ UNCHANGED huge

AllocHuge(n) ==
  LET count == (n + PageUnits - 1) \div PageUnits
      page == NewPages(count)
  IN  /\ crashed = "none" /\ n > PageUnits /\ page # -1
      /\ huge' = [a \in DOMAIN huge \cup {page * PageUnits} |->
                    IF a = page * PageUnits THEN count ELSE huge[a]]
      /\ UNCHANGED <<heap, crashed>>

\* free of a block of several pages: munmap.
FreeHuge(a) ==
  /\ crashed = "none"
  /\ huge' = [x \in DOMAIN huge \ {a} |-> huge[x]]
  /\ UNCHANGED <<heap, crashed>>

\* The address of the buddy: a with bit k inverted.
Buddy(a, k) == IF (a \div Power[k]) % 2 = 0 THEN a + Power[k] ELSE a - Power[k]

\* Mutant: the buddy is not removed from its list.
MergeKeeps(h, a, b, k) ==
  LET rest == [h EXCEPT !.blocks = [x \in DOMAIN @ \ {a, b} |-> h.blocks[x]]]
  IN  InsertFree(rest, k + 1, Min({a, b}))

\* The block of order k at a and its buddy b become one of order k + 1.
Merge(h, a, b, k) ==
  LET low == Min({a, b})
      rest == [h EXCEPT !.blocks = [x \in DOMAIN @ \ {a, b} |-> h.blocks[x]],
                        !.free[k] = RemoveFirst(@, b)]
  IN  InsertFree(rest, k + 1, low)

\* free.  A second free of the same block finds _FREE in its header and does
\* nothing.
Free(a) ==
  LET k == heap.blocks[a].order
      b == Buddy(a, k)
  IN  /\ crashed = "none" /\ a \in DOMAIN heap.blocks /\ ~heap.blocks[a].free
      /\ \/ \* the buddy's header says free, of the same order
            /\ b \in DOMAIN heap.blocks /\ heap.blocks[b].free /\ heap.blocks[b].order = k
            /\ IF k = P THEN crashed' = "order13" /\ UNCHANGED heap
               ELSE heap' = Merge(heap, a, b, k) /\ UNCHANGED crashed
         \/ \* it does not
            /\ \/ b \in DOMAIN heap.blocks /\ heap.blocks[b] # FreeBlock(k)
               \/ b \notin DOMAIN heap.blocks /\ PageOf(b) \in HeapPages \cup HugePages
            /\ heap' = InsertFree(heap, k, a) /\ UNCHANGED crashed
         \/ \* no block starts there, and what is there looks like such a header
            /\ b \notin DOMAIN heap.blocks
            /\ PageOf(b) \in HeapPages \cup (HugePages \ {PageOf(x) : x \in DOMAIN huge})
            /\ crashed' = (IF k = P THEN "neighbour" ELSE "corrupt") /\ UNCHANGED heap
         \/ \* the page beside is not mapped
            /\ PageOf(b) \notin HeapPages \cup HugePages
            /\ crashed' = "neighbour" /\ UNCHANGED heap
      /\ UNCHANGED huge

HeapInit ==
  /\ heap = [blocks |-> <<>>, free |-> [k \in Order |-> <<>>]]
  /\ huge = <<>>
  /\ crashed = "none"

HeapNext ==
  \/ \E n \in Sizes : Alloc(n) \/ AllocHuge(n)
  \/ \E a \in DOMAIN huge : FreeHuge(a)
  \/ \E a \in DOMAIN heap.blocks : Free(a)

HeapSpec == HeapInit /\ [][HeapNext]_heapVars

-----------------------------------------------------------------------------
(* Properties                                                              *)

Units(a) == a .. a + Power[heap.blocks[a].order] - 1

\* The blocks of the heap, used and free, tile its pages: none overlaps another
\* or a block of several pages, nothing is lost by splitting and merging, and a
\* used block holds what was asked for with its header (malloc.c:85).
HeapTiled ==
  /\ UNION {Units(a) : a \in DOMAIN heap.blocks}
       = UNION {p * PageUnits .. (p + 1) * PageUnits - 1 : p \in HeapPages}
  /\ \A a, b \in DOMAIN heap.blocks : a # b => Units(a) \cap Units(b) = {}
  /\ \A a \in DOMAIN heap.blocks : heap.blocks[a].asked <= Power[heap.blocks[a].order]
  /\ HeapPages \cap HugePages = {}

\* _free[k] has each free block of order k once and nothing else, so that the
\* buddy that free unlinks by its header alone is in the list the header names;
\* and inside a page free never takes user data or an old header for a buddy.
FreeListsExact ==
  /\ crashed # "corrupt"
  /\ \A k \in Order :
       /\ IsInjective(heap.free[k])
       /\ Range(heap.free[k]) = {a \in DOMAIN heap.blocks : heap.blocks[a] = FreeBlock(k)}
=============================================================================
