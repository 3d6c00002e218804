------------------------------ MODULE PageAlloc ------------------------------
(***************************************************************************)
(* The kernel's allocators, as operators: pages (sys/mm/get_page.c, with    *)
(* the trimming of the memory map in sys/mm/paging.c) and objects of fixed  *)
(* size (sys/mm/obj_pool.c).  An address is a page number; an object is a   *)
(* page and an index.  A state s has the free list head, the unused ranges  *)
(* usable, the pools, and crashed: memory has run out and the null pointer  *)
(* usable_head was followed.  The list of unused ranges lives in a pool of  *)
(* its own, which has room enough on the page it takes at boot: left out.   *)
(*                                                                          *)
(* Ranges of the memory map are multiples of a page.  (One that is not      *)
(* would never reach the length PAGE_SIZE exactly, and its length would     *)
(* wrap; the first range, which usually is not, is dropped or trimmed by    *)
(* memory_init.)                                                            *)
(***************************************************************************)
EXTENDS Integers, Sequences, SequencesExt, FiniteSetsExt

CONSTANTS
  LowTop,      \* the end of the low memory that memory_init keeps for itself
  PerPage,     \* for each pool the objects a page holds
  None

-----------------------------------------------------------------------------
(* page_allocator_init                                                     *)

\* memory_init: a first range that starts at 0 loses its low part.
TrimLow(smap) ==
  LET first == smap[1]
      top == Min({LowTop, first.length})
  IN  IF first.base # 0 THEN smap
      ELSE IF first.length > top
      THEN <<[first EXCEPT !.base = top, !.length = @ - top]>> \o Tail(smap)
      ELSE Tail(smap)

\* What is left of range r beside the reserved range rm, in the order in which
\* it gets to the head of the list.
Carve(r, rm) ==
  LET end == r.base + r.length
      rmend == rm.base + rm.length
      back == <<[base |-> rmend, length |-> end - rmend]>>
      front == <<[base |-> r.base, length |-> rm.base - r.base]>>
  IN  IF rmend <= r.base \/ end <= rm.base THEN <<r>>
      ELSE IF rmend >= end /\ rm.base <= r.base THEN <<>>
      ELSE IF rmend >= end THEN front
      ELSE IF rm.base > r.base THEN back \o front
      ELSE back

\* The list usable_head: ranges of the map are put in front one by one.
UsableRanges(smap, rm) ==
  LET list[i \in 0 .. Len(smap)] ==
        IF i = 0 THEN <<>>
        ELSE IF smap[i].type # 1 THEN list[i - 1]
        ELSE Carve([base |-> smap[i].base, length |-> smap[i].length], rm) \o list[i - 1]
  IN  list[Len(smap)]

-----------------------------------------------------------------------------
(* get_page and drop_page                                                  *)

\* get_page and get_phys_page: the page, and the state after.
GetPage(s) ==
  LET r == Head(s.usable)
  IN  IF s.head # <<>> THEN [page |-> Head(s.head), s |-> [s EXCEPT !.head = Tail(@)]]
      ELSE IF s.usable = <<>> THEN [page |-> None, s |-> [s EXCEPT !.crashed = TRUE]]
      ELSE [page |-> r.base,
            s |-> [s EXCEPT !.usable =
                     IF r.length = 1 THEN Tail(@)
                     ELSE <<[base |-> r.base + 1, length |-> r.length - 1]>> \o Tail(@)]]

DropPage(s, page) == [s EXCEPT !.head = <<page>> \o @]

-----------------------------------------------------------------------------
(* Object pools                                                            *)

EmptyPool == [free |-> <<>>, pages |-> <<>>, left |-> 0]

\* obj_pool_alloc from pool q: the object, and the state after.
ObjAlloc(s, q) ==
  LET p == s.pool[q]
      g == GetPage(s)
  IN  IF p.free # <<>>
      THEN [obj |-> Head(p.free), s |-> [s EXCEPT !.pool[q].free = Tail(@)]]
      ELSE IF p.left = 0
      THEN [obj |-> <<g.page, 0>>,
            s |-> [g.s EXCEPT !.pool[q] = [free |-> <<>>, pages |-> <<g.page>> \o p.pages,
                                           left |-> PerPage[q] - 1]]]
      ELSE [obj |-> <<Head(p.pages), PerPage[q] - p.left>>,
            s |-> [s EXCEPT !.pool[q].left = @ - 1]]

\* Mutant: the rest of the free list is lost.
ObjFreeForgets(s, q, obj) == [s EXCEPT !.pool[q].free = <<obj>>]

\* obj_pool_free.
ObjFree(s, q, obj) == [s EXCEPT !.pool[q].free = <<obj>> \o @]

\* obj_pool_create: the pool itself is an object of the pool meta.
PoolCreate(s, q) ==
  LET a == ObjAlloc(s, "meta")
  IN  [obj |-> a.obj, s |-> [a.s EXCEPT !.pool[q] = EmptyPool]]

\* Mutant: the pages stay where they are.
PoolDestroyLeaks(s, q, obj) == ObjFree([s EXCEPT !.pool[q] = EmptyPool], "meta", obj)

\* obj_pool_destroy: its pages are dropped, the first one first.
PoolDestroy(s, q, obj) ==
  ObjFree([s EXCEPT !.head = Reverse(s.pool[q].pages) \o @, !.pool[q] = EmptyPool], "meta", obj)

\* The objects of a pool that are in use.
InUse(s, q) ==
  LET p == s.pool[q]
      all == {<<p.pages[k], j>> : k \in DOMAIN p.pages, j \in 0 .. PerPage[q] - 1}
      fresh == {<<Head(p.pages), j>> : j \in PerPage[q] - p.left .. PerPage[q] - 1}
  IN  IF p.pages = <<>> THEN {} ELSE (all \ fresh) \ Range(p.free)
=============================================================================
