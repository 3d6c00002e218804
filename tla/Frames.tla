------------------------------- MODULE Frames -------------------------------
(***************************************************************************)
(* The kernel's physical pages: the page allocator, the pools that live on  *)
(* its pages, and the radix tree phys_pages, whose nodes come from a pool   *)
(* and whose keys are page addresses.  All of this runs with interrupts     *)
(* disabled and without preemption, so each call is one action, and callers  *)
(* make their calls in any order.                                           *)
(*                                                                          *)
(* The callers are page_man.c (a struct page for each page in use), copy.c  *)
(* (a pool for each message) and the takers of whole pages (stacks, page    *)
(* tables).                                                                 *)
(***************************************************************************)
EXTENDS Radix

CONSTANTS
  Smaps,       \* the memory maps to consider
  Kernel,      \* the range of the kernel image and the early page tables
  Extra,       \* the number of pages at its end that page_allocator_init is given
  DevicePage,  \* addresses of device memory
  MaxRef, MaxOther, MaxItems  \* bounds: references to a device page, whole pages taken, objects of a message

VARIABLES
  mem,         \* allocator and pools
  nodes, root, \* the tree phys_pages
  page,        \* the struct page of each managed address: its object and ref_count
  other,       \* pages the kernel has taken
  msg,         \* the pool object of the message in flight, or Null
  items,       \* its objects
  smap         \* the memory map of this machine

frames == <<mem, nodes, root, page, other, msg, items, smap>>

PoolName == {"meta", "tree", "page", "msg"}
PagesIn(r) == r.base .. r.base + r.length - 1

\* Page numbers are keys of the tree; the ranges of a memory map are not empty and
\* do not overlap, and device memory is none of the allocator's.
ASSUME FramesAssumption ==
  /\ PerPage \in [PoolName -> Nat \ {0}]
  /\ LowTop \in Nat /\ Kernel \in [base : Nat, length : Nat] /\ Extra \in 0 .. Kernel.length
  /\ PagesIn(Kernel) \subseteq Key /\ DevicePage \subseteq Key \ PagesIn(Kernel)
  /\ \A map \in Smaps :
       /\ map \in Seq([base : Nat, length : Nat \ {0}, type : Nat]) /\ map # <<>>
       /\ \A j, k \in DOMAIN map : j # k => PagesIn(map[j]) \cap PagesIn(map[k]) = {}
       /\ \A k \in DOMAIN map : map[k].type = 1 => PagesIn(map[k]) \subseteq Key \ DevicePage

\* page_allocator_init and page_man_init.
Booted(map) ==
  LET end == Kernel.base + Kernel.length
      s0 == [head |-> [k \in 1 .. Extra |-> end - k],
             usable |-> UsableRanges(TrimLow(map), Kernel),
             pool |-> [q \in PoolName |-> EmptyPool],
             crashed |-> FALSE]
      pagePool == PoolCreate(s0, "page")
      treePool == PoolCreate(pagePool.s, "tree")
  IN  ObjAlloc(treePool.s, "tree")

FramesInit ==
  /\ smap \in Smaps
  /\ mem = Booted(smap).s
  /\ root = Booted(smap).obj
  /\ nodes = [x \in {Booted(smap).obj} |-> Node(0, 0, Null)]
  /\ page = <<>>
  /\ other = {} /\ msg = Null /\ items = {}

KernelUp == ~mem.crashed

\* The kernel follows usable_head = NULL.
Crash ==
  /\ mem' = [mem EXCEPT !.crashed = TRUE]
  /\ UNCHANGED <<nodes, root, page, other, msg, items, smap>>

\* manage_phys_page of an address that is not managed yet, in state s1.
ManageNew(s1, addr) ==
  LET a == ObjAlloc(s1, "page")
      r == RadixInsert(a.s, nodes, root, addr, a.obj)
  IN  IF r.s.crashed THEN Crash
      ELSE /\ mem' = r.s /\ nodes' = r.n
           /\ page' = Put(page, addr, [obj |-> a.obj, ref |-> 1])
           /\ UNCHANGED <<root, other, msg, items, smap>>

\* A new page for user memory: get_page and manage_phys_page.
NewPage ==
  LET g == GetPage(mem)
  IN  /\ KernelUp
      /\ IF g.s.crashed THEN Crash ELSE ManageNew(g.s, g.page)

\* manage_phys_page of device memory: the tree is searched first.
MapPhysical(addr) ==
  /\ KernelUp
  /\ IF RadixFind(nodes, root, addr) = None
     THEN ManageNew(mem, addr)
     ELSE /\ page[addr].ref < MaxRef
          /\ page' = [page EXCEPT ![addr].ref = @ + 1]
          /\ UNCHANGED <<mem, nodes, root, other, msg, items, smap>>

\* page_unref; a page of a device does not go to the free list.
Unref(addr) ==
  LET r == Delete(mem, nodes, root, addr)
      s1 == IF addr \in DevicePage THEN r.s ELSE DropPage(r.s, addr)
  IN  /\ KernelUp /\ addr \in DOMAIN page
      /\ IF page[addr].ref > 1
         THEN page' = [page EXCEPT ![addr].ref = @ - 1] /\ UNCHANGED <<mem, nodes>>
         ELSE /\ mem' = ObjFree(s1, "page", page[addr].obj)
              /\ nodes' = r.n
              /\ page' = Without(page, addr)
      /\ UNCHANGED <<root, other, msg, items, smap>>

\* The takers of whole pages.
TakePage ==
  LET g == GetPage(mem)
  IN  /\ KernelUp /\ Cardinality(other) < MaxOther
      /\ IF g.s.crashed THEN Crash
         ELSE /\ mem' = g.s /\ other' = other \cup {g.page}
              /\ UNCHANGED <<nodes, root, page, msg, items, smap>>
GiveBack(p) ==
  /\ KernelUp
  /\ mem' = DropPage(mem, p) /\ other' = other \ {p}
  /\ UNCHANGED <<nodes, root, page, msg, items, smap>>

\* map_from_user: a pool for the message, and each of its objects.
NewMessage ==
  LET c == PoolCreate(mem, "msg")
  IN  /\ KernelUp /\ msg = Null
      /\ IF c.s.crashed THEN Crash
         ELSE /\ mem' = c.s /\ msg' = c.obj
              /\ UNCHANGED <<nodes, root, page, other, items, smap>>
AddItem ==
  LET a == ObjAlloc(mem, "msg")
  IN  /\ KernelUp /\ msg # Null /\ Cardinality(items) < MaxItems
      /\ IF a.s.crashed THEN Crash
         ELSE /\ mem' = a.s /\ items' = items \cup {a.obj}
              /\ UNCHANGED <<nodes, root, page, other, msg, smap>>

\* page_list_free's last call: the pool and its objects go.
FreeMessage ==
  /\ KernelUp /\ msg # Null
  /\ mem' = PoolDestroy(mem, "msg", msg)
  /\ msg' = Null /\ items' = {}
  /\ UNCHANGED <<nodes, root, page, other, smap>>

FramesNext ==
  \/ NewPage
  \/ \E d \in DevicePage : MapPhysical(d)
  \/ \E p \in DOMAIN page : Unref(p)
  \/ TakePage
  \/ \E p \in other : GiveBack(p)
  \/ NewMessage \/ AddItem \/ FreeMessage

FramesSpec == FramesInit /\ [][FramesNext]_frames

-----------------------------------------------------------------------------
(* Properties                                                              *)

FreePages == Range(mem.head) \cup UNION {PagesIn(mem.usable[k]) : k \in DOMAIN mem.usable}
PoolPages(q) == Range(mem.pool[q].pages)

\* "reserved memory ranges, which will not be returned from this allocator"
\* (get_page.c:22-23): the memory the allocator may use.
Ram ==
  ((UNION {PagesIn(smap[k]) : k \in {j \in DOMAIN smap : smap[j].type = 1}})
     \ (PagesIn(Kernel) \cup (IF smap[1].base = 0 THEN 0 .. Min({LowTop, smap[1].length}) - 1 ELSE {})))
  \cup Kernel.base + Kernel.length - Extra .. Kernel.base + Kernel.length - 1

\* Every page of memory outside the reserved range is in exactly one place: free,
\* under a pool, managed, or taken.  No page is handed out twice, lost, or taken
\* from the kernel or a device, over any sequence of calls.
PagesAccounted ==
  LET places == <<FreePages, PoolPages("meta"), PoolPages("tree"), PoolPages("page"),
                  PoolPages("msg"), DOMAIN page \ DevicePage, other>>
  IN  ~mem.crashed =>
        /\ UNION Range(places) = Ram
        /\ \A j, k \in DOMAIN places : j # k => places[j] \cap places[k] = {}
        /\ IsInjective(mem.head)
        /\ \A j \in DOMAIN mem.usable :
             /\ PagesIn(mem.usable[j]) \cap Range(mem.head) = {}
             /\ \A k \in DOMAIN mem.usable : j # k =>
                  PagesIn(mem.usable[j]) \cap PagesIn(mem.usable[k]) = {}

\* binradix_find finds the struct page of exactly the managed addresses, whatever
\* was inserted and deleted before: splitting and merging nodes (binradix.c:80-93,
\* 143-153) lose no key and invent none.
TreeExact ==
  ~mem.crashed =>
    \A k \in Key :
      RadixFind(nodes, root, k) = IF k \in DOMAIN page THEN page[k].obj ELSE None

\* binradix_for_each visits each datum once (fork copies every page once), and the
\* objects in use of each pool are those somebody points to: no node is leaked or
\* freed while it is in the tree.
ObjectsOwned ==
  LET visits == Visits(nodes, root)
  IN  ~mem.crashed =>
        /\ IsInjective(visits)
        /\ Range(visits) = {page[k].obj : k \in DOMAIN page}
        /\ InUse(mem, "tree") = Reach(nodes, root) /\ DOMAIN nodes = Reach(nodes, root)
        /\ InUse(mem, "page") = {page[k].obj : k \in DOMAIN page}
        /\ InUse(mem, "msg") = items
=============================================================================
